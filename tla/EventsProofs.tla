--------------------------- MODULE EventsProofs ---------------------------
(***************************************************************************)
(* Proofs about both ends of an event stream.                              *)
(*                                                                         *)
(* Of the server, for any number of writers, connections and rows and for  *)
(* any batch limit: it is type correct, a connection gets the rows in      *)
(* order and without repetition, no wakeup is lost, no row is skipped      *)
(* while rows commit in order, and the stream implements the feed.         *)
(*                                                                         *)
(* Of the client, for any sources, loops, workers, queue size and faults:  *)
(* it is type correct, loses no message it has read and keeps listening to *)
(* its sources, and with one worker it asks for nothing again that it has  *)
(* handled and kept a cursor for.                                          *)
(***************************************************************************)
EXTENDS EventStream, EventConsumer, FiniteSetTheorems, SequenceTheorems, TLAPS

(***************************************************************************)
(* The server: EventStream.                                                *)
(***************************************************************************)

(***************************************************************************)
(* The inductive invariant.                                                *)
(***************************************************************************)

(* Rows are numbered in commit order and carry a positive timestamp. *)
RowsOK ==
  /\ IsFiniteSet(rows)
  /\ \A e \in rows : e.id <= Cardinality(rows) /\ e.created > 0
  /\ \A e, f \in rows : e.id = f.id => e = f

ClockOK == clock > 0 /\ \A w \in Writer : wpc[w] = "exec" => wts[w] > 0

(* A running handler is subscribed; one that has not read its cursor has   *)
(* sent nothing; one that sleeps has written its whole batch.              *)
HandlerOK(c) ==
  /\ pc[c] # "closed" => c \in subs
  /\ pc[c] = "subscribed" => sent[c] = << >> /\ batch[c] = << >>
  /\ pc[c] \in {"fetch", "wait"} => batch[c] = << >>

(* What was sent is in order, without repetition, and not ahead of the     *)
(* cursor.                                                                 *)
SentOK(c) ==
  /\ \A i \in 1..Len(sent[c]) : sent[c][i] \in rows
  /\ pc[c] # "closed" => \A i \in 1..Len(sent[c]) : sent[c][i].created <= cursor[c]
  /\ \A i, j \in 1..Len(sent[c]) :
       i < j => sent[c][i] # sent[c][j] /\ sent[c][i].created <= sent[c][j].created

(* What is still to be written is in order, not behind the cursor, and was *)
(* not sent before.                                                        *)
BatchOK(c) ==
  pc[c] # "closed" =>
  /\ \A i \in 1..Len(batch[c]) :
       /\ batch[c][i] \in rows
       /\ cursor[c] <= batch[c][i].created
       /\ \A j \in 1..Len(sent[c]) : sent[c][j] # batch[c][i]
  /\ \A i, j \in 1..Len(batch[c]) :
       i < j => batch[c][i] # batch[c][j] /\ batch[c][i].created <= batch[c][j].created

(* A row the handler has not seen has a token, or a writer about to leave  *)
(* one, to announce it.                                                    *)
Announced(c) ==
  pc[c] \in {"send", "wait"} =>
    \/ capped[c]
    \/ ch[c] = 1
    \/ \E w \in Writer : wpc[w] = "notify"
    \/ \A e \in Pending(cursor[c]) : \E i \in 1..Len(batch[c]) : batch[c][i] = e

IInv ==
  /\ TypeOK
  /\ RowsOK
  /\ ClockOK
  /\ \A c \in Conn : HandlerOK(c)
  /\ \A c \in Conn : SentOK(c)
  /\ \A c \in Conn : BatchOK(c)
  /\ \A c \in Conn : Announced(c)

----------------------------------------------------------------------------
(***************************************************************************)
(* The initial states.                                                     *)
(***************************************************************************)

(* Every initial state satisfies the invariant. *)
LEMMA InitIInv == Init => IInv
<1> SUFFICES ASSUME Init PROVE IInv
  OBVIOUS
<1> USE DEF Init
<1>1. TypeOK
  BY DEF TypeOK
<1>2. RowsOK
  BY FS_EmptySet DEF RowsOK
<1>3. ClockOK
  BY DEF ClockOK
<1>4. ASSUME NEW c \in Conn PROVE HandlerOK(c) /\ SentOK(c) /\ BatchOK(c) /\ Announced(c)
  BY DEF HandlerOK, SentOK, BatchOK, Announced
<1> QED
  BY <1>1, <1>2, <1>3, <1>4 DEF IInv

----------------------------------------------------------------------------
(***************************************************************************)
(* One lemma per action: it preserves the invariant.                       *)
(***************************************************************************)

(* A step that opens no connection and leaves a handler's cursor, batch    *)
(* and sent rows alone keeps them in order.                                *)
LEMMA OrderFrame ==
  ASSUME NEW c \in Conn, SentOK(c), BatchOK(c), rows' = rows,
         pc'[c] # "closed" => pc[c] # "closed",
         cursor'[c] = cursor[c], batch'[c] = batch[c], sent'[c] = sent[c]
  PROVE  SentOK(c)' /\ BatchOK(c)'
<1>1. SentOK(c)'
  BY DEF SentOK
<1>2. BatchOK(c)'
  BY DEF BatchOK
<1> QED
  BY <1>1, <1>2

(* A step that leaves alone all a handler's part of the invariant speaks   *)
(* of preserves that part.                                                 *)
LEMMA Frame ==
  ASSUME NEW c \in Conn, IInv, rows' = rows, wpc' = wpc,
         c \in subs => c \in subs',
         pc'[c] = pc[c], ch'[c] = ch[c], cursor'[c] = cursor[c],
         batch'[c] = batch[c], sent'[c] = sent[c], capped'[c] = capped[c]
  PROVE  HandlerOK(c)' /\ SentOK(c)' /\ BatchOK(c)' /\ Announced(c)'
<1>1. HandlerOK(c)'
  BY DEF IInv, HandlerOK
<1>2. SentOK(c)' /\ BatchOK(c)'
  BY OrderFrame DEF IInv
<1>4. Pending(cursor[c])' = Pending(cursor[c])
  BY DEF Pending
<1>5. Announced(c)'
  BY <1>4 DEF IInv, Announced
<1> QED
  BY <1>1, <1>2, <1>5

(* The clock moves on. *)
LEMMA TickIInv == IInv /\ Tick => IInv'
<1> SUFFICES ASSUME IInv, Tick PROVE IInv'
  OBVIOUS
<1> USE DEF IInv, Tick, connVars
<1>1. TypeOK' /\ RowsOK' /\ ClockOK'
  BY DEF TypeOK, RowsOK, ClockOK
<1>2. ASSUME NEW c \in Conn
      PROVE  HandlerOK(c)' /\ SentOK(c)' /\ BatchOK(c)' /\ Announced(c)'
  BY DEF HandlerOK, SentOK, BatchOK, Announced, Pending
<1> QED
  BY <1>1, <1>2

(* A writer takes its timestamp. *)
LEMMA StampIInv == ASSUME NEW w \in Writer PROVE IInv /\ Stamp(w) => IInv'
<1> SUFFICES ASSUME IInv, Stamp(w) PROVE IInv'
  OBVIOUS
<1> USE DEF IInv, Stamp, connVars
<1>1. TypeOK' /\ RowsOK' /\ ClockOK'
  BY DEF TypeOK, RowsOK, ClockOK
<1>2. ASSUME NEW c \in Conn PROVE HandlerOK(c)' /\ SentOK(c)' /\ BatchOK(c)'
  BY DEF HandlerOK, SentOK, BatchOK
<1>3. ASSUME NEW v \in Writer, wpc[v] = "notify" PROVE wpc'[v] = "notify"
  BY <1>3 DEF TypeOK
<1>4. ASSUME NEW c \in Conn PROVE Announced(c)'
  BY <1>3 DEF Announced, Pending
<1> QED
  BY <1>1, <1>2, <1>4

(* The insert of a writer commits, or fails. *)
LEMMA ExecIInv == ASSUME NEW w \in Writer PROVE IInv /\ Exec(w) => IInv'
<1> SUFFICES ASSUME IInv, Exec(w) PROVE IInv'
  OBVIOUS
<1> USE DEF IInv, Exec, connVars
<1> DEFINE row == [id |-> Cardinality(rows) + 1, created |-> wts[w]]
<1>1. IsFiniteSet(rows) /\ Cardinality(rows) \in Nat
  BY FS_CardinalityType DEF RowsOK
<1>2. row \in Event /\ row \notin rows /\ row.created > 0 /\ row.id = Cardinality(rows) + 1
  BY <1>1 DEF TypeOK, RowsOK, ClockOK, Event
<1>3. IsFiniteSet(rows \cup {row}) /\ Cardinality(rows \cup {row}) = Cardinality(rows) + 1
  BY <1>1, <1>2, FS_AddElement
<1>4. rows \subseteq rows'
  OBVIOUS
<1>5. TypeOK'
  BY <1>2 DEF TypeOK
<1>6. RowsOK'
  <2>1. CASE rows' = rows \cup {row}
    <3> HIDE DEF row
    <3>1. \A e \in rows : e \in Event /\ e.id \in Nat /\ e.id <= Cardinality(rows)
                            /\ e.created > 0
      BY DEF TypeOK, RowsOK, Event
    <3>2. \A e \in rows' : e.id <= Cardinality(rows) + 1 /\ e.created > 0
      BY <2>1, <3>1, <1>1, <1>2
    <3>3. ASSUME NEW e \in rows', NEW f \in rows', e.id = f.id PROVE e = f
      <4>1. CASE e \in rows /\ f \in rows
        BY <4>1, <3>3 DEF RowsOK
      <4>2. CASE e = row /\ f = row
        BY <4>2
      <4>3. e = row /\ f \in rows => FALSE
        BY <3>1, <3>3, <1>1, <1>2
      <4>4. e \in rows /\ f = row => FALSE
        BY <3>1, <3>3, <1>1, <1>2
      <4> QED BY <4>1, <4>2, <4>3, <4>4, <2>1
    <3>4. IsFiniteSet(rows') /\ Cardinality(rows') = Cardinality(rows) + 1
      BY <2>1, <1>3
    <3>5. \A e \in rows' : e.id <= Cardinality(rows') /\ e.created > 0
      BY <3>2, <3>4
    <3>6. \A e, f \in rows' : e.id = f.id => e = f
      BY <3>3
    <3> QED BY <3>4, <3>5, <3>6, Zenon DEF RowsOK
  <2>2. CASE rows' = rows
    BY <2>2 DEF RowsOK
  <2> QED BY <2>1, <2>2
<1>7. ClockOK'
  BY DEF ClockOK, TypeOK
<1>8. ASSUME NEW c \in Conn PROVE HandlerOK(c)' /\ SentOK(c)' /\ BatchOK(c)'
  <2> HIDE DEF row
  <2> QED BY <1>4 DEF HandlerOK, SentOK, BatchOK
<1>9. ASSUME NEW c \in Conn PROVE Announced(c)'
  <2>1. wpc'[w] = "notify"
    BY DEF TypeOK
  <2> QED BY <2>1 DEF Announced
<1> QED
  BY <1>5, <1>6, <1>7, <1>8, <1>9

(* A writer leaves a token in every registered channel. *)
LEMMA NotifyAllIInv == ASSUME NEW w \in Writer PROVE IInv /\ NotifyAll(w) => IInv'
<1> SUFFICES ASSUME IInv, NotifyAll(w) PROVE IInv'
  OBVIOUS
<1> USE DEF IInv, NotifyAll
<1>1. TypeOK' /\ RowsOK' /\ ClockOK'
  BY DEF TypeOK, RowsOK, ClockOK
<1>2. ASSUME NEW c \in Conn PROVE HandlerOK(c)' /\ SentOK(c)' /\ BatchOK(c)'
  BY DEF HandlerOK, SentOK, BatchOK
<1>3. ASSUME NEW c \in Conn PROVE Announced(c)'
  <2>1. pc[c] \in {"send", "wait"} => ch'[c] = 1
    BY DEF HandlerOK, TypeOK
  <2> QED BY <2>1 DEF Announced
<1> QED
  BY <1>1, <1>2, <1>3

(* A handler registers its channel. *)
LEMMA SubscribeIInv == ASSUME NEW d \in Conn PROVE IInv /\ Subscribe(d) => IInv'
<1> SUFFICES ASSUME IInv, Subscribe(d) PROVE IInv'
  OBVIOUS
<1> USE DEF IInv, Subscribe, writerVars
<1>1. TypeOK' /\ RowsOK' /\ ClockOK'
  BY DEF TypeOK, RowsOK, ClockOK
<1>2. ASSUME NEW c \in Conn, c # d
      PROVE  HandlerOK(c)' /\ SentOK(c)' /\ BatchOK(c)' /\ Announced(c)'
  BY <1>2, Frame DEF TypeOK
<1>3. HandlerOK(d)' /\ SentOK(d)' /\ BatchOK(d)' /\ Announced(d)'
  BY DEF HandlerOK, SentOK, BatchOK, Announced, TypeOK
<1> QED
  BY <1>1, <1>2, <1>3

(* A handler reads the cursor parameter. *)
LEMMA ReadCursorIInv ==
  ASSUME NEW d \in Conn, NEW q \in Int PROVE IInv /\ ReadCursor(d, q) => IInv'
<1> SUFFICES ASSUME IInv, ReadCursor(d, q) PROVE IInv'
  OBVIOUS
<1> USE DEF IInv, ReadCursor, writerVars
<1>1. TypeOK' /\ RowsOK' /\ ClockOK'
  BY DEF TypeOK, RowsOK, ClockOK, Pending
<1>2. ASSUME NEW c \in Conn, c # d
      PROVE  HandlerOK(c)' /\ SentOK(c)' /\ BatchOK(c)' /\ Announced(c)'
  BY <1>2, Frame DEF TypeOK
<1>3. HandlerOK(d)' /\ SentOK(d)' /\ BatchOK(d)' /\ Announced(d)'
  BY DEF HandlerOK, SentOK, BatchOK, Announced, TypeOK, ClockOK
<1> QED
  BY <1>1, <1>2, <1>3

(* A handler runs the query. *)
LEMMA FetchIInv == ASSUME NEW d \in Conn PROVE IInv /\ Fetch(d) => IInv'
<1> SUFFICES ASSUME IInv, Fetch(d) PROVE IInv'
  OBVIOUS
<1> USE DEF IInv, Fetch, writerVars
<1>1. PICK b \in Batches(cursor[d]) :
        /\ batch' = [batch EXCEPT ![d] = b]
        /\ capped' = [capped EXCEPT ![d] = Len(b) = BatchLimit]
  OBVIOUS
<1> DEFINE due == Pending(cursor[d])
<1>2. b \in Seq(due) /\ GetEvents(cursor[d], b)
  BY <1>1, StreamAssumption DEF Batches
<1>3. cursor[d] \in Int /\ \A e \in rows : e \in Event /\ e.created \in Nat /\ e.created > 0
  BY DEF TypeOK, RowsOK, Event
<1>4. due \subseteq rows /\ \A e \in due : e \in Event /\ e.created > cursor[d]
  BY <1>3 DEF Pending
<1>5. Len(b) \in Nat /\ DOMAIN b = 1..Len(b) /\ \A i \in 1..Len(b) : b[i] \in due
  <2> HIDE DEF due
  <2> QED BY <1>2
<1>6. TypeOK'
  <2>1. b \in Seq(Event)
    BY <1>2, <1>4, SeqMonotonic
  <2> HIDE DEF due
  <2> QED BY <1>1, <2>1, <1>5 DEF TypeOK
<1>7. RowsOK' /\ ClockOK'
  BY DEF RowsOK, ClockOK
<1>8. ASSUME NEW c \in Conn, c # d
      PROVE  HandlerOK(c)' /\ SentOK(c)' /\ BatchOK(c)' /\ Announced(c)'
  BY <1>1, <1>8, Frame DEF TypeOK
<1>9. HandlerOK(d)' /\ SentOK(d)'
  BY <1>1 DEF HandlerOK, SentOK, TypeOK
<1>10. batch'[d] = b
  BY <1>1 DEF TypeOK
<1>11. BatchOK(d)'
  <2>1. ASSUME NEW i \in 1..Len(b), NEW j \in 1..Len(sent[d]) PROVE sent[d][j] # b[i]
    <3>1. sent[d][j].created <= cursor[d] /\ sent[d][j] \in Event
      BY DEF SentOK, TypeOK
    <3>2. b[i].created > cursor[d] /\ b[i] \in Event
      BY <1>4, <1>5
    <3> QED BY <3>1, <3>2, <1>3 DEF Event
  <2>2. ASSUME NEW i \in 1..Len(b) PROVE b[i] \in rows /\ cursor[d] <= b[i].created
    <3>1. b[i] \in Event /\ b[i] \in rows /\ b[i].created > cursor[d]
      BY <1>4, <1>5
    <3> QED BY <3>1, <1>3 DEF Event
  <2>3. \A i, j \in 1..Len(b) : i < j => b[i] # b[j] /\ b[i].created <= b[j].created
    BY <1>2 DEF GetEvents
  <2> QED BY <2>1, <2>2, <2>3, <1>10 DEF BatchOK
<1>12. Announced(d)'
  <2>1. CASE Len(b) = BatchLimit
    <3>1. capped'[d]
      BY <1>1, <2>1 DEF TypeOK
    <3> QED BY <3>1 DEF Announced
  <2>2. CASE Len(b) # BatchLimit
    <3>1. due = {b[i] : i \in 1..Len(b)}
      <4>1. Len(b) < BatchLimit
        <5> DEFINE n == Len(b)
        <5>1. n \in Nat /\ n # BatchLimit
          BY <1>5, <2>2
        <5>2. n <= BatchLimit
          BY <1>2 DEF GetEvents
        <5>3. BatchLimit \in Nat
          BY StreamAssumption
        <5> HIDE DEF n, IInv, Fetch
        <5>4. n < BatchLimit
          BY <5>1, <5>2, <5>3
        <5> QED BY <5>4 DEF n
      <4>2. Range(b) = due
        BY <4>1, <1>2 DEF GetEvents
      <4> QED BY <4>2, <1>5, Zenon DEF Range
    <3>2. Pending(cursor[d])' = due
      BY DEF Pending
    <3> QED BY <3>1, <3>2, <1>10 DEF Announced
  <2> QED BY <2>1, <2>2
<1> QED
  BY <1>6, <1>7, <1>8, <1>9, <1>11, <1>12

(* A handler writes the next row of its batch. *)
LEMMA WriteMessageIInv == ASSUME NEW d \in Conn PROVE IInv /\ WriteMessage(d) => IInv'
<1> SUFFICES ASSUME IInv, WriteMessage(d) PROVE IInv'
  OBVIOUS
<1> USE DEF IInv, WriteMessage, writerVars
<1> DEFINE b == batch[d]
           s == sent[d]
           h == Head(batch[d])
<1>1. /\ b \in Seq(Event) /\ s \in Seq(Event) /\ b # << >>
      /\ Len(b) \in Nat /\ Len(b) > 0 /\ Len(s) \in Nat
  BY DEF TypeOK
<1>2. h = b[1] /\ h \in Event /\ h \in rows /\ cursor[d] <= h.created
  BY <1>1 DEF BatchOK
<1>3. /\ Tail(b) \in Seq(Event) /\ Len(Tail(b)) = Len(b) - 1
      /\ \A i \in 1..Len(Tail(b)) : Tail(b)[i] = b[i + 1]
  BY <1>1
<1>4. /\ Append(s, h) \in Seq(Event) /\ Len(Append(s, h)) = Len(s) + 1
      /\ Append(s, h)[Len(s) + 1] = h
      /\ \A i \in 1..Len(s) : Append(s, h)[i] = s[i]
  BY <1>1, <1>2
<1>5. TypeOK'
  <2>1. h.created \in Nat
    BY <1>2 DEF Event
  <2> QED BY <1>3, <1>4, <2>1 DEF TypeOK
<1>6. RowsOK' /\ ClockOK'
  BY DEF RowsOK, ClockOK
<1>7. ASSUME NEW c \in Conn, c # d
      PROVE  HandlerOK(c)' /\ SentOK(c)' /\ BatchOK(c)' /\ Announced(c)'
  BY <1>7, Frame DEF TypeOK
<1>8. /\ batch'[d] = Tail(b) /\ sent'[d] = Append(s, h) /\ cursor'[d] = h.created
      /\ h.created \in Nat /\ cursor[d] \in Int
  BY <1>2 DEF TypeOK, HandlerOK, Event
<1>9. HandlerOK(d)'
  BY <1>8, <1>2 DEF HandlerOK
<1>10. \A i \in 1..Len(s) :
         s[i] \in Event /\ s[i] \in rows /\ s[i].created <= h.created /\ s[i] # h
  <2> SUFFICES ASSUME NEW i \in 1..Len(s)
               PROVE  s[i] \in Event /\ s[i] \in rows /\ s[i].created <= h.created /\ s[i] # h
    OBVIOUS
  <2>1. s[i] \in Event /\ s[i] \in rows /\ s[i].created <= cursor[d]
    BY <1>1 DEF SentOK
  <2>2. s[i].created \in Nat
    BY <2>1 DEF Event
  <2>3. s[i] # b[1]
    BY <1>1 DEF BatchOK
  <2> QED BY <2>1, <2>2, <2>3, <1>2, <1>8
<1>11. SentOK(d)'
  <2> DEFINE t == Append(s, h)
  <2>1. ASSUME NEW i \in 1..Len(t) PROVE t[i] \in rows /\ t[i].created <= h.created
    <3>1. CASE i = Len(s) + 1
      <4>1. t[i] = h
        BY <3>1, <1>4
      <4> QED BY <4>1, <1>2, <1>8
    <3>2. CASE i # Len(s) + 1
      <4>1. i \in 1..Len(s) /\ t[i] = s[i]
        BY <3>2, <1>1, <1>4
      <4> HIDE DEF t, s, h
      <4> QED BY ONLY <4>1, <1>10
    <3> QED BY <3>1, <3>2
  <2>2. ASSUME NEW i \in 1..Len(t), NEW j \in 1..Len(t), i < j
        PROVE  t[i] # t[j] /\ t[i].created <= t[j].created
    <3>1. i \in 1..Len(s) /\ t[i] = s[i]
      BY <2>2, <1>1, <1>4
    <3>2. CASE j = Len(s) + 1
      BY <3>1, <3>2, <1>4, <1>10
    <3>3. CASE j # Len(s) + 1
      <4>1. j \in 1..Len(s) /\ t[j] = s[j]
        BY <3>3, <1>1, <1>4
      <4> QED BY <4>1, <3>1, <2>2 DEF SentOK
    <3> QED BY <3>2, <3>3
  <2> HIDE DEF t
  <2> QED BY <2>1, <2>2, <1>8 DEF SentOK, t
<1>12. \A i \in 1..Len(Tail(b)) :
         Tail(b)[i] \in rows /\ h.created <= Tail(b)[i].created /\ Tail(b)[i] # h
  BY <1>1, <1>2, <1>3 DEF BatchOK
<1>13. BatchOK(d)'
  <2> DEFINE r == Tail(b)
             t == Append(s, h)
  <2>1. ASSUME NEW i \in 1..Len(r), NEW j \in 1..Len(t) PROVE t[j] # r[i]
    <3>1. CASE j = Len(s) + 1
      BY <3>1, <1>4, <1>12
    <3>2. CASE j # Len(s) + 1
      <4>1. j \in 1..Len(s) /\ t[j] = s[j]
        BY <3>2, <1>1, <1>4
      <4>2. r[i] = b[i + 1] /\ i + 1 \in 1..Len(b)
        BY <1>1, <1>3
      <4> QED BY <4>1, <4>2 DEF BatchOK
    <3> QED BY <3>1, <3>2
  <2>2. ASSUME NEW i \in 1..Len(r), NEW j \in 1..Len(r), i < j
        PROVE  r[i] # r[j] /\ r[i].created <= r[j].created
    <3>1. r[i] = b[i + 1] /\ r[j] = b[j + 1] /\ i + 1 \in 1..Len(b) /\ j + 1 \in 1..Len(b) /\ i + 1 < j + 1
      BY <1>1, <1>3, <2>2
    <3> QED BY <3>1 DEF BatchOK
  <2>3. pc'[d] # "closed" /\ rows' = rows
    OBVIOUS
  <2>4. \A i \in 1..Len(r) : r[i] \in rows /\ h.created <= r[i].created
    BY <1>12
  <2>5. batch'[d] = r /\ sent'[d] = t /\ cursor'[d] = h.created
    BY <1>8
  <2> HIDE DEF r, t, h
  <2> QED BY <2>1, <2>2, <2>3, <2>4, <2>5 DEF BatchOK
<1>14. Announced(d)'
  <2>1. CASE capped[d] \/ ch[d] = 1 \/ \E w \in Writer : wpc[w] = "notify"
    BY <2>1 DEF Announced
  <2>2. CASE \A e \in Pending(cursor[d]) : \E i \in 1..Len(b) : b[i] = e
    <3> DEFINE r == Tail(b)
               Covered == \A e \in Pending(cursor[d])' : \E i \in 1..Len(r) : r[i] = e
    <3>9. Covered => Announced(d)'
      <4>1. batch'[d] = r
        BY <1>8
      <4> HIDE DEF r
      <4> QED BY <4>1 DEF Announced
    <3> SUFFICES ASSUME NEW e \in Pending(cursor[d])'
                 PROVE  \E i \in 1..Len(Tail(b)) : Tail(b)[i] = e
      BY <3>9
    <3>1. e \in rows /\ e \in Event /\ e.created > h.created
      BY <1>8, <1>2 DEF Pending, TypeOK, RowsOK
    <3>2. e \in Pending(cursor[d])
      BY <3>1, <1>2, <1>8 DEF Pending, Event
    <3>3. PICK i \in 1..Len(b) : b[i] = e
      BY <3>2, <2>2
    <3>4. i # 1
      BY <3>1, <3>3, <1>2, <1>8
    <3>5. i - 1 \in 1..Len(Tail(b)) /\ Tail(b)[i - 1] = e
      BY <3>3, <3>4, <1>1, <1>3
    <3> QED BY <3>5
  <2> QED BY <2>1, <2>2 DEF Announced
<1> QED
  BY <1>5, <1>6, <1>7, <1>9, <1>11, <1>13, <1>14

(* A handler has written its batch and goes to sleep. *)
LEMMA EndBatchIInv == ASSUME NEW d \in Conn PROVE IInv /\ EndBatch(d) => IInv'
<1> SUFFICES ASSUME IInv, EndBatch(d) PROVE IInv'
  OBVIOUS
<1> USE DEF IInv, EndBatch, writerVars
<1>1. TypeOK' /\ RowsOK' /\ ClockOK'
  BY DEF TypeOK, RowsOK, ClockOK
<1>2. ASSUME NEW c \in Conn, c # d
      PROVE  HandlerOK(c)' /\ SentOK(c)' /\ BatchOK(c)' /\ Announced(c)'
  BY <1>2, Frame DEF TypeOK
<1>3. HandlerOK(d)'
  BY DEF HandlerOK, TypeOK
<1>4. SentOK(d)' /\ BatchOK(d)'
  BY OrderFrame DEF TypeOK
<1>6. Announced(d)'
  BY DEF Announced, Pending, TypeOK
<1> QED
  BY <1>1, <1>2, <1>3, <1>4, <1>6

(* A handler takes the token from its channel. *)
LEMMA WakeIInv == ASSUME NEW d \in Conn PROVE IInv /\ Wake(d) => IInv'
<1> SUFFICES ASSUME IInv, Wake(d) PROVE IInv'
  OBVIOUS
<1> USE DEF IInv, Wake, writerVars
<1>1. TypeOK' /\ RowsOK' /\ ClockOK'
  BY DEF TypeOK, RowsOK, ClockOK
<1>2. ASSUME NEW c \in Conn, c # d
      PROVE  HandlerOK(c)' /\ SentOK(c)' /\ BatchOK(c)' /\ Announced(c)'
  BY <1>2, Frame DEF TypeOK
<1>3. HandlerOK(d)'
  BY DEF HandlerOK, TypeOK
<1>4. SentOK(d)' /\ BatchOK(d)'
  BY OrderFrame DEF TypeOK
<1>6. Announced(d)'
  BY DEF Announced, Pending, TypeOK
<1> QED
  BY <1>1, <1>2, <1>3, <1>4, <1>6

(* A handler returns. *)
LEMMA CloseIInv == ASSUME NEW d \in Conn PROVE IInv /\ Close(d) => IInv'
<1> SUFFICES ASSUME IInv, Close(d) PROVE IInv'
  OBVIOUS
<1> USE DEF IInv, Close, writerVars
<1>1. TypeOK' /\ RowsOK' /\ ClockOK'
  BY DEF TypeOK, RowsOK, ClockOK
<1>2. ASSUME NEW c \in Conn, c # d
      PROVE  HandlerOK(c)' /\ SentOK(c)' /\ BatchOK(c)' /\ Announced(c)'
  BY <1>2, Frame DEF TypeOK
<1>3. HandlerOK(d)'
  BY DEF HandlerOK, TypeOK
<1>4. SentOK(d)' /\ BatchOK(d)'
  BY OrderFrame DEF TypeOK
<1>6. Announced(d)'
  BY DEF Announced, Pending, TypeOK
<1> QED
  BY <1>1, <1>2, <1>3, <1>4, <1>6

(* Every step, stuttering included, preserves the invariant. *)
LEMMA NextIInv == IInv /\ [Next]_vars => IInv'
<1> SUFFICES ASSUME IInv, [Next]_vars PROVE IInv'
  OBVIOUS
<1>1. CASE Tick
  BY <1>1, TickIInv
<1>2. ASSUME NEW w \in Writer, WriterStep(w) PROVE IInv'
  BY <1>2, StampIInv, ExecIInv, NotifyAllIInv DEF WriterStep
<1>3. ASSUME NEW c \in Conn, Subscribe(c) \/ HandlerStep(c) \/ Close(c) PROVE IInv'
  BY <1>3, SubscribeIInv, FetchIInv, WriteMessageIInv, EndBatchIInv, WakeIInv, CloseIInv
     DEF HandlerStep
<1>4. ASSUME NEW c \in Conn, NEW q \in -1..MaxClock, ReadCursor(c, q) PROVE IInv'
  BY <1>4, ReadCursorIInv, StreamAssumption
<1>5. CASE UNCHANGED vars
  <2> USE <1>5 DEF vars, writerVars, connVars, IInv
  <2>1. TypeOK' /\ RowsOK' /\ ClockOK'
    BY DEF TypeOK, RowsOK, ClockOK
  <2>2. ASSUME NEW c \in Conn
        PROVE  HandlerOK(c)' /\ SentOK(c)' /\ BatchOK(c)' /\ Announced(c)'
    BY DEF HandlerOK, SentOK, BatchOK, Announced, Pending
  <2> QED BY <2>1, <2>2
<1> QED
  BY <1>1, <1>2, <1>3, <1>4, <1>5 DEF Next

(* The invariant holds in every reachable state. *)
LEMMA SpecIInv == Spec => []IInv
  BY InitIInv, NextIInv, PTL DEF Spec

----------------------------------------------------------------------------
(***************************************************************************)
(* The theorems.                                                           *)
(***************************************************************************)

(* The event log and its handlers are type correct. *)
THEOREM TypeCorrect == Spec => []TypeOK
<1>1. IInv => TypeOK
  BY DEF IInv
<1> QED
  BY <1>1, SpecIInv, PTL

(* streamOps and streamPipelines never write a row twice on a connection,  *)
(* nor a row older than one already written.                               *)
THEOREM InOrderDelivery == Spec => []SentInOrder
<1>1. IInv => SentInOrder
  BY DEF IInv, SentInOrder, SentOK, RowsOK
<1> QED
  BY <1>1, SpecIInv, PTL

(* The one-slot channels of the Notifier lose no wakeup: a handler sleeps  *)
(* on unsent rows only when a writer is about to notify it or the query's  *)
(* limit cut its last batch off.                                           *)
THEOREM WakeupsNotLost == Spec => []NoLostWakeup
<1>1. IInv => NoLostWakeup
  <2> SUFFICES ASSUME IInv, NEW c \in Conn, pc[c] = "wait", ch[c] = 0,
                      \A w \in Writer : wpc[w] # "notify", ~ capped[c]
               PROVE  Pending(cursor[c]) = {}
    BY DEF NoLostWakeup
  <2>1. batch[c] = << >>
    BY DEF IInv, HandlerOK
  <2>2. \A e \in Pending(cursor[c]) : \E i \in 1..Len(batch[c]) : batch[c][i] = e
    BY DEF IInv, Announced
  <2> QED BY <2>1, <2>2
<1> QED
  BY <1>1, SpecIInv, PTL

----------------------------------------------------------------------------
(***************************************************************************)
(* No hole.  The invariant says where every row between two sent rows, and *)
(* every row of the backfill, is: sent already, queued, or still ahead.    *)
(***************************************************************************)

Sent(c, e) == \E i \in 1..Len(sent[c]) : sent[c][i] = e

Queued(c, e) == \E i \in 1..Len(batch[c]) : batch[c][i] = e

Reading(c) == pc[c] \in {"fetch", "send", "wait"}

(* No row was skipped between two sent rows. *)
SentGapless(c) ==
  \A e \in rows, i, j \in 1..Len(sent[c]) :
    sent[c][i].created < e.created /\ e.created <= sent[c][j].created => Sent(c, e)

(* Once a row is sent the cursor stands at one. *)
CursorSent(c) ==
  Reading(c) /\ sent[c] # << >> =>
  \E i \in 1..Len(sent[c]) : cursor[c] = sent[c][i].created

(* No row was skipped between the cursor and a queued row. *)
BatchGapless(c) ==
  Reading(c) =>
  \A e \in rows, i \in 1..Len(batch[c]) :
    cursor[c] < e.created /\ e.created <= batch[c][i].created => Queued(c, e)

(* A row of the backfill is sent, or ahead of the cursor. *)
BacklogAhead(c) ==
  Reading(c) =>
  \A e \in backlog[c] : e \in rows /\ (Sent(c, e) \/ cursor[c] < e.created)

(* After an uncut query it is sent, or queued. *)
BacklogQueued(c) ==
  pc[c] \in {"send", "wait"} /\ ~ capped[c] =>
  \A e \in backlog[c] : Sent(c, e) \/ Queued(c, e)

GapOK(c) ==
  /\ SentGapless(c)
  /\ CursorSent(c)
  /\ BatchGapless(c)
  /\ BacklogAhead(c)
  /\ BacklogQueued(c)

GapInv == CommittedInOrder => \A c \in Conn : GapOK(c)

(* Rows committed in timestamp order have distinct timestamps. *)
LEMMA DistinctStamps ==
  ASSUME IInv, CommittedInOrder, NEW e \in rows, NEW f \in rows, e.created = f.created
  PROVE  e = f
<1>1. e.id \in Nat /\ f.id \in Nat /\ e.created \in Nat /\ f.created \in Nat
  BY DEF IInv, TypeOK, Event
<1>2. ~ (e.id < f.id) /\ ~ (f.id < e.id)
  BY <1>1 DEF CommittedInOrder
<1>3. e.id = f.id
  BY <1>1, <1>2
<1> QED
  BY <1>3 DEF IInv, RowsOK

(* A step that leaves alone what a handler read and wrote opens no gap. *)
LEMMA GapFrame ==
  ASSUME NEW c \in Conn, GapOK(c), rows' = rows,
         Reading(c)' => Reading(c),
         pc'[c] \in {"send", "wait"} => pc[c] \in {"send", "wait"},
         cursor'[c] = cursor[c], batch'[c] = batch[c], sent'[c] = sent[c],
         capped'[c] = capped[c], backlog'[c] = backlog[c]
  PROVE  GapOK(c)'
<1>1. SentGapless(c)'
  BY DEF GapOK, SentGapless, Sent
<1>2. CursorSent(c)'
  BY DEF GapOK, CursorSent
<1>3. BatchGapless(c)'
  BY DEF GapOK, BatchGapless, Queued
<1>4. BacklogAhead(c)'
  BY DEF GapOK, BacklogAhead, Sent
<1>5. BacklogQueued(c)'
  BY DEF GapOK, BacklogQueued, Sent, Queued
<1> QED
  BY <1>1, <1>2, <1>3, <1>4, <1>5 DEF GapOK

(* A row that commits in order is newer than every sent or queued row. *)
LEMMA ExecGap ==
  ASSUME NEW w \in Writer, NEW c \in Conn, IInv, IInv', Exec(w), CommittedInOrder', GapOK(c)
  PROVE  GapOK(c)'
<1> DEFINE row == [id |-> Cardinality(rows) + 1, created |-> wts[w]]
<1>1. /\ sent' = sent /\ batch' = batch /\ cursor' = cursor /\ capped' = capped
      /\ backlog' = backlog /\ pc' = pc
      /\ rows' = rows \/ rows' = rows \cup {row}
  BY DEF Exec, connVars
<1>2. rows \subseteq rows'
  BY <1>1
<1>3. ASSUME NEW e \in rows', e \notin rows, NEW f \in rows PROVE f.created < e.created
  <2>1. e = row
    BY <1>1, <1>3
  <2>2. Cardinality(rows) \in Nat
    BY FS_CardinalityType DEF IInv, RowsOK
  <2>3. f.id \in Nat /\ f.id <= Cardinality(rows)
    BY DEF IInv, TypeOK, RowsOK, Event
  <2>4. e.id = Cardinality(rows) + 1
    BY <2>1
  <2>5. f.id < e.id
    BY <2>2, <2>3, <2>4
  <2> HIDE DEF row
  <2> QED BY <1>2, <2>5 DEF CommittedInOrder
<1> HIDE DEF row
<1>4. ASSUME NEW e \in rows', NEW f \in rows, e.created <= f.created PROVE e \in rows
  <2>1. e.created \in Nat /\ f.created \in Nat
    BY <1>2 DEF IInv, TypeOK, Event
  <2> QED BY <1>3, <1>4, <2>1
<1>5. SentGapless(c)'
  <2>1. \A i \in 1..Len(sent[c]) : sent[c][i] \in rows
    BY DEF IInv, SentOK
  <2> QED BY <1>1, <1>4, <2>1 DEF GapOK, SentGapless, Sent
<1>6. CursorSent(c)'
  BY <1>1 DEF GapOK, CursorSent, Reading
<1>7. BatchGapless(c)'
  <2> SUFFICES ASSUME Reading(c), NEW e \in rows', NEW i \in 1..Len(batch[c]),
                      cursor[c] < e.created, e.created <= batch[c][i].created
               PROVE  Queued(c, e)
    BY <1>1 DEF BatchGapless, Reading, Queued
  <2>1. batch[c][i] \in rows
    BY DEF IInv, BatchOK, Reading
  <2>2. e \in rows
    BY <2>1, <1>4
  <2> QED BY <2>2 DEF GapOK, BatchGapless
<1>8. BacklogAhead(c)' /\ BacklogQueued(c)'
  BY <1>1, <1>2 DEF GapOK, BacklogAhead, BacklogQueued, Reading, Sent, Queued
<1> QED
  BY <1>5, <1>6, <1>7, <1>8 DEF GapOK

(* A new connection has sent nothing. *)
LEMMA SubscribeGap ==
  ASSUME NEW c \in Conn, IInv, Subscribe(c) PROVE GapOK(c)'
<1>1. sent'[c] = << >> /\ pc'[c] = "subscribed"
  BY DEF Subscribe, IInv, TypeOK
<1> QED
  BY <1>1 DEF GapOK, SentGapless, CursorSent, BatchGapless, BacklogAhead, BacklogQueued, Reading

(* All the rows due at the cursor are ahead of it. *)
LEMMA ReadCursorGap ==
  ASSUME NEW c \in Conn, NEW q \in Int, IInv, ReadCursor(c, q) PROVE GapOK(c)'
<1> DEFINE cur == IF q = 0 THEN clock ELSE q
<1>1. /\ sent'[c] = << >> /\ batch'[c] = << >> /\ pc'[c] = "fetch"
      /\ cursor'[c] = cur /\ backlog'[c] = Pending(cur) /\ rows' = rows
  BY DEF ReadCursor, IInv, TypeOK, HandlerOK, writerVars
<1>2. cur \in Int
  BY DEF IInv, TypeOK
<1>3. ASSUME NEW e \in Pending(cur) PROVE e \in rows /\ cur < e.created
  <2>1. e \in rows /\ e.created \in Nat /\ e.created > 0
    BY <1>3 DEF Pending, IInv, TypeOK, RowsOK, Event
  <2> HIDE DEF cur
  <2> QED BY <2>1, <1>2, <1>3 DEF Pending
<1> HIDE DEF cur
<1> QED
  BY <1>1, <1>3 DEF GapOK, SentGapless, CursorSent, BatchGapless, BacklogAhead, BacklogQueued, Reading

(* A query leaves out no row older than one it returns; one that is not    *)
(* cut leaves out none.                                                    *)
LEMMA FetchGap ==
  ASSUME NEW c \in Conn, IInv, IInv', CommittedInOrder, Fetch(c), GapOK(c) PROVE GapOK(c)'
<1> DEFINE due == Pending(cursor[c])
<1>1. PICK b \in Batches(cursor[c]) :
        /\ batch' = [batch EXCEPT ![c] = b]
        /\ capped' = [capped EXCEPT ![c] = Len(b) = BatchLimit]
  BY DEF Fetch
<1>2. /\ batch'[c] = b /\ capped'[c] = (Len(b) = BatchLimit) /\ rows' = rows /\ sent' = sent
      /\ cursor' = cursor /\ backlog' = backlog /\ pc[c] = "fetch" /\ pc'[c] = "send"
  BY <1>1 DEF Fetch, IInv, TypeOK, writerVars
<1>3. b \in Seq(due) /\ GetEvents(cursor[c], b)
  BY <1>1, StreamAssumption DEF Batches
<1>4. \A e \in rows : cursor[c] < e.created => e \in due
  BY DEF Pending, IInv, TypeOK, Event
<1>5. \A i \in 1..Len(b) : b[i] \in rows
  BY <1>3 DEF Pending
<1>6. \A e \in due : (\E i \in 1..Len(b) : b[i] = e) \/ e \in due \ Range(b)
  BY <1>3 DEF Range
<1>7. ASSUME NEW e \in rows, NEW i \in 1..Len(b), cursor[c] < e.created, e.created <= b[i].created
      PROVE  \E k \in 1..Len(b) : b[k] = e
  <2> SUFFICES ASSUME e \in due \ Range(b) PROVE b[i] = e
    BY <1>4, <1>6, <1>7
  <2>1. b[i].created <= e.created
    BY <1>3 DEF GetEvents
  <2>2. b[i] \in rows /\ b[i].created \in Nat /\ e.created \in Nat
    BY <1>5 DEF IInv, TypeOK, Event
  <2>3. b[i].created = e.created
    BY <1>7, <2>1, <2>2
  <2> QED BY <2>2, <2>3, DistinctStamps
<1>8. ASSUME Len(b) # BatchLimit, NEW e \in due PROVE \E k \in 1..Len(b) : b[k] = e
  <2>1. Len(b) \in Nat /\ Len(b) <= BatchLimit /\ BatchLimit \in Nat
    BY <1>3, StreamAssumption DEF GetEvents
  <2>2. Len(b) < BatchLimit
    <3> DEFINE n == Len(b)
    <3> SUFFICES n < BatchLimit
      OBVIOUS
    <3>1. n \in Nat /\ n <= BatchLimit /\ BatchLimit \in Nat /\ n # BatchLimit
      BY <2>1, <1>8
    <3> HIDE DEF n
    <3> QED BY <3>1
  <2>3. Range(b) = due
    BY <2>2, <1>3 DEF GetEvents
  <2> QED BY <1>6, <2>3
<1> HIDE DEF due
<1>9. SentGapless(c)' /\ CursorSent(c)'
  BY <1>2 DEF GapOK, SentGapless, CursorSent, Sent, Reading
<1>10. BatchGapless(c)'
  BY <1>2, <1>7 DEF BatchGapless, Queued
<1>11. BacklogAhead(c)'
  BY <1>2 DEF GapOK, BacklogAhead, Reading, Sent
<1>12. BacklogQueued(c)'
  <2> SUFFICES ASSUME Len(b) # BatchLimit, NEW e \in backlog[c], ~ Sent(c, e)
               PROVE  \E k \in 1..Len(b) : b[k] = e
    BY <1>2 DEF BacklogQueued, Sent, Queued
  <2>1. e \in rows /\ cursor[c] < e.created
    BY <1>2 DEF GapOK, BacklogAhead, Reading
  <2> QED BY <2>1, <1>4, <1>8
<1> QED
  BY <1>9, <1>10, <1>11, <1>12 DEF GapOK

(* The row that is written is the next one after the cursor. *)
LEMMA WriteMessageGap ==
  ASSUME NEW c \in Conn, IInv, IInv', CommittedInOrder, WriteMessage(c), GapOK(c)
  PROVE  GapOK(c)'
<1> DEFINE b == batch[c]
           s == sent[c]
           h == Head(batch[c])
           t == Append(sent[c], Head(batch[c]))
           r == Tail(batch[c])
<1>1. /\ b \in Seq(Event) /\ s \in Seq(Event) /\ b # << >> /\ Len(b) \in Nat /\ Len(b) > 0
      /\ pc[c] = "send" /\ Reading(c)
  BY DEF WriteMessage, IInv, TypeOK, Reading
<1>2. h = b[1] /\ h \in Event /\ h \in rows /\ h.created \in Nat /\ cursor[c] <= h.created
  <2>1. h = b[1] /\ 1 \in 1..Len(b) /\ pc[c] # "closed" /\ b[1] \in Event
    BY <1>1
  <2>2. b[1] \in rows /\ cursor[c] <= b[1].created
    BY <2>1 DEF IInv, BatchOK
  <2>3. b[1].created \in Nat
    BY <2>1 DEF Event
  <2> HIDE DEF b, h
  <2> QED BY <2>1, <2>2, <2>3
<1>3. Len(t) = Len(s) + 1 /\ t[Len(s) + 1] = h /\ \A i \in 1..Len(s) : t[i] = s[i]
  BY <1>1, <1>2
<1>4. Len(r) = Len(b) - 1 /\ \A i \in 1..Len(r) : r[i] = b[i + 1]
  BY <1>1
<1>5. /\ batch'[c] = r /\ sent'[c] = t /\ cursor'[c] = h.created /\ rows' = rows
      /\ pc' = pc /\ capped' = capped /\ backlog' = backlog
  BY DEF WriteMessage, IInv, TypeOK, writerVars
<1>6. \A e : Sent(c, e)' <=> Sent(c, e) \/ e = h
  <2>1. Len(s) \in Nat
    BY <1>1
  <2>2. 1..Len(t) = 1..Len(s) \cup {Len(s) + 1}
    BY <1>3, <2>1
  <2> HIDE DEF s, t, h
  <2> QED BY <1>3, <1>5, <2>1, <2>2 DEF Sent, s
<1>7. \A e : Queued(c, e) => e = h \/ Queued(c, e)'
  <2> SUFFICES ASSUME NEW i \in 1..Len(b), i # 1 PROVE \E k \in 1..Len(r) : r[k] = b[i]
    BY <1>2, <1>5 DEF Queued
  <2>1. i - 1 \in 1..Len(r) /\ r[i - 1] = b[i]
    BY <1>1, <1>4
  <2> QED BY <2>1
<1>8. ASSUME NEW e \in rows, cursor[c] < e.created, e.created <= h.created PROVE e = h
  <2>1. Queued(c, e)
    BY <1>1, <1>2, <1>8 DEF GapOK, BatchGapless
  <2>2. PICK k \in 1..Len(b) : b[k] = e
    BY <2>1 DEF Queued
  <2>3. k = 1 \/ b[1].created <= b[k].created
    BY <1>1 DEF IInv, BatchOK
  <2>4. e.created \in Nat
    BY DEF IInv, TypeOK, Event
  <2>5. e.created = h.created
    BY <1>2, <1>8, <2>2, <2>3, <2>4
  <2> HIDE DEF h
  <2> QED BY <1>2, <2>5, DistinctStamps
<1>9. \A e \in rows : e.created \in Nat
  BY DEF IInv, TypeOK, Event
<1>10. cursor[c] \in Int
  BY DEF IInv, TypeOK
<1>11. \A i \in 1..Len(s) : s[i] \in rows /\ s[i].created \in Nat /\ s[i].created <= cursor[c]
  BY <1>1, <1>9 DEF IInv, SentOK
<1>12. \A i \in 1..Len(t) : t[i] = h \/ \E k \in 1..Len(s) : t[i] = s[k]
  <2>1. Len(s) \in Nat
    BY <1>1
  <2> HIDE DEF s, t, h
  <2> QED BY <1>3, <2>1
<1>13. \A i \in 1..Len(r) : i + 1 \in 1..Len(b) /\ r[i] = b[i + 1]
  BY <1>1, <1>4
<1>14. Len(s) + 1 \in 1..Len(t)
  BY <1>1, <1>3
<1> HIDE DEF s, t, h, r, b
<1>15. SentGapless(c)'
  <2> SUFFICES ASSUME NEW e \in rows, NEW i \in 1..Len(t), NEW j \in 1..Len(t),
                      t[i].created < e.created, e.created <= t[j].created, e # h
               PROVE  Sent(c, e)
    BY <1>5, <1>6 DEF SentGapless
  <2>1. e.created <= h.created
    <3>1. CASE t[j] = h
      BY <3>1
    <3>2. ASSUME NEW k \in 1..Len(s), t[j] = s[k] PROVE e.created <= h.created
      <4>1. s[k].created \in Nat /\ s[k].created <= cursor[c] /\ e.created <= s[k].created
        BY <1>11, <3>2
      <4> QED BY <1>2, <1>9, <1>10, <4>1
    <3> QED BY <1>12, <3>1, <3>2
  <2>2. e.created <= cursor[c]
    BY <1>8, <1>9, <1>10, <2>1
  <2>3. t[i] # h
    BY <1>2, <1>9, <2>1
  <2>4. PICK k \in 1..Len(s) : t[i] = s[k]
    BY <1>12, <2>3
  <2>5. PICK l \in 1..Len(s) : cursor[c] = s[l].created
    BY <1>1, <2>4 DEF GapOK, CursorSent, s
  <2> QED BY <2>2, <2>4, <2>5 DEF GapOK, SentGapless, s
<1>16. CursorSent(c)'
  BY <1>3, <1>5, <1>14 DEF CursorSent
<1>17. BatchGapless(c)'
  <2> SUFFICES ASSUME NEW e \in rows, NEW i \in 1..Len(r),
                      h.created < e.created, e.created <= r[i].created
               PROVE  Queued(c, e)'
    BY <1>5 DEF BatchGapless
  <2>1. cursor[c] < e.created
    BY <1>2, <1>9, <1>10
  <2>2. Queued(c, e)
    BY <1>1, <1>13, <2>1 DEF GapOK, BatchGapless, b
  <2>3. e # h
    BY <1>2
  <2> QED BY <1>7, <2>2, <2>3
<1>18. BacklogAhead(c)'
  <2>1. \A e \in backlog[c] : e \in rows /\ (Sent(c, e) \/ cursor[c] < e.created)
    BY <1>1 DEF GapOK, BacklogAhead
  <2>2. \A e \in backlog[c] : Sent(c, e)' \/ h.created < e.created
    BY <1>2, <1>6, <1>8, <1>9, <2>1
  <2> QED BY <1>5, <2>1, <2>2 DEF BacklogAhead
<1>19. BacklogQueued(c)'
  BY <1>1, <1>5, <1>6, <1>7 DEF GapOK, BacklogQueued
<1> QED
  BY <1>15, <1>16, <1>17, <1>18, <1>19 DEF GapOK

(* Every step preserves the invariant. *)
LEMMA NextGapInv == GapInv /\ IInv /\ IInv' /\ [Next]_vars => GapInv'
<1> SUFFICES ASSUME GapInv, IInv, IInv', [Next]_vars, CommittedInOrder', NEW c \in Conn
             PROVE  GapOK(c)'
  BY DEF GapInv
<1>1. rows \subseteq rows'
  BY DEF Next, vars, writerVars, connVars, WriterStep, HandlerStep, Tick, Stamp, Exec,
         NotifyAll, Subscribe, ReadCursor, Fetch, WriteMessage, EndBatch, Wake, Close
<1>2. CommittedInOrder
  BY <1>1 DEF CommittedInOrder
<1>3. GapOK(c)
  BY <1>2 DEF GapInv
<1>4. CASE Tick \/ UNCHANGED vars
  BY <1>3, <1>4, GapFrame DEF Tick, vars, connVars, writerVars, Reading
<1>5. ASSUME NEW w \in Writer, WriterStep(w) PROVE GapOK(c)'
  <2>1. CASE Stamp(w) \/ NotifyAll(w)
    BY <1>3, <2>1, GapFrame DEF Stamp, NotifyAll, connVars, Reading
  <2>2. CASE Exec(w)
    BY <1>3, <2>2, ExecGap
  <2> QED BY <1>5, <2>1, <2>2 DEF WriterStep
<1>6. ASSUME NEW d \in Conn, d # c,
             \/ Subscribe(d) \/ HandlerStep(d) \/ Close(d)
             \/ \E q \in -1..MaxClock : ReadCursor(d, q)
      PROVE  GapOK(c)'
  <2>1. /\ rows' = rows /\ pc'[c] = pc[c] /\ cursor'[c] = cursor[c] /\ batch'[c] = batch[c]
        /\ sent'[c] = sent[c] /\ capped'[c] = capped[c] /\ backlog'[c] = backlog[c]
    <3>1. CASE Subscribe(d)
      BY <1>6, <3>1 DEF Subscribe, writerVars, IInv, TypeOK
    <3>2. CASE Fetch(d)
      BY <1>6, <3>2 DEF Fetch, writerVars, IInv, TypeOK
    <3>3. CASE WriteMessage(d)
      BY <1>6, <3>3 DEF WriteMessage, writerVars, IInv, TypeOK
    <3>4. CASE EndBatch(d) \/ Wake(d) \/ Close(d)
      BY <1>6, <3>4 DEF EndBatch, Wake, Close, writerVars, IInv, TypeOK
    <3>5. ASSUME NEW q \in -1..MaxClock, ReadCursor(d, q)
          PROVE  /\ rows' = rows /\ pc'[c] = pc[c] /\ cursor'[c] = cursor[c] /\ batch'[c] = batch[c]
                 /\ sent'[c] = sent[c] /\ capped'[c] = capped[c] /\ backlog'[c] = backlog[c]
      BY <1>6, <3>5 DEF ReadCursor, writerVars, IInv, TypeOK
    <3> QED BY <1>6, <3>1, <3>2, <3>3, <3>4, <3>5 DEF HandlerStep
  <2> QED BY <1>3, <2>1, GapFrame DEF Reading
<1>7. CASE Subscribe(c)
  BY <1>7, SubscribeGap
<1>8. ASSUME NEW q \in -1..MaxClock, ReadCursor(c, q) PROVE GapOK(c)'
  BY <1>8, ReadCursorGap, StreamAssumption
<1>9. CASE Fetch(c)
  BY <1>2, <1>3, <1>9, FetchGap
<1>10. CASE WriteMessage(c)
  BY <1>2, <1>3, <1>10, WriteMessageGap
<1>11. CASE EndBatch(c) \/ Wake(c) \/ Close(c)
  <2>1. /\ rows' = rows /\ cursor' = cursor /\ batch' = batch /\ sent' = sent
        /\ capped' = capped /\ backlog' = backlog
    BY <1>11 DEF EndBatch, Wake, Close, writerVars
  <2>2. Reading(c)
    BY <1>11 DEF EndBatch, Wake, Close, Reading
  <2>3. pc'[c] \in {"send", "wait"} => pc[c] \in {"send", "wait"}
    BY <1>11 DEF EndBatch, Wake, Close, IInv, TypeOK
  <2> QED BY <1>3, <2>1, <2>2, <2>3, GapFrame
<1> QED
  BY <1>4, <1>5, <1>6, <1>7, <1>8, <1>9, <1>10, <1>11 DEF Next, HandlerStep

(* While rows commit in timestamp order no connection skips a row, however *)
(* the limit of GetEvents cuts the batches, and the backfill is complete   *)
(* when streamOps and streamPipelines go to the live loop.                 *)
THEOREM NothingSkipped == Spec => []NoHole
<1>1. Init => GapInv
  BY DEF Init, GapInv, GapOK, SentGapless, CursorSent, BatchGapless, BacklogAhead,
         BacklogQueued, Reading
<1>2. IInv /\ GapInv => NoHole
  <2> SUFFICES ASSUME IInv, CommittedInOrder, NEW c \in Conn, GapOK(c)
               PROVE  /\ pc[c] = "wait" => capped[c] \/ backlog[c] \subseteq Range(sent[c])
                      /\ \A e \in rows :
                           ( /\ sent[c] # << >>
                             /\ sent[c][1].created < e.created
                             /\ e.created < sent[c][Len(sent[c])].created )
                           => e \in Range(sent[c])
    BY DEF NoHole, GapInv
  <2>1. sent[c] \in Seq(Event) /\ batch[c] \in Seq(Event)
    BY DEF IInv, TypeOK
  <2>2. \A e : Sent(c, e) => e \in Range(sent[c])
    BY <2>1 DEF Sent, Range
  <2>3. ASSUME pc[c] = "wait", ~ capped[c] PROVE backlog[c] \subseteq Range(sent[c])
    <3>1. batch[c] = << >>
      BY <2>3 DEF IInv, HandlerOK
    <3> QED BY <2>2, <2>3, <3>1 DEF GapOK, BacklogQueued, Queued
  <2>4. ASSUME NEW e \in rows, sent[c] # << >>, sent[c][1].created < e.created,
               e.created < sent[c][Len(sent[c])].created
        PROVE  e \in Range(sent[c])
    <3>1. Len(sent[c]) \in 1..Len(sent[c]) /\ 1 \in 1..Len(sent[c])
      BY <2>1, <2>4
    <3> DEFINE last == sent[c][Len(sent[c])]
    <3>2. e.created \in Nat /\ last.created \in Nat /\ e.created <= last.created
      <4>1. e \in Event /\ last \in Event
        BY <2>1, <3>1 DEF IInv, TypeOK
      <4>2. e.created \in Nat /\ last.created \in Nat
        BY <4>1 DEF Event
      <4> HIDE DEF last
      <4> QED BY <2>4, <4>2 DEF last
    <3>3. Sent(c, e)
      BY <2>4, <3>1, <3>2 DEF GapOK, SentGapless
    <3> QED BY <2>2, <3>3
  <2> QED BY <2>3, <2>4
<1> QED
  BY <1>1, <1>2, InitIInv, NextIInv, NextGapInv, PTL DEF Spec

----------------------------------------------------------------------------
(***************************************************************************)
(* The refinement.                                                         *)
(***************************************************************************)

(* Exec publishes: the new row has a number no row had. *)
LEMMA ExecRefines ==
  ASSUME NEW w \in Writer, IInv, Exec(w), rows' # rows PROVE Feed!Publish
<1> USE DEF IInv, Exec, connVars
<1> DEFINE row == [id |-> Cardinality(rows) + 1, created |-> wts[w]]
<1>1. rows' = rows \cup {row} /\ sent' = sent
  OBVIOUS
<1>2. Cardinality(rows) \in Nat
  BY FS_CardinalityType DEF RowsOK
<1>3. ASSUME NEW f \in rows PROVE f.id # row.id
  <2>1. f.id \in Nat /\ f.id <= Cardinality(rows)
    BY DEF TypeOK, RowsOK, Event
  <2> QED BY <2>1, <1>2
<1>4. row \in rows'
  BY <1>1
<1> HIDE DEF row
<1> QED
  BY <1>1, <1>3, <1>4 DEF Feed!Publish

(* WriteMessage delivers: the head of the batch is a row of the table that *)
(* was not sent and is not older than any that was.                        *)
LEMMA WriteMessageRefines ==
  ASSUME NEW d \in Conn, IInv, WriteMessage(d) PROVE Feed!Deliver(d)
<1> USE DEF IInv, WriteMessage, writerVars
<1> DEFINE h == Head(batch[d])
<1>1. batch[d] \in Seq(Event) /\ batch[d] # << >> /\ Len(batch[d]) > 0
  BY DEF TypeOK
<1>2. h = batch[d][1] /\ h \in Event /\ h \in rows /\ cursor[d] <= h.created
  BY <1>1 DEF BatchOK
<1>3. ASSUME NEW i \in 1..Len(sent[d])
      PROVE  sent[d][i] # h /\ sent[d][i].created <= h.created
  <2>1. sent[d] \in Seq(Event) /\ sent[d][i] \in Event /\ sent[d][i].created <= cursor[d]
    BY DEF TypeOK, SentOK
  <2>2. sent[d][i].created \in Nat /\ h.created \in Nat /\ cursor[d] \in Int
    BY <2>1, <1>2 DEF Event, TypeOK
  <2>3. sent[d][i] # batch[d][1]
    BY <1>1 DEF BatchOK
  <2> QED BY <2>1, <2>2, <2>3, <1>2
<1>4. sent' = [sent EXCEPT ![d] = Append(@, h)] /\ rows' = rows
  OBVIOUS
<1> HIDE DEF h
<1> QED
  BY <1>2, <1>3, <1>4 DEF Feed!Deliver

(* The event stream implements the feed: a commit is a publication, a      *)
(* connection a new feed, a message written a delivery, and every other    *)
(* step of InsertEvent, the Notifier and the handlers is invisible.        *)
THEOREM FeedImplemented == Spec => FeedSpec
<1>1. Init => Feed!Init
  BY DEF Init, Feed!Init
<1>2. IInv /\ [Next]_vars => [Feed!Next]_<<rows, sent>>
  <2> SUFFICES ASSUME IInv, [Next]_vars
               PROVE  Feed!Next \/ (rows' = rows /\ sent' = sent)
    OBVIOUS
  <2>1. CASE Tick
    BY <2>1 DEF Tick, connVars
  <2>2. ASSUME NEW w \in Writer, WriterStep(w)
        PROVE  Feed!Next \/ (rows' = rows /\ sent' = sent)
    <3>1. CASE Exec(w) /\ rows' # rows
      BY <3>1, ExecRefines DEF Feed!Next
    <3>2. CASE Stamp(w) \/ NotifyAll(w) \/ (Exec(w) /\ rows' = rows)
      BY <3>2 DEF Stamp, NotifyAll, Exec, connVars
    <3> QED BY <2>2, <3>1, <3>2 DEF WriterStep
  <2>3. ASSUME NEW c \in Conn, Subscribe(c) PROVE Feed!Next
    <3>1. Feed!Connect(c)
      BY <2>3 DEF Subscribe, Feed!Connect, writerVars
    <3> QED BY <3>1 DEF Feed!Next
  <2>4. ASSUME NEW c \in Conn, WriteMessage(c) PROVE Feed!Next
    BY <2>4, WriteMessageRefines DEF Feed!Next
  <2>5. ASSUME NEW c \in Conn, Fetch(c) \/ EndBatch(c) \/ Wake(c) \/ Close(c)
        PROVE  rows' = rows /\ sent' = sent
    BY <2>5 DEF Fetch, EndBatch, Wake, Close, writerVars
  <2>6. ASSUME NEW c \in Conn, NEW q \in -1..MaxClock, ReadCursor(c, q)
        PROVE  rows' = rows /\ sent' = sent
    BY <2>6 DEF ReadCursor, writerVars
  <2>7. CASE UNCHANGED vars
    BY <2>7 DEF vars, writerVars, connVars
  <2> QED
    BY <2>1, <2>2, <2>3, <2>4, <2>5, <2>6, <2>7 DEF Next, HandlerStep
<1> QED
  BY <1>1, <1>2, SpecIInv, PTL DEF Spec, FeedSpec, Feed!Spec

----------------------------------------------------------------------------
(***************************************************************************)
(* The client: EventConsumer.                                              *)
(***************************************************************************)

(***************************************************************************)
(* The inductive invariant.                                                *)
(***************************************************************************)
Active(w) == workerPc[w] \in {"taken", "stamped", "process"}

(* A loop holds a message exactly while it waits for the queue. *)
HeldOK == \A l \in Loop : held[l] # None <=> lpc[l] = "push"

(* Messages on their way are events that were created. *)
Logged ==
  /\ \A l \in Loop : held[l] # None => held[l] \in log
  /\ \A k \in 1..Len(queue) : queue[k] \in log
  /\ \A w \in Worker : Active(w) => job[w] \in log

(* ReadAccounted, with the places a message can be in spelled out. *)
Accounted ==
  \A e \in read :
    \/ e \in handled \/ e \in bad \/ e \in discarded
    \/ \E l \in Loop : held[l] = e
    \/ \E k \in 1..Len(queue) : queue[k] = e
    \/ \E w \in Worker : Active(w) /\ job[w] = e

ConsumerIInv == ConsumerTypeOK /\ HeldOK /\ Logged /\ Accounted

(* The spelled-out form implies the property of the runs. *)
LEMMA AccountedIsReadAccounted == Accounted => ReadAccounted
BY DEF Accounted, ReadAccounted, InFlight, Elems, Active

(* Neither None nor a clock reading outside the bound is an event. *)
LEMMA NoneIsNoEvent == None \notin SourceEvent
<1>1. SourceEvent \subseteq Source \X (0..MaxCreated)
  BY ConsumerAssumption DEF SourceEvent
<1> QED
  BY <1>1, ConsumerAssumption

----------------------------------------------------------------------------
(* Every initial state satisfies the invariant. *)
LEMMA InitConsumerIInv == ConsumerInit => ConsumerIInv
<1> SUFFICES ASSUME ConsumerInit PROVE ConsumerIInv
  OBVIOUS
<1> USE ConsumerAssumption DEF ConsumerInit
<1>1. ConsumerTypeOK
  BY DEF ConsumerTypeOK, Time, LoopState
<1>2. HeldOK
  BY DEF HeldOK
<1>3. Logged
  BY DEF Logged, Active
<1>4. Accounted
  BY DEF Accounted
<1> QED
  BY <1>1, <1>2, <1>3, <1>4 DEF ConsumerIInv

(***************************************************************************)
(* One lemma per action.                                                   *)
(***************************************************************************)

(* A new event leaves every message where it is. *)
LEMMA CreateEventIInv ==
  ASSUME ConsumerIInv, NEW s \in Source, CreateEvent(s) PROVE ConsumerIInv'
<1> USE ConsumerAssumption DEF ConsumerIInv, CreateEvent, loopVars, workerVars, history
<1>1. <<s, now + 1>> \in SourceEvent /\ now + 1 \in Time
  BY DEF ConsumerTypeOK, Time, SourceEvent
<1>2. ConsumerTypeOK'
  BY <1>1 DEF ConsumerTypeOK
<1>3. HeldOK' /\ Logged' /\ Accounted'
  BY DEF HeldOK, Logged, Accounted, Active
<1> QED
  BY <1>2, <1>3

(* Steps of a loop that move no message. *)
QuietStep(l) ==
  \/ LookUpSource(l) \/ AddSource(l) \/ CancelContext(l) \/ RunConnection(l)
  \/ Connect(l) \/ GiveUpDial(l) \/ Drop(l) \/ Redial(l) \/ EndLoop(l)

(* What all quiet steps have in common. *)
QuietEffect ==
  /\ UNCHANGED <<now, log, bad, held, queue, workerPc, job, stamp, cursors, handled,
                 read, kept, discarded>>
  /\ lpc' \in [Loop -> LoopState]
  /\ \A m \in Loop : lpc'[m] = "push" <=> lpc[m] = "push"
  /\ sources' \in SUBSET Source
  /\ cancelled' \in SUBSET RequestCtx
  /\ url' \in [Loop -> Time] /\ pos' \in [Loop -> Time]
  /\ before' \in [Loop -> SUBSET log]
  /\ drops' \in 0..MaxDrops

(* A quiet step moves no message and leaves or enters no waiting send. *)
LEMMA QuietFrame ==
  ASSUME ConsumerTypeOK, NEW l \in Loop, QuietStep(l) PROVE QuietEffect
<1> USE ConsumerAssumption DEF ConsumerTypeOK, serverVars, workerVars, history, Goto,
        LoopState, QuietEffect
<1>1. CASE LookUpSource(l)
  BY <1>1 DEF LookUpSource
<1>2. CASE AddSource(l)
  BY <1>2 DEF AddSource
<1>3. CASE CancelContext(l)
  BY <1>3 DEF CancelContext
<1>4. CASE RunConnection(l)
  <2>1. PICK c \in Get(SourceOf[l]) : url' = [url EXCEPT ![l] = c]
    BY <1>4 DEF RunConnection
  <2>2. c \in Time
    BY <2>1 DEF Get, Time
  <2> QED
    BY <1>4, <2>1, <2>2 DEF RunConnection
<1>5. CASE Connect(l)
  BY <1>5 DEF Connect
<1>6. CASE GiveUpDial(l)
  BY <1>6 DEF GiveUpDial
<1>7. CASE Drop(l)
  BY <1>7 DEF Drop
<1>8. CASE Redial(l)
  BY <1>8 DEF Redial
<1>9. CASE EndLoop(l)
  BY <1>9 DEF EndLoop
<1> QED
  BY <1>1, <1>2, <1>3, <1>4, <1>5, <1>6, <1>7, <1>8, <1>9 DEF QuietStep

(* Quiet steps preserve the invariant. *)
LEMMA QuietIInv ==
  ASSUME ConsumerIInv, NEW l \in Loop, QuietStep(l) PROVE ConsumerIInv'
<1>1. QuietEffect
  BY QuietFrame DEF ConsumerIInv
<1>2. ConsumerTypeOK'
  BY <1>1 DEF ConsumerIInv, ConsumerTypeOK, QuietEffect
<1>3. HeldOK'
  BY <1>1 DEF ConsumerIInv, HeldOK, QuietEffect
<1>4. Logged' /\ Accounted'
  BY <1>1 DEF ConsumerIInv, Logged, Accounted, Active, QuietEffect
<1> QED
  BY <1>2, <1>3, <1>4 DEF ConsumerIInv

----------------------------------------------------------------------------
(* The message just read is held; the loop held none before. *)
LEMMA ReadMessageIInv ==
  ASSUME ConsumerIInv, NEW l \in Loop, ReadMessage(l) PROVE ConsumerIInv'
<1> USE ConsumerAssumption DEF ConsumerIInv
<1>1. PICK t \in Ahead(l) :
        /\ pos' = [pos EXCEPT ![l] = t]
        /\ held' = [held EXCEPT ![l] = <<SourceOf[l], t>>]
        /\ read' = read \cup {<<SourceOf[l], t>>}
  BY DEF ReadMessage
<1> DEFINE e == <<SourceOf[l], t>>
<1>2. e \in log /\ e \in SourceEvent /\ t \in Time /\ e # None
  BY NoneIsNoEvent DEF Ahead, SourceEvent, Time
<1>3. lpc[l] = "read" /\ held[l] = None
  BY DEF ReadMessage, HeldOK
<1>4. /\ lpc' = [lpc EXCEPT ![l] = "push"]
      /\ UNCHANGED <<now, log, bad, sources, cancelled, url, queue, workerPc, job,
                     stamp, cursors, handled, kept, before, discarded, drops>>
  BY DEF ReadMessage, Goto, serverVars, workerVars
<1>5. ConsumerTypeOK'
  BY <1>1, <1>2, <1>4 DEF ConsumerTypeOK, LoopState
<1>6. \A m \in Loop : held'[m] = (IF m = l THEN e ELSE held[m])
  BY <1>1 DEF ConsumerTypeOK
<1>7. HeldOK'
  BY <1>2, <1>4, <1>6 DEF HeldOK, ConsumerTypeOK
<1>8. Logged'
  BY <1>2, <1>4, <1>6 DEF Logged, Active
<1>9. Accounted'
  <2> SUFFICES ASSUME NEW f \in read'
               PROVE  \/ f \in handled \/ f \in bad \/ f \in discarded
                      \/ \E m \in Loop : held'[m] = f
                      \/ \E k \in 1..Len(queue) : queue[k] = f
                      \/ \E w \in Worker : Active(w) /\ job[w] = f
    BY <1>4 DEF Accounted, Active
  <2>1. CASE f = e
    BY <2>1, <1>6
  <2>2. CASE f # e
    <3>1. f \in read /\ f # None
      BY <2>2, <1>1, NoneIsNoEvent DEF ConsumerTypeOK
    <3> QED
      BY <3>1, <1>3, <1>6 DEF Accounted
  <2> QED
    BY <2>1, <2>2
<1> QED
  BY <1>5, <1>7, <1>8, <1>9

(* The held message is the last of the queue. *)
LEMMA EnqueueIInv ==
  ASSUME ConsumerIInv, NEW l \in Loop, Enqueue(l) PROVE ConsumerIInv'
<1> USE ConsumerAssumption DEF ConsumerIInv
<1>1. /\ lpc[l] = "push"
      /\ Len(queue) < QueueSize
      /\ queue' = Append(queue, held[l])
      /\ held' = [held EXCEPT ![l] = None]
      /\ lpc' = [lpc EXCEPT ![l] = IF l \in cancelled THEN "sleep" ELSE "read"]
      /\ UNCHANGED <<now, log, bad, sources, cancelled, url, pos, workerPc, job,
                     stamp, cursors, handled, read, kept, before, discarded, drops>>
  BY DEF Enqueue, Continue, Goto, serverVars, workerVars, history
<1>2. held[l] \in SourceEvent /\ held[l] \in log
  BY <1>1 DEF HeldOK, Logged, ConsumerTypeOK
<1>3. /\ queue' \in Seq(SourceEvent)
      /\ Len(queue') = Len(queue) + 1
      /\ queue'[Len(queue) + 1] = held[l]
      /\ \A k \in 1..Len(queue) : queue'[k] = queue[k]
      /\ Len(queue) \in Nat
  BY <1>1, <1>2 DEF ConsumerTypeOK
<1>4. ConsumerTypeOK'
  BY <1>1, <1>3 DEF ConsumerTypeOK, LoopState
<1>5. \A m \in Loop : held'[m] = (IF m = l THEN None ELSE held[m])
  BY <1>1 DEF ConsumerTypeOK
<1>6. HeldOK'
  BY <1>1, <1>5 DEF HeldOK, ConsumerTypeOK
<1>7. Logged'
  <2>1. \A k \in 1..Len(queue') : queue'[k] \in log
    BY <1>2, <1>3 DEF Logged
  <2> QED
    BY <2>1, <1>1, <1>5 DEF Logged, Active
<1>8. Accounted'
  <2> SUFFICES ASSUME NEW e \in read
               PROVE  \/ e \in handled \/ e \in bad \/ e \in discarded
                      \/ \E m \in Loop : held'[m] = e
                      \/ \E k \in 1..Len(queue') : queue'[k] = e
                      \/ \E w \in Worker : Active(w) /\ job[w] = e
    BY <1>1 DEF Accounted, Active
  <2>1. CASE \E m \in Loop : held[m] = e
    BY <2>1, <1>3, <1>5
  <2>2. CASE \E k \in 1..Len(queue) : queue[k] = e
    BY <2>2, <1>3
  <2> QED
    BY <2>1, <2>2 DEF Accounted
<1> QED
  BY <1>4, <1>6, <1>7, <1>8

(* The held message is given up, and recorded. *)
LEMMA DiscardIInv ==
  ASSUME ConsumerIInv, NEW l \in Loop, Discard(l) PROVE ConsumerIInv'
<1> USE ConsumerAssumption DEF ConsumerIInv
<1>1. /\ lpc[l] = "push"
      /\ held' = [held EXCEPT ![l] = None]
      /\ discarded' = discarded \cup {held[l]}
      /\ lpc' = [lpc EXCEPT ![l] = "sleep"]
      /\ UNCHANGED <<now, log, bad, sources, cancelled, url, pos, queue, workerPc,
                     job, stamp, cursors, handled, read, kept, before, drops>>
  BY DEF Discard, Goto, serverVars, workerVars
<1>2. held[l] \in log
  BY <1>1 DEF HeldOK, Logged
<1>3. ConsumerTypeOK'
  BY <1>1, <1>2 DEF ConsumerTypeOK, LoopState
<1>4. \A m \in Loop : held'[m] = (IF m = l THEN None ELSE held[m])
  BY <1>1 DEF ConsumerTypeOK
<1>5. HeldOK'
  BY <1>1, <1>4 DEF HeldOK, ConsumerTypeOK
<1>6. Logged'
  BY <1>1, <1>4 DEF Logged, Active
<1>7. Accounted'
  BY <1>1, <1>4 DEF Accounted, Active
<1> QED
  BY <1>3, <1>5, <1>6, <1>7

----------------------------------------------------------------------------
(* The first of the queue becomes the worker's job, or is undecodable. *)
LEMMA TakeJobIInv ==
  ASSUME ConsumerIInv, NEW w \in Worker, TakeJob(w) PROVE ConsumerIInv'
<1> USE ConsumerAssumption DEF ConsumerIInv
<1> DEFINE n == Len(queue)
<1>1. /\ workerPc[w] = "idle"
      /\ queue # << >>
      /\ queue' = Tail(queue)
      /\ job' = [job EXCEPT ![w] = Head(queue)]
      /\ workerPc' = [workerPc EXCEPT ![w] =
                   IF Head(queue) \in bad THEN "dead" ELSE "taken"]
      /\ UNCHANGED <<now, log, bad, sources, lpc, cancelled, url, pos, held,
                     stamp, cursors, handled, read, kept, before, discarded, drops>>
  BY DEF TakeJob, serverVars, loopVars, history
<1>2. /\ n \in Nat /\ n > 0
      /\ Head(queue) = queue[1]
      /\ queue' \in Seq(SourceEvent)
      /\ Len(queue') = n - 1
      /\ \A k \in 1..(n - 1) : queue'[k] = queue[k + 1]
      /\ queue[1] \in SourceEvent
  BY <1>1 DEF ConsumerTypeOK
<1>3. ConsumerTypeOK'
  BY <1>1, <1>2 DEF ConsumerTypeOK
<1>4. HeldOK'
  BY <1>1 DEF HeldOK
<1>5. \A v \in Worker : /\ v # w => workerPc'[v] = workerPc[v] /\ job'[v] = job[v]
                        /\ job'[w] = queue[1]
                        /\ queue[1] \notin bad => workerPc'[w] = "taken"
  BY <1>1, <1>2 DEF ConsumerTypeOK
<1>6. Logged'
  <2>1. \A k \in 1..(n - 1) : k + 1 \in 1..n
    BY <1>2
  <2>2. \A k \in 1..Len(queue') : queue'[k] \in log
    BY <2>1, <1>2 DEF Logged
  <2>3. queue[1] \in log
    BY <1>2 DEF Logged
  <2>4. \A v \in Worker : Active(v)' => job'[v] \in log
    BY <2>3, <1>5 DEF Logged, Active
  <2> QED
    BY <2>2, <2>4, <1>1 DEF Logged
<1>7. Accounted'
  <2> SUFFICES ASSUME NEW e \in read
               PROVE  \/ e \in handled \/ e \in bad \/ e \in discarded
                      \/ \E l \in Loop : held[l] = e
                      \/ \E k \in 1..Len(queue') : queue'[k] = e
                      \/ \E v \in Worker : Active(v)' /\ job'[v] = e
    BY <1>1 DEF Accounted
  <2>1. CASE \E k \in 1..n : queue[k] = e
    <3>1. PICK k \in 1..n : queue[k] = e
      BY <2>1
    <3>2. CASE k = 1
      BY <3>1, <3>2, <1>5 DEF Active
    <3>3. CASE k # 1
      <4>1. k - 1 \in 1..(n - 1) /\ queue'[k - 1] = queue[k]
        BY <3>3, <1>2
      <4> QED
        BY <4>1, <3>1, <1>2
    <3> QED
      BY <3>2, <3>3
  <2>2. CASE \E v \in Worker : Active(v) /\ job[v] = e
    <3>1. PICK v \in Worker : Active(v) /\ job[v] = e
      BY <2>2
    <3>2. v # w
      BY <3>1, <1>1 DEF Active
    <3> QED
      BY <3>1, <3>2, <1>5 DEF Active
  <2> QED
    BY <2>1, <2>2 DEF Accounted
<1> QED
  BY <1>3, <1>4, <1>6, <1>7

(* The worker keeps its job while it moves the cursor. *)
LEMMA CursorIInv ==
  ASSUME ConsumerIInv, NEW w \in Worker, StampJob(w) \/ SetCursor(w) PROVE ConsumerIInv'
<1> USE ConsumerAssumption DEF ConsumerIInv
<1>1. /\ Active(w)
      /\ workerPc' \in [Worker -> {"idle", "taken", "stamped", "process", "dead"}]
      /\ \A v \in Worker : Active(v)' <=> Active(v)
      /\ UNCHANGED <<now, log, bad, sources, lpc, cancelled, url, pos, held,
                     queue, job, handled, read, before, discarded, drops>>
  BY DEF StampJob, SetCursor, serverVars, loopVars, history, Active, ConsumerTypeOK
<1>2. stamp' \in [Worker -> Time] /\ cursors' \in [Source -> Time]
  BY DEF StampJob, SetCursor, serverVars, ConsumerTypeOK
<1>5. kept' \in SUBSET log
  <2>1. job[w] \in log
    BY <1>1 DEF Logged
  <2>2. kept' \subseteq kept \cup {job[w]}
    BY DEF StampJob, SetCursor, history
  <2> QED
    BY <2>1, <2>2 DEF ConsumerTypeOK
<1>3. ConsumerTypeOK'
  BY <1>1, <1>2, <1>5 DEF ConsumerTypeOK
<1>4. HeldOK' /\ Logged' /\ Accounted'
  BY <1>1 DEF HeldOK, Logged, Accounted
<1> QED
  BY <1>3, <1>4

(* The job is handled. *)
LEMMA ProcessIInv ==
  ASSUME ConsumerIInv, NEW w \in Worker, Process(w) PROVE ConsumerIInv'
<1> USE ConsumerAssumption DEF ConsumerIInv
<1>1. /\ Active(w)
      /\ handled' = handled \cup {job[w]}
      /\ workerPc' = [workerPc EXCEPT ![w] = "idle"]
      /\ UNCHANGED <<now, log, bad, sources, lpc, cancelled, url, pos, held,
                     queue, job, stamp, cursors, read, kept, before, discarded, drops>>
  BY DEF Process, serverVars, loopVars, history, Active
<1>2. job[w] \in log
  BY <1>1 DEF Logged
<1>3. ConsumerTypeOK'
  BY <1>1, <1>2 DEF ConsumerTypeOK
<1>4. \A v \in Worker : /\ v # w => (Active(v)' <=> Active(v))
                        /\ Active(v)' => Active(v)
  BY <1>1 DEF Active, ConsumerTypeOK
<1>5. HeldOK' /\ Logged'
  BY <1>1, <1>4 DEF HeldOK, Logged
<1>6. Accounted'
  BY <1>1, <1>4 DEF Accounted
<1> QED
  BY <1>3, <1>5, <1>6

----------------------------------------------------------------------------
(* Every step preserves the invariant. *)
LEMMA NextConsumerIInv == ConsumerIInv /\ [ConsumerNext]_consumerVars => ConsumerIInv'
<1> SUFFICES ASSUME ConsumerIInv, [ConsumerNext]_consumerVars PROVE ConsumerIInv'
  OBVIOUS
<1>1. CASE \E s \in Source : CreateEvent(s)
  BY <1>1, CreateEventIInv
<1>2. CASE \E l \in Loop : LookUpSource(l) \/ CancelContext(l) \/ LoopStep(l) \/ Drop(l)
  <2>1. PICK l \in Loop : LookUpSource(l) \/ CancelContext(l) \/ LoopStep(l) \/ Drop(l)
    BY <1>2
  <2>2. CASE QuietStep(l)
    BY <2>2, QuietIInv
  <2>3. CASE ReadMessage(l)
    BY <2>3, ReadMessageIInv
  <2>4. CASE Enqueue(l)
    BY <2>4, EnqueueIInv
  <2>5. CASE Discard(l)
    BY <2>5, DiscardIInv
  <2> QED
    BY <2>1, <2>2, <2>3, <2>4, <2>5 DEF LoopStep, QuietStep
<1>3. CASE \E w \in Worker : WorkerStep(w)
  BY <1>3, TakeJobIInv, CursorIInv, ProcessIInv DEF WorkerStep
<1>4. CASE UNCHANGED consumerVars
  BY <1>4 DEF ConsumerIInv, ConsumerTypeOK, HeldOK, Logged, Accounted, Active, consumerVars,
     serverVars, loopVars, workerVars, history
<1> QED
  BY <1>1, <1>2, <1>3, <1>4 DEF ConsumerNext

(* The invariant holds throughout. *)
LEMMA InvariantHolds == ConsumerSpec => []ConsumerIInv
BY InitConsumerIInv, NextConsumerIInv, PTL DEF ConsumerSpec

(* Every variable of the consumer keeps its type: the queue never exceeds  *)
(* QueueSize, whatever the number of loops and workers.                    *)
THEOREM ConsumerTypeCorrect == ConsumerSpec => []ConsumerTypeOK
<1>1. ConsumerIInv => ConsumerTypeOK
  BY DEF ConsumerIInv
<1> QED
  BY <1>1, InvariantHolds, PTL

(* No message that a connection loop has read is lost between the          *)
(* connection and ProcessFunc, for any number of loops, workers, drops,    *)
(* cancellations and store faults.                                         *)
THEOREM NothingReadIsLost == ConsumerSpec => []ReadAccounted
<1>1. ConsumerIInv => ReadAccounted
  BY AccountedIsReadAccounted DEF ConsumerIInv
<1> QED
  BY <1>1, InvariantHolds, PTL

----------------------------------------------------------------------------
(***************************************************************************)
(* Sources are listened to.                                                *)
(***************************************************************************)

(* The loop of a registered source may end only with its context.         *)
LEMMA ListenedStep == ConsumerTypeOK /\ SourceIsListened /\ [ConsumerNext]_consumerVars => SourceIsListened'
<1> SUFFICES ASSUME ConsumerTypeOK, SourceIsListened, [ConsumerNext]_consumerVars PROVE SourceIsListened'
  OBVIOUS
<1> DEFINE Heard(l) == \/ lpc[l] \notin {"none", "refused", "adding", "ended"}
                       \/ lpc[l] = "ended" /\ l \in cancelled
<1>a. ASSUME sources' \subseteq sources, \A l \in Loop : Heard(l) => Heard(l)'
      PROVE  SourceIsListened'
  BY <1>a DEF SourceIsListened
<1> USE DEF serverVars, loopVars, workerVars, history, Goto
<1>1. CASE UNCHANGED <<sources, lpc, cancelled>>
  BY <1>1, <1>a
<1>2. ASSUME NEW l \in Loop,
             \/ LookUpSource(l) \/ CancelContext(l) \/ Drop(l) \/ RunConnection(l)
             \/ Connect(l) \/ GiveUpDial(l) \/ ReadMessage(l) \/ Enqueue(l)
             \/ Discard(l) \/ Redial(l) \/ EndLoop(l)
      PROVE  SourceIsListened'
  <2>1. UNCHANGED sources
    BY <1>2 DEF LookUpSource, CancelContext, Drop, RunConnection, Connect, GiveUpDial,
                ReadMessage, Enqueue, Discard, Redial, EndLoop
  <2>2. cancelled \subseteq cancelled' /\ \A m \in Loop : m # l => lpc'[m] = lpc[m]
    BY <1>2 DEF LookUpSource, CancelContext, Drop, RunConnection, Connect, GiveUpDial,
                ReadMessage, Enqueue, Continue, Discard, Redial, EndLoop, ConsumerTypeOK
  <2>3. \/ lpc[l] = "none" \/ lpc'[l] = lpc[l]
        \/ lpc'[l] \in {"dial", "read", "sleep", "push", "get"}
        \/ lpc'[l] = "ended" /\ l \in cancelled
    BY <1>2 DEF LookUpSource, CancelContext, Drop, RunConnection, Connect, GiveUpDial,
                ReadMessage, Enqueue, Continue, Discard, Redial, EndLoop, ConsumerTypeOK
  <2>4. \A m \in Loop : Heard(m) => Heard(m)'
    BY <2>2, <2>3
  <2> QED
    BY <2>1, <2>4, <1>a
<1>3. ASSUME NEW l \in Loop, AddSource(l) PROVE SourceIsListened'
  <2>1. /\ sources' = sources \cup {SourceOf[l]} /\ UNCHANGED cancelled
        /\ lpc[l] = "adding" /\ lpc'[l] = "get"
        /\ \A m \in Loop : m # l => lpc'[m] = lpc[m]
    BY <1>3 DEF AddSource, ConsumerTypeOK
  <2>2. \A m \in Loop : Heard(m) => Heard(m)'
    BY <2>1
  <2>3. Heard(l)'
    BY <2>1
  <2> SUFFICES ASSUME NEW s \in sources'
               PROVE  \E m \in Loop : SourceOf[m] = s /\ Heard(m)'
    BY DEF SourceIsListened
  <2>4. CASE s \in sources
    BY <2>2, <2>4 DEF SourceIsListened
  <2>5. CASE s = SourceOf[l]
    BY <2>3, <2>5
  <2> QED
    BY <2>1, <2>4, <2>5
<1>4. CASE UNCHANGED consumerVars
  BY <1>1, <1>4 DEF consumerVars
<1>5. CASE \E s \in Source : CreateEvent(s)
  BY <1>1, <1>5 DEF CreateEvent
<1>6. CASE \E w \in Worker : WorkerStep(w)
  BY <1>1, <1>6 DEF WorkerStep, TakeJob, StampJob, SetCursor, Process
<1> HIDE DEF Heard
<1> QED
  BY <1>2, <1>3, <1>4, <1>5, <1>6 DEF ConsumerNext, LoopStep

(* A source that Start was given, or AddSource has registered, keeps a     *)
(* connection loop through every drop and redial, unless the context the   *)
(* loop was started with has ended.                                        *)
THEOREM SourcesStayListened == ConsumerSpec => []SourceIsListened
<1>1. ConsumerInit => SourceIsListened
  BY ConsumerAssumption DEF ConsumerInit, SourceIsListened
<1>2. ConsumerIInv => ConsumerTypeOK
  BY DEF ConsumerIInv
<1> QED
  BY <1>1, <1>2, ListenedStep, InvariantHolds, PTL DEF ConsumerSpec

----------------------------------------------------------------------------
(***************************************************************************)
(* Nothing kept is asked for again.  A single worker stores its cursors in *)
(* the order in which it read the clock.                                   *)
(***************************************************************************)
OneWorker == \A v, w \in Worker : v = w

(* No event and no cursor is of the future, and the cursor of a source has *)
(* reached every event of it that a cursor was stored for.                 *)
CursorOK ==
  /\ \A e \in log : e[2] <= now
  /\ \A s \in Source : cursors[s] <= now
  /\ \A e \in kept : e[2] <= cursors[e[1]]

(* The clock reading about to be stored is older than no event kept.       *)
StampOK ==
  \A w \in Worker : workerPc[w] = "stamped" =>
    /\ job[w][2] <= stamp[w] /\ stamp[w] <= now
    /\ \A s \in Source : cursors[s] <= stamp[w]

(* A connection starts behind nothing that was handled and kept when its   *)
(* cursor was read; a url without a cursor starts at the present.          *)
StartOK ==
  \A l \in Loop : \A e \in before[l] : e[1] = SourceOf[l] =>
    /\ lpc[l] = "dial" => url[l] = 0 \/ e[2] <= url[l]
    /\ lpc[l] \in {"read", "push"} => e[2] <= pos[l]

CInv == CursorOK /\ StampOK /\ StartOK /\ NoReread

(* Events of the log are pairs of a source and a time. *)
LEMMA LoggedEvents ==
  ASSUME ConsumerTypeOK
  PROVE  \A e \in log : e[1] \in Source /\ e[2] \in Int /\ e[2] > 0 /\ e = <<e[1], e[2]>>
BY ConsumerAssumption DEF ConsumerTypeOK, SourceEvent

(* Time passes. *)
LEMMA CreateEventCInv ==
  ASSUME ConsumerIInv, CInv, NEW s \in Source, CreateEvent(s) PROVE CInv'
<1> USE ConsumerAssumption DEF ConsumerIInv, CreateEvent, loopVars, workerVars, history
<1>1. now \in Int /\ now' = now + 1 /\ log' = log \cup {<<s, now + 1>>}
  BY DEF ConsumerTypeOK, Time
<1>2. CursorOK'
  <2>1. \A t \in Source : cursors[t] \in Int
    BY DEF ConsumerTypeOK, Time
  <2> QED
    BY <1>1, <2>1, LoggedEvents DEF CInv, CursorOK
<1>3. StampOK'
  <2>1. \A w \in Worker : stamp[w] \in Int
    BY DEF ConsumerTypeOK, Time
  <2> QED
    BY <1>1, <2>1 DEF CInv, StampOK
<1>4. StartOK' /\ NoReread'
  BY DEF CInv, StartOK, NoReread
<1> QED
  BY <1>2, <1>3, <1>4 DEF CInv

(* The loops: none of them touches cursors, stamps or what was kept. *)
LEMMA LoopCInv ==
  ASSUME ConsumerIInv, CInv, NEW l \in Loop, LookUpSource(l) \/ CancelContext(l) \/ LoopStep(l) \/ Drop(l)
  PROVE  CInv'
<1> USE ConsumerAssumption DEF ConsumerIInv, Goto, serverVars, workerVars, history
<1>1. UNCHANGED <<now, log, workerPc, job, stamp, cursors, handled, kept>>
  BY DEF LookUpSource, CancelContext, LoopStep, Drop, AddSource, RunConnection, Connect,
         GiveUpDial, ReadMessage, Enqueue, Discard, Redial, EndLoop
<1>2. CursorOK' /\ StampOK'
  BY <1>1 DEF CInv, CursorOK, StampOK
<1>3. CASE RunConnection(l)
  <2>1. PICK c \in Get(SourceOf[l]) : url' = [url EXCEPT ![l] = c]
    BY <1>3 DEF RunConnection
  <2>2. /\ c = cursors[SourceOf[l]] \/ c = 0
        /\ before' = [before EXCEPT ![l] = handled \cap kept]
        /\ lpc' = [lpc EXCEPT ![l] = "dial"]
        /\ lpc[l] = "get" /\ UNCHANGED <<held, pos>>
    BY <1>3, <2>1 DEF RunConnection, Get
  <2>3. /\ url'[l] = c /\ before'[l] = handled \cap kept /\ lpc'[l] = "dial"
        /\ \A m \in Loop : m # l => url'[m] = url[m] /\ before'[m] = before[m] /\ lpc'[m] = lpc[m]
    BY <2>1, <2>2 DEF ConsumerTypeOK
  <2>4. StartOK'
    BY <2>2, <2>3 DEF CInv, CursorOK, StartOK
  <2>5. NoReread'
    <3>1. held[l] = None
      BY <2>2 DEF HeldOK
    <3> QED
      BY <2>2, <2>3, <3>1 DEF CInv, NoReread
  <2> QED
    BY <1>2, <2>4, <2>5 DEF CInv
<1>4. CASE Connect(l)
  <2>1. /\ pos' = [pos EXCEPT ![l] = IF url[l] = 0 THEN now ELSE url[l]]
        /\ lpc' = [lpc EXCEPT ![l] = "read"]
        /\ lpc[l] = "dial" /\ UNCHANGED <<held, url, before>>
    BY <1>4 DEF Connect
  <2>2. /\ pos'[l] = (IF url[l] = 0 THEN now ELSE url[l]) /\ lpc'[l] = "read"
        /\ \A m \in Loop : m # l => pos'[m] = pos[m] /\ lpc'[m] = lpc[m]
    BY <2>1 DEF ConsumerTypeOK
  <2>3. \A e \in before[l] : e[2] <= now
    BY DEF CInv, CursorOK, ConsumerTypeOK
  <2>4. StartOK'
    BY <2>1, <2>2, <2>3 DEF CInv, StartOK
  <2> QED
    BY <1>2, <2>1, <2>4 DEF CInv, NoReread
<1>5. CASE ReadMessage(l)
  <2>1. PICK t \in Ahead(l) :
          /\ pos' = [pos EXCEPT ![l] = t]
          /\ held' = [held EXCEPT ![l] = <<SourceOf[l], t>>]
    BY <1>5 DEF ReadMessage
  <2>2. /\ lpc[l] = "read" /\ lpc' = [lpc EXCEPT ![l] = "push"]
        /\ UNCHANGED <<url, before>>
    BY <1>5 DEF ReadMessage
  <2>3. t \in Int /\ pos[l] \in Int /\ t > pos[l]
    BY DEF Ahead, ConsumerTypeOK, Time
  <2>4. /\ pos'[l] = t /\ held'[l] = <<SourceOf[l], t>> /\ lpc'[l] = "push"
        /\ \A m \in Loop : m # l => pos'[m] = pos[m] /\ lpc'[m] = lpc[m] /\ held'[m] = held[m]
    BY <2>1, <2>2 DEF ConsumerTypeOK
  <2>5. \A e \in before[l] : e[1] = SourceOf[l] => e[2] \in Int /\ e[2] <= pos[l]
    BY <2>2, LoggedEvents DEF CInv, StartOK, ConsumerTypeOK
  <2>6. StartOK'
    BY <2>2, <2>3, <2>4, <2>5 DEF CInv, StartOK
  <2>7. <<SourceOf[l], t>> \notin before[l]
    <3> SUFFICES ASSUME <<SourceOf[l], t>> \in before[l] PROVE FALSE
      OBVIOUS
    <3>1. t <= pos[l]
      BY <2>5
    <3> QED
      BY <3>1, <2>3
  <2>8. NoReread'
    BY <2>2, <2>4, <2>7 DEF CInv, NoReread
  <2> QED
    BY <1>2, <2>6, <2>8 DEF CInv
<1>6. CASE Enqueue(l) \/ Discard(l)
  <2>1. /\ lpc[l] = "push" /\ UNCHANGED <<url, pos, before>>
        /\ lpc'[l] \in {"read", "sleep"} /\ held'[l] = None
        /\ \A m \in Loop : m # l => lpc'[m] = lpc[m] /\ held'[m] = held[m]
    BY <1>6 DEF Enqueue, Discard, Continue, ConsumerTypeOK
  <2>2. StartOK'
    BY <2>1 DEF CInv, StartOK
  <2>3. NoReread'
    BY <2>1 DEF CInv, NoReread
  <2> QED
    BY <1>2, <2>2, <2>3 DEF CInv
<1>7. CASE \/ LookUpSource(l) \/ CancelContext(l) \/ Drop(l) \/ AddSource(l)
           \/ GiveUpDial(l) \/ Redial(l) \/ EndLoop(l)
  <2>1. UNCHANGED <<url, pos, before, held>>
    BY <1>7 DEF LookUpSource, CancelContext, Drop, AddSource, GiveUpDial, Redial, EndLoop
  <2>2. \A m \in Loop : lpc'[m] \in {"dial", "read", "push"} => lpc'[m] = lpc[m]
    BY <1>7 DEF LookUpSource, CancelContext, Drop, AddSource, GiveUpDial, Redial, EndLoop, ConsumerTypeOK
  <2>3. StartOK'
    BY <2>1, <2>2 DEF CInv, StartOK
  <2> QED
    BY <1>2, <2>1, <2>3 DEF CInv, NoReread
<1> QED
  BY <1>3, <1>4, <1>5, <1>6, <1>7 DEF LoopStep

(* The worker: what it stores is the latest clock reading of all. *)
LEMMA WorkerCInv ==
  ASSUME OneWorker, ConsumerIInv, CInv, NEW w \in Worker, WorkerStep(w) PROVE CInv'
<1> USE ConsumerAssumption DEF ConsumerIInv, serverVars, loopVars, history
<1>a. /\ now \in Int /\ \A s \in Source : cursors[s] \in Int
      /\ \A v \in Worker : stamp[v] \in Int
  BY DEF ConsumerTypeOK, Time
<1>1. UNCHANGED <<now, log, lpc, url, pos, held, before>>
  BY DEF WorkerStep, TakeJob, StampJob, SetCursor, Process
<1>2. StartOK' /\ NoReread'
  BY <1>1 DEF CInv, StartOK, NoReread
<1>3. CASE TakeJob(w) \/ Process(w)
  <2>1. UNCHANGED <<cursors, kept>> /\ \A v \in Worker : workerPc'[v] # "stamped"
    BY <1>3 DEF TakeJob, Process, OneWorker, ConsumerTypeOK
  <2> QED
    BY <1>1, <1>2, <2>1 DEF CInv, CursorOK, StampOK
<1>4. CASE StampJob(w)
  <2>1. UNCHANGED <<cursors, kept, job>> /\ stamp'[w] = now
    BY <1>4 DEF StampJob, ConsumerTypeOK
  <2>2. job[w] \in log
    BY <1>4 DEF StampJob, Logged, Active
  <2>3. StampOK'
    <3>1. job[w][2] <= now /\ now <= now
      BY <2>2, <1>a DEF CInv, CursorOK
    <3> QED
      BY <1>1, <2>1, <3>1 DEF CInv, CursorOK, StampOK, OneWorker
  <2> QED
    BY <1>1, <1>2, <2>1, <2>3 DEF CInv, CursorOK
<1>5. CASE SetCursor(w)
  <2>1. UNCHANGED job /\ workerPc[w] = "stamped" /\ \A v \in Worker : workerPc'[v] # "stamped"
    BY <1>5 DEF SetCursor, OneWorker, ConsumerTypeOK
  <2>2. job[w] \in log /\ job[w][1] \in Source /\ job[w][2] \in Int
    BY <2>1, LoggedEvents DEF Logged, Active
  <2>3. /\ job[w][2] <= stamp[w] /\ stamp[w] <= now
        /\ \A s \in Source : cursors[s] <= stamp[w]
    BY <2>1 DEF CInv, StampOK
  <2>4. CASE cursors' = [cursors EXCEPT ![job[w][1]] = stamp[w]] /\ kept' = kept \cup {job[w]}
    <3>1. \A s \in Source : cursors'[s] = IF s = job[w][1] THEN stamp[w] ELSE cursors[s]
      BY <2>4 DEF ConsumerTypeOK
    <3>2. \A s \in Source : cursors'[s] <= now
      BY <1>a, <2>3, <3>1 DEF CInv, CursorOK
    <3>3. ASSUME NEW e \in kept' PROVE e[2] <= cursors'[e[1]]
      <4>1. CASE e = job[w]
        BY <2>2, <2>3, <3>1, <4>1
      <4>2. CASE e \in kept
        <5>1. e[1] \in Source /\ e[2] \in Int
          BY <4>2, LoggedEvents DEF ConsumerTypeOK
        <5>2. e[2] <= cursors[e[1]] /\ cursors[e[1]] <= cursors'[e[1]]
          BY <4>2, <5>1, <1>a, <2>3, <3>1 DEF CInv, CursorOK
        <5> QED
          BY <5>1, <5>2, <1>a, <3>1
      <4> QED
        BY <2>4, <4>1, <4>2
    <3>4. CursorOK'
      BY <1>1, <3>2, <3>3 DEF CInv, CursorOK
    <3> QED
      BY <1>2, <2>1, <3>4 DEF CInv, StampOK
  <2>5. CASE UNCHANGED <<cursors, kept>>
    BY <1>1, <1>2, <2>1, <2>5 DEF CInv, CursorOK, StampOK
  <2> QED
    BY <1>5, <2>4, <2>5 DEF SetCursor
<1> QED
  BY <1>3, <1>4, <1>5 DEF WorkerStep

(* A reconnection never asks for an event that was handled, and whose      *)
(* cursor was stored, before the loop read its cursor: for any sources,    *)
(* loops, drops, cancellations and store faults, with one worker.  (Two    *)
(* workers can store their cursors in the opposite order.)                 *)
THEOREM NothingReread == OneWorker => (ConsumerSpec => []NoReread)
<1> SUFFICES ASSUME OneWorker PROVE ConsumerSpec => []NoReread
  OBVIOUS
<1>1. ConsumerInit => CInv
  <2> SUFFICES ASSUME ConsumerInit PROVE CInv
    OBVIOUS
  <2> QED
    BY DEF ConsumerInit, CInv, CursorOK, StampOK, StartOK, NoReread
<1>2. ConsumerIInv /\ CInv /\ [ConsumerNext]_consumerVars => CInv'
  <2> SUFFICES ASSUME ConsumerIInv, CInv, [ConsumerNext]_consumerVars PROVE CInv'
    OBVIOUS
  <2>1. CASE UNCHANGED consumerVars
    BY <2>1 DEF CInv, CursorOK, StampOK, StartOK, NoReread, consumerVars, serverVars, loopVars,
       workerVars, history
  <2> QED
    BY <2>1, CreateEventCInv, LoopCInv, WorkerCInv DEF ConsumerNext
<1>3. CInv => NoReread
  BY DEF CInv
<1> QED
  BY <1>1, <1>2, <1>3, InvariantHolds, PTL DEF ConsumerSpec

=============================================================================
