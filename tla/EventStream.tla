---------------------------- MODULE EventStream ----------------------------
(***************************************************************************)
(* The event log a knot and a spindle publish and its /events websocket:   *)
(* the `events` table (db/events.go), the in-process Notifier, and one     *)
(* handler goroutine per connected client.  Both servers run the same      *)
(* algorithm (knotserver/events.go and spindle/stream.go).                 *)
(*                                                                         *)
(* Writers are the request handlers and workflow goroutines that call      *)
(* InsertEvent: they read the clock, then run the SQL insert, then notify, *)
(* and other goroutines may run between any two of these.                  *)
(***************************************************************************)
EXTENDS Integers, Sequences, FiniteSets, Functions

CONSTANTS
  Writer,      \* goroutines that insert events
  Conn,        \* connected clients, one handler goroutine each
  BatchLimit,  \* "limit 100" of GetEvents
  MaxEvents,   \* bound: rows ever inserted
  MaxClock     \* bound: last instant of the clock

ASSUME StreamAssumption ==
  /\ BatchLimit \in Nat \ {0}
  /\ MaxEvents \in Nat
  /\ MaxClock \in Nat \ {0}

VARIABLES
  clock,   \* time.Now().UnixNano()
  rows,    \* the events table
  wpc,     \* where each writer is in InsertEvent
  wts,     \* the timestamp a writer took before its insert
  pc,      \* where each handler is in Events
  subs,    \* Notifier.subscribers: the handlers whose channel is registered
  ch,      \* tokens in the handler's channel (capacity 1)
  cursor,  \* the handler's cursor
  batch,   \* rows returned by GetEvents and not written yet
  sent,    \* rows written to the websocket, in order
  capped,  \* history: the last GetEvents returned BatchLimit rows
  backlog  \* history: rows due to the client when its cursor was read

writerVars == <<clock, rows, wpc, wts>>
connVars   == <<pc, subs, ch, cursor, batch, sent, capped, backlog>>
vars       == <<writerVars, connVars>>

Event == [id : Nat, created : Nat]

TypeOK ==
  /\ clock \in Nat
  /\ rows \in SUBSET Event
  /\ wpc \in [Writer -> {"idle", "exec", "notify"}]
  /\ wts \in [Writer -> Nat]
  /\ pc \in [Conn -> {"closed", "subscribed", "fetch", "send", "wait"}]
  /\ subs \in SUBSET Conn
  /\ ch \in [Conn -> {0, 1}]
  /\ cursor \in [Conn -> Int]
  /\ batch \in [Conn -> Seq(Event)]
  /\ sent \in [Conn -> Seq(Event)]
  /\ capped \in [Conn -> BOOLEAN]
  /\ backlog \in [Conn -> SUBSET Event]

(***************************************************************************)
(* GetEvents(c): the where clause, and "order by created asc limit 100".   *)
(* Rows with equal timestamps come out in any order.                       *)
(***************************************************************************)
(* Mutant: the cursor's own row is fetched again. *)
Pending_AtCursor(c) == IF c > 0 THEN {e \in rows : e.created >= c} ELSE rows

Pending(c) == IF c > 0 THEN {e \in rows : e.created > c} ELSE rows

GetEvents(c, b) ==
  LET due == Pending(c)
  IN  /\ Len(b) <= BatchLimit
      /\ Len(b) < BatchLimit => Range(b) = due
      /\ \A i, j \in 1..Len(b) :
           i < j => b[i] # b[j] /\ b[i].created <= b[j].created
      /\ \A i \in 1..Len(b), e \in due \ Range(b) : b[i].created <= e.created

Batches(c) ==
  LET due == Pending(c)
  IN  {b \in UNION {[1..n -> due] : n \in 0..BatchLimit} : GetEvents(c, b)}

----------------------------------------------------------------------------

Init ==
  /\ clock = 1
  /\ rows = {}
  /\ wpc = [w \in Writer |-> "idle"]
  /\ wts = [w \in Writer |-> 0]
  /\ pc = [c \in Conn |-> "closed"]
  /\ subs = {}
  /\ ch = [c \in Conn |-> 0]
  /\ cursor = [c \in Conn |-> 0]
  /\ batch = [c \in Conn |-> << >>]
  /\ sent = [c \in Conn |-> << >>]
  /\ capped = [c \in Conn |-> FALSE]
  /\ backlog = [c \in Conn |-> {}]

Tick ==
  /\ clock < MaxClock
  /\ clock' = clock + 1
  /\ UNCHANGED <<rows, wpc, wts, connVars>>

(***************************************************************************)
(* Writer: InsertEvent.                                                    *)
(***************************************************************************)

(* time.Now().UnixNano() is evaluated before the statement runs. *)
Stamp(w) ==
  /\ wpc[w] = "idle"
  /\ Cardinality(rows) + Cardinality({v \in Writer : wpc[v] = "exec"}) < MaxEvents
  /\ wts' = [wts EXCEPT ![w] = clock]
  /\ wpc' = [wpc EXCEPT ![w] = "exec"]
  /\ UNCHANGED <<clock, rows, connVars>>

(* The insert either commits or fails; NotifyAll runs in both cases. *)
Exec(w) ==
  /\ wpc[w] = "exec"
  /\ wpc' = [wpc EXCEPT ![w] = "notify"]
  /\ \/ rows' = rows \cup {[id |-> Cardinality(rows) + 1, created |-> wts[w]]}
     \/ UNCHANGED rows
  /\ UNCHANGED <<clock, wts, connVars>>

(* Mutant: the channel is not bounded. *)
NotifyAll_NoCap(w) ==
  /\ wpc[w] = "notify"
  /\ wpc' = [wpc EXCEPT ![w] = "idle"]
  /\ ch' = [c \in Conn |-> IF c \in subs THEN ch[c] + 1 ELSE ch[c]]
  /\ UNCHANGED <<clock, rows, wts, pc, subs, cursor, batch, sent, capped, backlog>>

(* Mutant: an unbuffered channel, only a handler in its select gets a token. *)
NotifyAll_Unbuffered(w) ==
  /\ wpc[w] = "notify"
  /\ wpc' = [wpc EXCEPT ![w] = "idle"]
  /\ ch' = [c \in Conn |-> IF c \in subs /\ pc[c] = "wait" THEN 1 ELSE ch[c]]
  /\ UNCHANGED <<clock, rows, wts, pc, subs, cursor, batch, sent, capped, backlog>>

(* A token for every registered channel; a full channel keeps its one token. *)
NotifyAll(w) ==
  /\ wpc[w] = "notify"
  /\ wpc' = [wpc EXCEPT ![w] = "idle"]
  /\ ch' = [c \in Conn |-> IF c \in subs THEN 1 ELSE ch[c]]
  /\ UNCHANGED <<clock, rows, wts, pc, subs, cursor, batch, sent, capped, backlog>>

(***************************************************************************)
(* Handler: Events and streamOps / streamPipelines.                        *)
(***************************************************************************)

(* The upgrade succeeded and the handler registers a fresh channel. *)
Subscribe(c) ==
  /\ pc[c] = "closed"
  /\ pc' = [pc EXCEPT ![c] = "subscribed"]
  /\ subs' = subs \cup {c}
  /\ ch' = [ch EXCEPT ![c] = 0]
  /\ sent' = [sent EXCEPT ![c] = << >>]
  /\ batch' = [batch EXCEPT ![c] = << >>]
  /\ UNCHANGED <<writerVars, cursor, capped, backlog>>

(* A missing, invalid or zero cursor parameter becomes the current time; a   *)
(* negative one (here -1) is kept and means "everything".                    *)
ReadCursor(c, q) ==
  /\ pc[c] = "subscribed"
  /\ LET cur == IF q = 0 THEN clock ELSE q
     IN  /\ cursor' = [cursor EXCEPT ![c] = cur]
         /\ backlog' = [backlog EXCEPT ![c] = Pending(cur)]
  /\ pc' = [pc EXCEPT ![c] = "fetch"]
  /\ UNCHANGED <<writerVars, subs, ch, batch, sent, capped>>

Fetch(c) ==
  /\ pc[c] = "fetch"
  /\ \E b \in Batches(cursor[c]) :
       /\ batch' = [batch EXCEPT ![c] = b]
       /\ capped' = [capped EXCEPT ![c] = Len(b) = BatchLimit]
  /\ pc' = [pc EXCEPT ![c] = "send"]
  /\ UNCHANGED <<writerVars, subs, ch, cursor, sent, backlog>>

(* Mutant: the cursor becomes the current time. *)
WriteMessage_CursorNow(c) ==
  /\ pc[c] = "send"
  /\ batch[c] # << >>
  /\ sent' = [sent EXCEPT ![c] = Append(@, Head(batch[c]))]
  /\ cursor' = [cursor EXCEPT ![c] = clock]
  /\ batch' = [batch EXCEPT ![c] = Tail(@)]
  /\ UNCHANGED <<writerVars, pc, subs, ch, capped, backlog>>

WriteMessage(c) ==
  /\ pc[c] = "send"
  /\ batch[c] # << >>
  /\ sent' = [sent EXCEPT ![c] = Append(@, Head(batch[c]))]
  /\ cursor' = [cursor EXCEPT ![c] = Head(batch[c]).created]
  /\ batch' = [batch EXCEPT ![c] = Tail(@)]
  /\ UNCHANGED <<writerVars, pc, subs, ch, capped, backlog>>

(* The batch is written: back to the select of the live loop. *)
EndBatch(c) ==
  /\ pc[c] = "send"
  /\ batch[c] = << >>
  /\ pc' = [pc EXCEPT ![c] = "wait"]
  /\ UNCHANGED <<writerVars, subs, ch, cursor, batch, sent, capped, backlog>>

(* case <-ch *)
Wake(c) ==
  /\ pc[c] = "wait"
  /\ ch[c] = 1
  /\ ch' = [ch EXCEPT ![c] = 0]
  /\ pc' = [pc EXCEPT ![c] = "fetch"]
  /\ UNCHANGED <<writerVars, subs, cursor, batch, sent, capped, backlog>>

(* A failed query or write, or the client going away: the deferred           *)
(* Unsubscribe removes and closes the channel.                               *)
Close(c) ==
  /\ pc[c] \in {"fetch", "send", "wait"}
  /\ pc' = [pc EXCEPT ![c] = "closed"]
  /\ subs' = subs \ {c}
  /\ UNCHANGED <<writerVars, ch, cursor, batch, sent, capped, backlog>>

WriterStep(w) == Stamp(w) \/ Exec(w) \/ NotifyAll(w)

HandlerStep(c) == Fetch(c) \/ WriteMessage(c) \/ EndBatch(c) \/ Wake(c)

Next ==
  \/ Tick
  \/ \E w \in Writer : WriterStep(w)
  \/ \E c \in Conn :
       \/ Subscribe(c)
       \/ \E q \in -1..MaxClock : ReadCursor(c, q)
       \/ HandlerStep(c)
       \/ Close(c)

Spec == Init /\ [][Next]_vars

(* A goroutine that can run does run; clients need not stay, insert or       *)
(* connect.                                                                  *)
Fairness ==
  /\ \A w \in Writer : WF_vars(Exec(w) \/ NotifyAll(w))
  /\ \A c \in Conn : WF_vars(HandlerStep(c))

FairSpec == Spec /\ Fairness

----------------------------------------------------------------------------
(***************************************************************************)
(* Properties.                                                             *)
(***************************************************************************)

(* On one connection the rows go out in timestamp order and no row twice,  *)
(* however inserts, notifications and batches interleave.                  *)
SentInOrder ==
  \A c \in Conn : \A i, j \in 1..Len(sent[c]) :
    i < j => /\ sent[c][i].id # sent[c][j].id
             /\ sent[c][i].created <= sent[c][j].created

(* No lost wakeup: a handler that sleeps with an empty channel while no    *)
(* writer still has to notify has nothing left to send, unless its last    *)
(* query was cut off by the limit.                                         *)
NoLostWakeup ==
  \A c \in Conn :
    /\ pc[c] = "wait" /\ ch[c] = 0
    /\ \A w \in Writer : wpc[w] # "notify"
    => Pending(cursor[c]) = {} \/ capped[c]

(* The table was filled in timestamp order, all timestamps distinct: no    *)
(* two writers overtook each other between the clock and the insert.       *)
CommittedInOrder ==
  \A e, f \in rows : e.id < f.id => e.created < f.created

(* No hole: as long as rows commit in timestamp order, a row strictly      *)
(* between the first and the last one written on a connection was written  *)
(* too, wherever the limit cut the batches; otherwise the cursor can move  *)
(* past a row that was never sent.  And the backfill comes first           *)
(* (knotserver/events.go, spindle/stream.go: "complete backfill first      *)
(* before going to live data"): a handler asleep in the live loop has sent *)
(* every row that was due when it read the client's cursor, unless its     *)
(* last query was cut off by the limit.                                    *)
NoHole ==
  CommittedInOrder =>
  \A c \in Conn :
    /\ pc[c] = "wait" => capped[c] \/ backlog[c] \subseteq Range(sent[c])
    /\ \A e \in rows :
         ( /\ sent[c] # << >>
           /\ sent[c][1].created < e.created
           /\ e.created < sent[c][Len(sent[c])].created )
         => e \in Range(sent[c])

(* A committed row newer than the cursor of an open connection is          *)
(* eventually behind the cursor, unless the connection closes or the limit *)
(* cuts a query, which leaves the rest to the next notification.           *)
PendingDrained ==
  \A c \in Conn :
    (pc[c] = "wait" /\ Pending(cursor[c]) # {})
      ~> (pc[c] = "closed" \/ Pending(cursor[c]) = {} \/ capped[c])

(* The stream implements the feed it promises its clients: whatever the    *)
(* writers, queries, tokens and reconnections do, what a client sees is an *)
(* append-only log handed out in timestamp order, no row twice.            *)
Feed == INSTANCE EventFeed WITH Client <- Conn, log <- rows, out <- sent

FeedSpec == Feed!Spec

=============================================================================
