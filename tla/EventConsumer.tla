--------------------------- MODULE EventConsumer ---------------------------
(***************************************************************************)
(* The client side of the event streams: eventconsumer/consumer.go, used   *)
(* by the appview to follow knots and spindles and by the spindle to       *)
(* follow knots.  One connection loop per source reads messages into a     *)
(* bounded job queue; a pool of workers moves the source's cursor to the   *)
(* present and hands the message to ProcessFunc.                           *)
(*                                                                         *)
(* An event is <<source, creation time>>.  The servers behave as the       *)
(* EventStream module has them: rows above the cursor, oldest first.  The  *)
(* clocks of server and client agree.                                      *)
(***************************************************************************)
EXTENDS Integers, Sequences, FiniteSets

CONSTANTS
  Source,      \* knots or spindles
  Loop,        \* sources given to Start and calls of AddSource
  SourceOf,    \* the source of each
  Started,     \* those given to Start
  RequestCtx,  \* calls of AddSource with the context of an HTTP request
  Worker,      \* ConsumerConfig.WorkerCount
  QueueSize,   \* ConsumerConfig.QueueSize
  Fault,       \* {"store"} when the cursor store may fail
  None,        \* no message
  MaxCreated,  \* bound: events of all sources
  MaxDrops,    \* bound: broken connections
  MaxBad       \* bound: messages that are no JSON

ASSUME ConsumerAssumption ==
  /\ SourceOf \in [Loop -> Source]
  /\ Started \subseteq Loop
  /\ RequestCtx \subseteq Loop \ Started
  /\ QueueSize \in Nat \ {0}
  /\ Fault \subseteq {"store"}
  /\ MaxCreated \in Nat /\ MaxDrops \in Nat /\ MaxBad \in Nat
  /\ None \notin Source \X (0..MaxCreated)

Time  == 0..MaxCreated
SourceEvent == Source \X (1..MaxCreated)

VARIABLES
  now,        \* the clock
  log,        \* events the sources have created
  bad,        \* those whose message cannot be decoded
  sources,    \* ConsumerConfig.Sources
  lpc,        \* where each connection loop is
  cancelled,  \* loops whose context is done
  url,        \* the cursor in the url a loop dials
  pos,        \* server: the cursor of the connection
  held,       \* the message a loop has read and not queued yet
  queue,      \* Consumer.jobQueue
  workerPc,   \* where each worker is
  job,        \* its job
  stamp,      \* the time.Now() it is about to store
  cursors,    \* CursorStore
  handled,    \* events ProcessFunc was called for
  read,       \* history: events read from a connection
  kept,       \* history: events for which a cursor was stored
  before,     \* history: those handled and kept when a loop read its cursor
  discarded,  \* history: messages given up for a context that was done
  drops       \* history: connections that broke

serverVars == <<now, log, bad>>
loopVars   == <<lpc, cancelled, url, pos, held>>
workerVars == <<workerPc, job, stamp>>
history    == <<read, kept, before, discarded, drops>>
consumerVars == <<serverVars, sources, loopVars, queue, workerVars, cursors, handled, history>>

LoopState ==
  {"none", "adding", "refused", "get", "dial", "read", "push", "sleep", "ended"}

ConsumerTypeOK ==
  /\ now \in Time
  /\ log \in SUBSET SourceEvent /\ bad \in SUBSET log
  /\ sources \in SUBSET Source
  /\ lpc \in [Loop -> LoopState]
  /\ cancelled \in SUBSET RequestCtx
  /\ url \in [Loop -> Time] /\ pos \in [Loop -> Time]
  /\ held \in [Loop -> SourceEvent \cup {None}]
  /\ queue \in Seq(SourceEvent) /\ Len(queue) <= QueueSize
  /\ workerPc \in [Worker -> {"idle", "taken", "stamped", "process", "dead"}]
  /\ job \in [Worker -> SourceEvent \cup {None}]
  /\ stamp \in [Worker -> Time]
  /\ cursors \in [Source -> Time]
  /\ handled \in SUBSET log /\ read \in SUBSET log /\ discarded \in SUBSET log
  /\ kept \in SUBSET log
  /\ before \in [Loop -> SUBSET log]
  /\ drops \in 0..MaxDrops

ConsumerInit ==
  /\ now = 0 /\ log = {} /\ bad = {}
  /\ sources = {SourceOf[l] : l \in Started}
  /\ lpc = [l \in Loop |-> IF l \in Started THEN "get" ELSE "none"]
  /\ cancelled = {}
  /\ url = [l \in Loop |-> 0]
  /\ pos = [l \in Loop |-> 0]
  /\ held = [l \in Loop |-> None]
  /\ queue = << >>
  /\ workerPc = [w \in Worker |-> "idle"]
  /\ job = [w \in Worker |-> None]
  /\ stamp = [w \in Worker |-> 0]
  /\ cursors = [s \in Source |-> 0]
  /\ handled = {}
  /\ read = {}
  /\ kept = {} /\ before = [l \in Loop |-> {}]
  /\ discarded = {}
  /\ drops = 0

----------------------------------------------------------------------------
(* A source inserts an event and time passes. *)
CreateEvent(s) ==
  /\ now < MaxCreated
  /\ now' = now + 1
  /\ log' = log \cup {<<s, now + 1>>}
  /\ \/ UNCHANGED bad
     \/ Cardinality(bad) < MaxBad /\ bad' = bad \cup {<<s, now + 1>>}
  /\ UNCHANGED <<sources, loopVars, queue, workerVars, cursors, handled, history>>

(***************************************************************************)
(* AddSource.  The map is read before the lock is taken.                   *)
(***************************************************************************)
Goto(l, p) == lpc' = [lpc EXCEPT ![l] = p]

LookUpSource(l) ==
  /\ lpc[l] = "none"
  /\ Goto(l, IF SourceOf[l] \in sources THEN "refused" ELSE "adding")
  /\ UNCHANGED <<serverVars, sources, cancelled, url, pos, held, queue,
                 workerVars, cursors, handled, history>>

AddSource(l) ==
  /\ lpc[l] = "adding"
  /\ sources' = sources \cup {SourceOf[l]}
  /\ Goto(l, "get")
  /\ UNCHANGED <<serverVars, cancelled, url, pos, held, queue, workerVars,
                 cursors, handled, history>>

(* The HTTP handler that called AddSource returns. *)
CancelContext(l) ==
  /\ l \in RequestCtx \ cancelled
  /\ lpc[l] # "none"
  /\ cancelled' = cancelled \cup {l}
  /\ UNCHANGED <<serverVars, sources, lpc, url, pos, held, queue, workerVars,
                 cursors, handled, history>>

(***************************************************************************)
(* startConnectionLoop and runConnection.                                  *)
(***************************************************************************)

(* CursorStore.Get: the cursor, or 0 after an error. *)
Get(s) == {cursors[s]} \cup {0 : f \in Fault}

(* The cursor is read and the url made once, before the dialling retries. *)
RunConnection(l) ==
  /\ lpc[l] = "get"
  /\ \E c \in Get(SourceOf[l]) : url' = [url EXCEPT ![l] = c]
  /\ before' = [before EXCEPT ![l] = handled \cap kept]
  /\ Goto(l, "dial")
  /\ UNCHANGED <<serverVars, sources, cancelled, pos, held, queue, workerVars,
                 cursors, handled, read, kept, discarded, drops>>

(* A url without a cursor streams from the server's present. *)
Connect(l) ==
  /\ lpc[l] = "dial" /\ l \notin cancelled
  /\ pos' = [pos EXCEPT ![l] = IF url[l] = 0 THEN now ELSE url[l]]
  /\ Goto(l, "read")
  /\ UNCHANGED <<serverVars, sources, cancelled, url, held, queue, workerVars,
                 cursors, handled, history>>

GiveUpDial(l) ==
  /\ lpc[l] = "dial" /\ l \in cancelled
  /\ Goto(l, "sleep")
  /\ UNCHANGED <<serverVars, sources, cancelled, url, pos, held, queue,
                 workerVars, cursors, handled, history>>

Ahead(l) == {t \in 1..MaxCreated : t > pos[l] /\ <<SourceOf[l], t>> \in log}

(* ReadMessage blocks, whatever the context. *)
ReadMessage(l) ==
  /\ lpc[l] = "read"
  /\ \E t \in Ahead(l) :
       /\ \A u \in Ahead(l) : t <= u
       /\ pos' = [pos EXCEPT ![l] = t]
       /\ held' = [held EXCEPT ![l] = <<SourceOf[l], t>>]
       /\ read' = read \cup {<<SourceOf[l], t>>}
  /\ Goto(l, "push")
  /\ UNCHANGED <<serverVars, sources, cancelled, url, queue, workerVars, cursors,
                 handled, kept, before, discarded, drops>>

(* After a message: the context ends the connection, or the next read. *)
Continue(l) == Goto(l, IF l \in cancelled THEN "sleep" ELSE "read")

(* Mutant: a full queue drops the message. *)
Enqueue_Lossy(l) ==
  /\ lpc[l] = "push"
  /\ queue' = IF Len(queue) < QueueSize THEN Append(queue, held[l]) ELSE queue
  /\ held' = [held EXCEPT ![l] = None]
  /\ Continue(l)
  /\ UNCHANGED <<serverVars, sources, cancelled, url, pos, workerVars, cursors,
                 handled, history>>

(* Mutant: the queue has no bound. *)
Enqueue_Unbounded(l) ==
  /\ lpc[l] = "push"
  /\ queue' = Append(queue, held[l])
  /\ held' = [held EXCEPT ![l] = None]
  /\ Continue(l)
  /\ UNCHANGED <<serverVars, sources, cancelled, url, pos, workerVars, cursors,
                 handled, history>>

(* The send blocks while the queue is full. *)
Enqueue(l) ==
  /\ lpc[l] = "push"
  /\ Len(queue) < QueueSize
  /\ queue' = Append(queue, held[l])
  /\ held' = [held EXCEPT ![l] = None]
  /\ Continue(l)
  /\ UNCHANGED <<serverVars, sources, cancelled, url, pos, workerVars, cursors,
                 handled, history>>

(* A context that is done may win the select: the message is gone. *)
Discard(l) ==
  /\ lpc[l] = "push" /\ l \in cancelled
  /\ held' = [held EXCEPT ![l] = None]
  /\ discarded' = discarded \cup {held[l]}
  /\ Goto(l, "sleep")
  /\ UNCHANGED <<serverVars, sources, cancelled, url, pos, queue, workerVars,
                 cursors, handled, read, kept, before, drops>>

(* Mutant: a broken connection ends the loop. *)
Drop_Ends(l) ==
  /\ lpc[l] = "read"
  /\ drops < MaxDrops
  /\ drops' = drops + 1
  /\ Goto(l, "ended")
  /\ UNCHANGED <<serverVars, sources, cancelled, url, pos, held, queue,
                 workerVars, cursors, handled, read, kept, before, discarded>>

(* ReadMessage returns an error. *)
Drop(l) ==
  /\ lpc[l] = "read"
  /\ drops < MaxDrops
  /\ drops' = drops + 1
  /\ Goto(l, "sleep")
  /\ UNCHANGED <<serverVars, sources, cancelled, url, pos, held, queue,
                 workerVars, cursors, handled, read, kept, before, discarded>>

(* The one-minute timer. *)
Redial(l) ==
  /\ lpc[l] = "sleep"
  /\ Goto(l, "get")
  /\ UNCHANGED <<serverVars, sources, cancelled, url, pos, held, queue,
                 workerVars, cursors, handled, history>>

EndLoop(l) ==
  /\ lpc[l] = "sleep" /\ l \in cancelled
  /\ Goto(l, "ended")
  /\ UNCHANGED <<serverVars, sources, cancelled, url, pos, held, queue,
                 workerVars, cursors, handled, history>>

----------------------------------------------------------------------------
(***************************************************************************)
(* worker.                                                                 *)
(***************************************************************************)

(* A message that is no JSON ends the worker for good. *)
TakeJob(w) ==
  /\ workerPc[w] = "idle"
  /\ queue # << >>
  /\ queue' = Tail(queue)
  /\ job' = [job EXCEPT ![w] = Head(queue)]
  /\ workerPc' = [workerPc EXCEPT ![w] = IF Head(queue) \in bad THEN "dead" ELSE "taken"]
  /\ UNCHANGED <<serverVars, sources, loopVars, stamp, cursors, handled, history>>

StampJob(w) ==
  /\ workerPc[w] = "taken"
  /\ stamp' = [stamp EXCEPT ![w] = now]
  /\ workerPc' = [workerPc EXCEPT ![w] = "stamped"]
  /\ UNCHANGED <<serverVars, sources, loopVars, queue, job, cursors, handled, history>>

(* Mutant: the cursor stops short of the message. *)
SetCursor_Short(w) ==
  /\ workerPc[w] = "stamped"
  /\ cursors' = [cursors EXCEPT ![job[w][1]] = job[w][2] - 1]
  /\ kept' = kept \cup {job[w]}
  /\ workerPc' = [workerPc EXCEPT ![w] = "process"]
  /\ UNCHANGED <<serverVars, sources, loopVars, queue, job, stamp, handled, read,
                 before, discarded, drops>>

(* CursorStore.Set: an error is ignored. *)
SetCursor(w) ==
  /\ workerPc[w] = "stamped"
  /\ \/ cursors' = [cursors EXCEPT ![job[w][1]] = stamp[w]] /\ kept' = kept \cup {job[w]}
     \/ "store" \in Fault /\ UNCHANGED <<cursors, kept>>
  /\ workerPc' = [workerPc EXCEPT ![w] = "process"]
  /\ UNCHANGED <<serverVars, sources, loopVars, queue, job, stamp, handled, read,
                 before, discarded, drops>>

(* Mutant: a job whose ProcessFunc fails is tried again and again. *)
Process_Retries(w) ==
  /\ workerPc[w] = "process"
  /\ workerPc' = [workerPc EXCEPT ![w] = "taken"]
  /\ UNCHANGED <<serverVars, sources, loopVars, queue, job, stamp, cursors, handled, history>>

(* ProcessFunc: an error is logged. *)
Process(w) ==
  /\ workerPc[w] = "process"
  /\ handled' = handled \cup {job[w]}
  /\ workerPc' = [workerPc EXCEPT ![w] = "idle"]
  /\ UNCHANGED <<serverVars, sources, loopVars, queue, job, stamp, cursors, history>>

----------------------------------------------------------------------------
LoopStep(l) ==
  \/ AddSource(l) \/ RunConnection(l) \/ Connect(l) \/ GiveUpDial(l)
  \/ ReadMessage(l) \/ Enqueue(l) \/ Discard(l) \/ Redial(l) \/ EndLoop(l)

WorkerStep(w) == TakeJob(w) \/ StampJob(w) \/ SetCursor(w) \/ Process(w)

ConsumerNext ==
  \/ \E s \in Source : CreateEvent(s)
  \/ \E l \in Loop : LookUpSource(l) \/ CancelContext(l) \/ LoopStep(l) \/ Drop(l)
  \/ \E w \in Worker : WorkerStep(w)

ConsumerSpec == ConsumerInit /\ [][ConsumerNext]_consumerVars

(* Goroutines run, a dialled server answers in the end (dialling retries   *)
(* for ever), the timer fires, ProcessFunc returns.  Events need not be    *)
(* created and contexts need not be cancelled.                             *)
ConsumerFairness ==
  /\ \A l \in Loop : WF_consumerVars(LoopStep(l))
  /\ \A w \in Worker : WF_consumerVars(WorkerStep(w))

ConsumerFairSpec == ConsumerSpec /\ ConsumerFairness

----------------------------------------------------------------------------
(***************************************************************************)
(* Properties.                                                             *)
(***************************************************************************)
Elems(seq) == {seq[k] : k \in 1..Len(seq)}

InFlight ==
  {held[l] : l \in Loop} \cup Elems(queue)
  \cup {job[w] : w \in {w \in Worker : workerPc[w] \in {"taken", "stamped", "process"}}}

(* No message is lost inside the consumer: what was read from a connection *)
(* is handled, on its way through the queue and the workers, undecodable,  *)
(* or was given up because the loop's context was done.                    *)
ReadAccounted == read \subseteq handled \cup InFlight \cup bad \cup discarded

(* A reconnection asks for no event that was handled, and whose cursor was *)
(* stored, before the loop read its cursor, also when a later store fails, *)
(* a second loop follows the source and dialling takes its time.  With one *)
(* worker: two can store their cursors in the opposite order.              *)
NoReread == \A l \in Loop : held[l] # None => held[l] \notin before[l]

AllDead == \A w \in Worker : workerPc[w] = "dead"

(* What was read is eventually handled, however often connections break,   *)
(* unless undecodable messages have ended every worker; and an event that  *)
(* is ahead of an open connection is eventually handled, unless the        *)
(* connection breaks or is cancelled first, or the pool is dead and the    *)
(* full queue blocks the connection.                                       *)
StreamedIsHandled ==
  /\ \A e \in SourceEvent :
       (e \in InFlight \ bad) ~> (e \in handled \cup discarded \/ AllDead)
  /\ \A l \in Loop : \A t \in 1..MaxCreated :
       (lpc[l] = "read" /\ t \in Ahead(l) /\ <<SourceOf[l], t>> \notin bad) ~>
         (<<SourceOf[l], t>> \in handled \/ AllDead \/ l \in cancelled \/ drops > 0)

(* A source that AddSource takes for "already listening" has a connection  *)
(* loop, however often its connection breaks, unless the loop was started  *)
(* with the context of a request that has ended.                           *)
SourceIsListened ==
  \A s \in sources : \E l \in Loop :
    /\ SourceOf[l] = s
    /\ \/ lpc[l] \notin {"none", "refused", "adding", "ended"}
       \/ lpc[l] = "ended" /\ l \in cancelled

=============================================================================
