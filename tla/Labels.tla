------------------------------- MODULE Labels -------------------------------
(***************************************************************************)
(* The labels of one issue.  Nothing stores them: they are the fold of the *)
(* label operations of all users, sorted by time (models/label.go).  A     *)
(* save (labels/labels.go, PerformLabelOp) turns the panel's new state     *)
(* into operations, writes them to the PDS as one record and to the table  *)
(* one by one; the ingester stores the operations of every record again.   *)
(*                                                                         *)
(* Times are stored in seconds.  The sort is stable up to twelve           *)
(* operations (slices.SortFunc), the bounds keep below that.  An empty     *)
(* value is turned into the deletion of "", which changes nothing: the     *)
(* panel here leaves the label out.                                        *)
(***************************************************************************)
EXTENDS Integers, Sequences, FiniteSets, SequencesExt

CONSTANTS
  Label,      \* label definitions
  Multiple,   \* those that take several values
  Value,      \* valid values
  Request,    \* goroutines that serve HTTP requests
  MaxClock,   \* bound: seconds
  MaxRecords, \* bound: saves and records of other clients
  MaxUpsets   \* bound: failed calls, replays of the firehose, changes of
              \* definitions and subscriptions

ASSUME LabelsAssumption ==
  /\ Multiple \subseteq Label
  /\ IsFiniteSet(Label) /\ IsFiniteSet(Value)
  /\ MaxClock \in Nat \ {0} /\ MaxRecords \in Nat /\ MaxUpsets \in Nat

VARIABLES
  clock,       \* the time, in seconds
  defs,        \* label_definitions
  subscribed,  \* repo_labels
  table,       \* label_ops, by rowid
  log,         \* the firehose: records of operations
  pos,         \* the next one to ingest
  pc, job,     \* where each save is, and its operations
  panel,       \* the state a save was asked for
  calm,        \* history: nobody else touched labels since the save read them
  plain,       \* history: no record, definition or event was lost or refused
  records, upsets  \* history: for the bounds

content == <<defs, subscribed, table>>
bounds  == <<records, upsets>>
labelsVars    == <<clock, content, log, pos, pc, job, panel, calm, plain, bounds>>

Time  == 1..MaxClock
Rkey  == 1..MaxRecords

Op    == [op : {"add", "del"}, key : Label, val : Value]
LabelOp   == [rkey : Rkey, op : Op, performed : 1..(MaxClock + 1), indexed : Time]

(* The labels of the issue: a set of values per label. *)
State == [Label -> SUBSET Value]
Empty == [l \in Label |-> {}]

(* A panel has the labels of the repository, and one value of a label that *)
(* does not take several.                                                  *)
Panels == {s \in State : \A l \in Label :
             /\ s[l] # {} => l \in defs \cap subscribed
             /\ l \notin Multiple => Cardinality(s[l]) <= 1}

Rest == [rkey |-> 0, ops |-> << >>, performed |-> 0]

LabelsTypeOK ==
  /\ clock \in Time
  /\ defs \subseteq Label /\ subscribed \subseteq Label
  /\ table \in Seq(LabelOp)
  /\ \A i, j \in 1..Len(table) :
       /\ table[i].rkey = table[j].rkey /\ table[i].op.key = table[j].op.key
       /\ table[i].op.val = table[j].op.val
       => i = j
  /\ \A i \in 1..Len(table) : table[i].op.key \in defs
  /\ log \in Seq([rkey : Rkey, ops : Seq(Op), performed : 1..(MaxClock + 1)])
  /\ pos \in 1..(Len(log) + 1)
  /\ pc \in [Request -> {"idle", "put", "insert", "undo", "done"}]
  /\ panel \in [Request -> State]
  /\ calm \in [Request -> BOOLEAN] /\ plain \in BOOLEAN
  /\ bounds \in (0..MaxRecords) \X (0..MaxUpsets)

LabelsInit ==
  /\ clock = 1
  /\ defs \in {{l} : l \in Label} /\ subscribed \in SUBSET defs
  /\ table = << >> /\ log = << >> /\ pos = 1
  /\ pc = [a \in Request |-> "idle"] /\ job = [a \in Request |-> Rest]
  /\ panel = [a \in Request |-> Empty]
  /\ calm = [a \in Request |-> TRUE] /\ plain = TRUE
  /\ records = 0 /\ upsets = 0

----------------------------------------------------------------------------
(***************************************************************************)
(* The algebra of operations: models/label.go.                             *)
(***************************************************************************)

(* Mutant: always the time of indexing. *)
SortAt_Indexed(r) == r.indexed

(* A time in the future is replaced by the time of indexing. *)
SortAt(r) == IF r.performed <= r.indexed THEN r.performed ELSE r.indexed

ApplyLabelOp(known, s, o) ==
  IF o.key \notin known THEN s
  ELSE IF o.op = "del" THEN [s EXCEPT ![o.key] = @ \ {o.val}]
  ELSE IF o.val \in s[o.key] THEN s
  ELSE [s EXCEPT ![o.key] = IF o.key \in Multiple THEN @ \cup {o.val} ELSE {o.val}]

NoOp(s, o) == IF o.op = "add" THEN o.val \in s[o.key] ELSE o.val \notin s[o.key]

ApplyAll(known, s, ops) ==
  LET at[k \in 0..Len(ops)] == IF k = 0 THEN s ELSE ApplyLabelOp(known, at[k - 1], ops[k])
  IN  at[Len(ops)]

(* GetLabelOps orders by the second of indexing, then the sort is stable. *)
Before(i, j) ==
  \/ SortAt(table[i]) < SortAt(table[j])
  \/ SortAt(table[i]) = SortAt(table[j]) /\ table[i].indexed < table[j].indexed
  \/ SortAt(table[i]) = SortAt(table[j]) /\ table[i].indexed = table[j].indexed /\ i < j

ApplyLabelOps(known) ==
  LET rows == 1..Len(table)
      Rank(i) == Cardinality({j \in rows : Before(j, i)}) + 1
      Nth(k) == CHOOSE i \in rows : Rank(i) = k
  IN  ApplyAll(known, Empty, [k \in rows |-> table[Nth(k)].op])

(* GetLabels: what the pages show. *)
Shown == ApplyLabelOps(defs)

(* Mutant: the value is not compared. *)
IsInverse_AnyValue(o, p) == o.key = p.key /\ o.op # p.op

IsInverse(o, p) == o.key = p.key /\ o.val = p.val /\ o.op # p.op

(* The elements of q at the positions K. *)
Keep(q, K) ==
  LET at[k \in 0..Len(q)] ==
        IF k = 0 THEN << >> ELSE IF k \in K THEN Append(at[k - 1], q[k]) ELSE at[k - 1]
  IN  at[Len(q)]

(* Each operation cancels the first inverse one after it. *)
ReduceLabelOps(ops) ==
  LET kept[i \in 0..Len(ops)] ==
        IF i = 0 THEN 1..Len(ops)
        ELSE LET left == kept[i - 1]
                 js == {j \in left : j > i /\ IsInverse(ops[i], ops[j])}
             IN  IF i \notin left \/ js = {} THEN left
                 ELSE left \ {i, CHOOSE j \in js : \A k \in js : j <= k}
  IN  Keep(ops, kept[Len(ops)])

(* The operations of a state, key by key. *)
Ops(op, s) ==
  SetToSeq({[op |-> op, key |-> p[1], val |-> p[2]] :
              p \in {q \in Label \X Value : q[2] \in s[q[1]]}})

(* PerformLabelOp: delete everything, add what the panel has, reduce, and  *)
(* leave out what changes nothing.                                         *)
Diff(known, s, want) ==
  LET ops == ReduceLabelOps(Ops("del", s) \o Ops("add", want))
      at[k \in 0..Len(ops)] ==
        IF k = 0 THEN [s |-> s, ops |-> << >>]
        ELSE LET x == at[k - 1]
             IN  [s   |-> ApplyLabelOp(known, x.s, ops[k]),
                  ops |-> IF NoOp(x.s, ops[k]) THEN x.ops ELSE Append(x.ops, ops[k])]
  IN  at[Len(ops)].ops

----------------------------------------------------------------------------
(***************************************************************************)
(* AddLabelOp: insert, on conflict update.                                 *)
(***************************************************************************)
Same(r, k, o) == r.rkey = k /\ r.op.key = o.key /\ r.op.val = o.val

AddLabelOp(t, k, o, performed) ==
  LET row == [rkey |-> k, op |-> o, performed |-> performed, indexed |-> clock]
      at  == {i \in 1..Len(t) : Same(t[i], k, o)}
  IN  IF at = {} THEN Append(t, row)
      ELSE [i \in 1..Len(t) |-> IF i \in at THEN row ELSE t[i]]

Goto(a, l) ==
  /\ pc' = [pc EXCEPT ![a] = l]
  /\ IF l = "idle" THEN /\ job' = [job EXCEPT ![a] = Rest]
                        /\ panel' = [panel EXCEPT ![a] = Empty]
                        /\ calm' = [calm EXCEPT ![a] = TRUE]
     ELSE UNCHANGED panel

(* Other saves no longer work on what they have read. *)
Disturb(as) == calm' = [b \in Request |-> calm[b] /\ (b \notin as \/ pc[b] = "idle")]

Upset == upsets < MaxUpsets /\ upsets' = upsets + 1 /\ UNCHANGED records

Tick ==
  /\ clock < MaxClock
  /\ clock' = clock + 1
  /\ UNCHANGED <<content, log, pos, pc, job, panel, calm, plain, bounds>>

(* PerformLabelOp up to the call of the PDS. *)
PerformLabelOp(a, want) ==
  LET known == defs \cap subscribed
      ops == Diff(known, ApplyLabelOps(known), want)
  IN
  /\ pc[a] = "idle" /\ records < MaxRecords
  /\ records' = records + 1
  /\ job' = [job EXCEPT ![a] = [rkey |-> records + 1, ops |-> ops, performed |-> clock]]
  /\ panel' = [panel EXCEPT ![a] = want]
  /\ pc' = [pc EXCEPT ![a] = IF ops = << >> THEN "done" ELSE "put"]
  /\ UNCHANGED <<clock, content, log, pos, calm, plain, upsets>>

(* LabelOpsAsRecord and LabelOpsFromRecord: deletions first. *)
AsRecord(j) ==
  LET Only(op) == Keep(j.ops, {k \in 1..Len(j.ops) : j.ops[k].op = op})
  IN  [rkey |-> j.rkey, performed |-> j.performed, ops |-> Only("del") \o Only("add")]

RepoPutRecord(a) ==
  /\ pc[a] = "put"
  /\ \/ /\ log' = Append(log, AsRecord(job[a]))
        /\ Goto(a, "insert")
        /\ UNCHANGED <<job, calm, bounds>>
     \/ /\ Upset
        /\ Goto(a, "idle")
        /\ UNCHANGED log
  /\ UNCHANGED <<clock, content, pos, plain>>

(* The insertions are not part of the transaction: those before a failed   *)
(* one stay.  A definition deleted meanwhile fails the foreign key.        *)
InsertOp(a) ==
  LET j == job[a]
      o == Head(j.ops)
  IN
  /\ pc[a] = "insert"
  /\ \/ /\ o.key \in defs
        /\ table' = AddLabelOp(table, j.rkey, o, j.performed)
        /\ job' = [job EXCEPT ![a].ops = Tail(@)]
        /\ Goto(a, IF Len(j.ops) = 1 THEN "done" ELSE "insert")
        /\ Disturb(Request \ {a})
        /\ UNCHANGED <<plain, bounds>>
     \/ /\ o.key \notin defs
        /\ Goto(a, "undo")
        /\ UNCHANGED <<table, job, calm, plain, bounds>>
     \/ /\ Upset
        /\ Goto(a, "undo")
        /\ UNCHANGED <<table, job, calm, plain>>
  /\ UNCHANGED <<clock, defs, subscribed, log, pos>>

(* rollbackRecord: the ingester ignores the deletion of a record. *)
rollbackRecord(a) ==
  /\ pc[a] = "undo"
  /\ Goto(a, "idle")
  /\ UNCHANGED <<clock, content, log, pos, plain, bounds>>

HxRefresh(a) ==
  /\ pc[a] = "done"
  /\ Goto(a, "idle")
  /\ UNCHANGED <<clock, content, log, pos, plain, bounds>>

(***************************************************************************)
(* ingestLabelOp.                                                          *)
(***************************************************************************)
ingestLabelOp ==
  LET e == log[pos]
      known == \A i \in 1..Len(e.ops) : e.ops[i].key \in defs \cap subscribed
      stored[k \in 0..Len(e.ops)] ==
        IF k = 0 THEN table ELSE AddLabelOp(stored[k - 1], e.rkey, e.ops[k], e.performed)
  IN
  /\ pos <= Len(log)
  /\ pos' = pos + 1
  /\ \/ /\ known
        /\ table' = stored[Len(e.ops)]
        /\ Disturb({b \in Request : job[b].rkey # e.rkey})
        /\ UNCHANGED <<plain, bounds>>
     \/ /\ ~known
        /\ plain' = FALSE
        /\ UNCHANGED <<table, calm, bounds>>
     \/ /\ Upset
        /\ plain' = FALSE
        /\ UNCHANGED <<table, calm>>
  /\ UNCHANGED <<clock, defs, subscribed, log, pc, job, panel>>

(* Events are delivered again after a lost connection or a restart, which  *)
(* also ends the saves.                                                    *)
Replay(from) ==
  /\ Upset
  /\ pos' = from
  /\ pc' = [a \in Request |-> "idle"] /\ job' = [a \in Request |-> Rest]
  /\ panel' = [a \in Request |-> Empty] /\ calm' = [a \in Request |-> TRUE]
  /\ UNCHANGED <<clock, content, log, plain>>

(* Another client writes a record, with a time of its own. *)
OtherClient(o, performed) ==
  /\ records < MaxRecords
  /\ records' = records + 1
  /\ log' = Append(log, [rkey |-> records + 1, ops |-> <<o>>, performed |-> performed])
  /\ UNCHANGED <<clock, content, pos, pc, job, panel, calm, plain, upsets>>

(***************************************************************************)
(* Definitions and subscriptions, as far as the tables go.                 *)
(***************************************************************************)
Edited ==
  /\ Upset
  /\ Disturb(Request)
  /\ UNCHANGED <<clock, log, pos, pc, job, panel>>

(* The operations of the label go with it. *)
DeleteLabelDef(l) ==
  /\ Edited
  /\ defs' = defs \ {l} /\ subscribed' = subscribed \ {l}
  /\ table' = Keep(table, {i \in 1..Len(table) : table[i].op.key # l})
  /\ plain' = FALSE

AddLabelDef(l) ==
  /\ Edited
  /\ defs' = defs \cup {l} /\ subscribed' = subscribed \cup {l}
  /\ UNCHANGED <<table, plain>>

SubscribeLabel(l) ==
  /\ Edited
  /\ subscribed' = subscribed \cup {l}
  /\ UNCHANGED <<defs, table, plain>>

UnsubscribeLabel(l) ==
  /\ Edited
  /\ subscribed' = subscribed \ {l}
  /\ UNCHANGED <<defs, table, plain>>

LabelsNext ==
  \/ Tick
  \/ \E a \in Request :
       \/ \E want \in Panels : PerformLabelOp(a, want)
       \/ RepoPutRecord(a) \/ InsertOp(a) \/ rollbackRecord(a) \/ HxRefresh(a)
  \/ ingestLabelOp
  \/ \E from \in 1..(pos - 1) : Replay(from)
  \/ \E o \in {p \in Op : p.key \in defs}, t \in clock..(clock + 1) : OtherClient(o, t)
  \/ \E l \in defs : DeleteLabelDef(l)
  \/ \E l \in Label \ defs : AddLabelDef(l)
  \/ \E l \in defs \ subscribed : SubscribeLabel(l)
  \/ \E l \in subscribed : UnsubscribeLabel(l)

LabelsSpec == LabelsInit /\ [][LabelsNext]_labelsVars

----------------------------------------------------------------------------
(***************************************************************************)
(* Properties.                                                             *)
(***************************************************************************)

(* A save shows what was saved: when the handler is done and nobody else   *)
(* touched the labels since it read them, the issue shows the panel's      *)
(* state, wherever the seconds, the ingestion of earlier records and the   *)
(* reduction of the operations fall.                                       *)
SaveIsShown ==
  \A a \in Request : pc[a] = "done" /\ calm[a] =>
    \A l \in defs \cap subscribed : Shown[l] = panel[a][l]

(* The fold of the records in the order they were performed. *)
Reference ==
  LET Earlier(i) == Cardinality({j \in 1..Len(log) : log[j].performed < log[i].performed})
      Nth(k) == CHOOSE i \in 1..Len(log) : Earlier(i) + 1 = k
      at[k \in 0..Len(log)] ==
        IF k = 0 THEN Empty ELSE ApplyAll(defs, at[k - 1], log[Nth(k)].ops)
  IN  at[Len(log)]

(* Labels converge: once every record is ingested and no save is running,  *)
(* what is shown depends only on the records and their times, not on the   *)
(* order in which handlers and ingester stored them, nor on events that    *)
(* came twice or on saves that failed half way.  Records performed in one  *)
(* second, or dated in the future, have no order of their own.             *)
LabelsConverge ==
  ( /\ plain /\ pos = Len(log) + 1
    /\ \A a \in Request : pc[a] = "idle"
    /\ \A i, j \in 1..Len(log) : log[i].performed = log[j].performed => i = j
    /\ \A i \in 1..Len(table) : table[i].performed <= table[i].indexed )
  => Shown = Reference

=============================================================================
