----------------------------- MODULE EventFeed -----------------------------
(***************************************************************************)
(* What /events promises a client, without queries, cursors, channels or   *)
(* goroutines: a log that only grows, and for every client a feed of rows  *)
(* of the log, each at most once, never older than the one before it.  A   *)
(* client that connects again starts a new feed.                           *)
(***************************************************************************)
EXTENDS Naturals, Sequences

CONSTANT Client

VARIABLES
  log,  \* rows published so far
  out   \* rows each client has received, in order

Init ==
  /\ log = {}
  /\ out = [c \in Client |-> << >>]

(* One row more, under a number of its own. *)
Publish ==
  /\ \E e \in log' :
       /\ \A f \in log : f.id # e.id
       /\ log' = log \cup {e}
  /\ UNCHANGED out

Connect(c) ==
  /\ out' = [out EXCEPT ![c] = << >>]
  /\ UNCHANGED log

Deliver(c) ==
  /\ \E e \in log :
       /\ \A i \in 1..Len(out[c]) : out[c][i] # e /\ out[c][i].created <= e.created
       /\ out' = [out EXCEPT ![c] = Append(@, e)]
  /\ UNCHANGED log

Next == Publish \/ \E c \in Client : Connect(c) \/ Deliver(c)

Spec == Init /\ [][Next]_<<log, out>>

=============================================================================
