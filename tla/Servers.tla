------------------------------ MODULE Servers ------------------------------
(***************************************************************************)
(* Registration of knots and spindles in the appview: the handlers of      *)
(* appview/knots and appview/spindles, serververify, and the ingesters of  *)
(* the four record types behind them.  Each works on several stores: a     *)
(* transaction of the database, the policies in memory (mem), the policies *)
(* saved in the same database file (disk) and records on the user's PDS,   *)
(* which come back to the ingester through the firehose.                   *)
(*                                                                         *)
(* SQLite lets one connection write: lock is the goroutine whose open      *)
(* transaction has written.  SavePolicy writes too and waits for it;       *)
(* LoadPolicy only reads.  Calls of the enforcer are atomic.               *)
(***************************************************************************)
EXTENDS Integers, Sequences, FiniteSets, Rbac

CONSTANTS
  User,
  Server,     \* hosts, each running a knot or a spindle
  Request,    \* goroutines that serve HTTP requests
  Ingester,   \* the goroutine of the firehose
  Nobody,     \* no goroutine holds the lock
  Fault,      \* subset of {"pds", "db", "save"}: what may fail
  MaxCalls,   \* bound: requests
  MaxWrites,  \* bound: writes of other clients to a PDS
  MaxCrashes, \* bound: restarts of the appview
  MaxMoves    \* bound: changes of a server's configured owner

(* Accounts are DIDs, never the names of the roles. *)
ASSUME ServersAssumption ==
  /\ Owner \notin User
  /\ Ingester \notin Request
  /\ Nobody \notin Request \cup {Ingester}
  /\ MaxCalls \in Nat /\ MaxWrites \in Nat /\ MaxCrashes \in Nat /\ MaxMoves \in Nat

Actor == Request \cup {Ingester}

VARIABLES
  config,    \* what a server runs, who its configuration names as owner,
             \* and whether the appview subscribes to records of its kind
  rows,      \* tables registrations and spindles: <<user, server>> -> state
  members,   \* table spindle_members
  mem,       \* policies in memory
  disk,      \* policies in the acl table
  lock,      \* the writer of the database
  records,   \* records on the PDSs
  feed,      \* firehose events, the first one being ingested
  pc,        \* where each goroutine is
  job,       \* what it is doing
  hurt,      \* history: servers hit by a lost update, a fault or a hand-over
  granted,   \* history: roles whose transaction was committed
  claimed,   \* history: <<user, server>> that a server's configuration named
  calls, writes, moves, crashes  \* history: for the bounds

stores == <<rows, members, mem, disk, lock>>
bounds == <<calls, writes, moves, crashes>>
vars == <<config, stores, records, feed, pc, job, hurt, granted, claimed, bounds>>

(* The ingester handles the records of knots and spindles; state.go names  *)
(* only those of spindles when it subscribes.  A list that names both is   *)
(* considered too.                                                         *)
Config ==
  {c \in [kind : {"knot", "spindle"}, owner : User, heard : BOOLEAN] :
     c.kind = "spindle" => c.heard}

IsKnot(s) == config[s].kind = "knot"

(* The domain of a server in the policies. *)
Domain(s) == <<config[s].kind, s>>

Rkey == 0..(MaxCalls + MaxWrites)

(* TIDs, the keys of member records, are never used twice. *)
NextRkey == calls + writes + 1

(* Members of a spindle have a row; its key is that of the record. *)
MemberRow == [did : User, rkey : Rkey, server : Server, subject : User]

(* A record of a knot or spindle has its host as key, one of a member a TID. *)
Record == [coll : {"server", "member"}, did : User, rkey : Rkey, server : Server,
           subject : User]

Where == {"idle", "begin", "pds", "commit", "save", "verify", "mark", "markcommit",
          "marksave", "invite", "abort", "load", "load2"}

Idle == [op |-> "idle"]

TypeOK ==
  /\ config \in [Server -> Config]
  /\ rows \in [User \X Server -> {"none", "pending", "verified"}]
  /\ members \subseteq MemberRow
  /\ records \subseteq Record
  /\ mem.g \cup disk.g \subseteq (User \cup {Owner}) \X {Owner, Member} \X {Domain(s) : s \in Server}
  /\ mem.p \cup disk.p \subseteq UNION {serverPolicies(Domain(s)) : s \in Server}
  /\ lock \in Actor \cup {Nobody}
  /\ pc \in [Actor -> Where]
  /\ \A a \in Actor : lock = a => pc[a] \in {"pds", "commit", "markcommit"}
  /\ hurt \subseteq Server
  /\ bounds \in (0..MaxCalls) \X (0..MaxWrites) \X (0..MaxMoves) \X (0..MaxCrashes)

Init ==
  /\ config \in [Server -> Config]
  /\ rows = [r \in User \X Server |-> "none"]
  /\ members = {}
  /\ mem = NoPolicies /\ disk = NoPolicies
  /\ lock = Nobody
  /\ records = {} /\ feed = << >>
  /\ pc = [a \in Actor |-> "idle"]
  /\ job = [a \in Actor |-> Idle]
  /\ hurt = {} /\ granted = {}
  /\ claimed = {<<config[s].owner, s>> : s \in Server}
  /\ calls = 0 /\ writes = 0 /\ moves = 0 /\ crashes = 0

(* An ingester that returns is done with the first event. *)
Goto(a, l) ==
  /\ pc' = [pc EXCEPT ![a] = l]
  /\ IF l # "idle" THEN UNCHANGED <<job, feed>>
     ELSE /\ job' = [job EXCEPT ![a] = Idle]
          /\ feed' = IF a = Ingester THEN Tail(feed) ELSE feed

Key(a) == <<job[a].user, job[a].server>>

(* a has changed the policies in memory and not saved them yet. *)
Unsaved(a) ==
  \/ pc[a] \in {"commit", "save", "markcommit", "marksave"}
  \/ pc[a] = "pds" /\ lock = a

ServersOf(as) == {job[a].server : a \in as}

----------------------------------------------------------------------------
(***************************************************************************)
(* Requests.  A handler first reads its row; the later steps use what was  *)
(* read (job.seen).                                                        *)
(***************************************************************************)
Call(a, op, u, s, m, l, k) ==
  /\ a \in Request /\ pc[a] = "idle" /\ calls < MaxCalls
  /\ calls' = calls + 1
  /\ pc' = [pc EXCEPT ![a] = l]
  /\ job' = [job EXCEPT ![a] = [op |-> op, user |-> u, server |-> s, subject |-> m,
                                seen |-> rows[<<u, s>>], rkey |-> k]]
  /\ UNCHANGED <<config, stores, records, feed, hurt, granted, claimed, writes, moves, crashes>>

registerKnot(a, u, s)    == IsKnot(s) /\ Call(a, "register", u, s, u, "begin", 0)
registerSpindle(a, u, s) == ~IsKnot(s) /\ Call(a, "register", u, s, u, "begin", 0)

deleteKnot(a, u, s) ==
  IsKnot(s) /\ rows[<<u, s>>] # "none" /\ Call(a, "delete", u, s, u, "begin", 0)
deleteSpindle(a, u, s) ==
  ~IsKnot(s) /\ rows[<<u, s>>] # "none" /\ Call(a, "delete", u, s, u, "begin", 0)

retryKnot(a, u, s) ==
  IsKnot(s) /\ rows[<<u, s>>] # "none" /\ Call(a, "retry", u, s, u, "verify", 0)
retrySpindle(a, u, s) ==
  ~IsKnot(s) /\ rows[<<u, s>>] # "none" /\ Call(a, "retry", u, s, u, "verify", 0)

(* The knots page writes the record before it touches the policies, and    *)
(* only for a verified knot.                                               *)
addKnotMember(a, u, s, m) ==
  IsKnot(s) /\ rows[<<u, s>>] = "verified" /\ Call(a, "add", u, s, m, "pds", NextRkey)

(* A spindle need not be verified. *)
addSpindleMember(a, u, s, m) ==
  ~IsKnot(s) /\ rows[<<u, s>>] # "none" /\ Call(a, "add", u, s, m, "begin", NextRkey)

Rows(u, s, m) == {r \in members : r.did = u /\ r.server = s /\ r.subject = m}

removeKnotMember(a, u, s, m) ==
  IsKnot(s) /\ rows[<<u, s>>] = "verified" /\ Call(a, "remove", u, s, m, "begin", 0)

(* Without a row of the member only the deferred LoadPolicy runs. *)
removeSpindleMember(a, u, s, m) ==
  /\ ~IsKnot(s) /\ rows[<<u, s>>] # "none"
  /\ \/ \E r \in Rows(u, s, m) : Call(a, "remove", u, s, m, "begin", r.rkey)
     \/ Rows(u, s, m) = {} /\ Call(a, "remove", u, s, m, "load", 0)

(***************************************************************************)
(* The transaction: its statements and the change of the policies.         *)
(***************************************************************************)
TxRows(a) ==
  [rows EXCEPT ![Key(a)] = CASE job[a].op = "register"                -> "pending"
                             [] job[a].op \in {"delete", "uningest"} -> "none"
                             [] OTHER                                -> @]

(* insert or ignore *)
AddRow(u, k, s, m) ==
  members \cup (IF Rows(u, s, m) # {} THEN {}
                ELSE {[did |-> u, rkey |-> k, server |-> s, subject |-> m]})

TxMembers(a) ==
  LET j == job[a] IN
  CASE j.op = "add"      -> AddRow(j.user, j.rkey, j.server, j.subject)
    [] j.op = "remove"   -> members \ Rows(j.user, j.server, j.subject)
    [] j.op = "uninvite" -> {r \in members : r.did # j.user \/ r.rkey # j.rkey}
    [] j.op = "delete" /\ ~IsKnot(j.server) ->
         {r \in members : r.did # j.user \/ r.server # j.server}
    [] OTHER             -> members

(* The server's rules go only if the row that was read was verified. *)
TxPolicies(a) ==
  LET j == job[a] IN
  CASE j.op = "register" -> AddServer(mem, Domain(j.server))
    [] j.op \in {"delete", "uningest"} ->
         IF j.seen = "verified" THEN RemoveServer(mem, Domain(j.server)) ELSE mem
    [] j.op = "add" -> AddMember(mem, Domain(j.server), j.subject)
    [] j.op \in {"remove", "uninvite"} -> RemoveMember(mem, Domain(j.server), j.subject)

(* The row is not what was read, or another verified user loses its role   *)
(* with the server's rules.                                                *)
Overtaken(a) ==
  /\ job[a].op \in {"delete", "uningest"}
  /\ \/ rows[Key(a)] # job[a].seen
     \/ /\ job[a].seen = "verified"
        /\ \E u \in User \ {job[a].user} : rows[<<u, job[a].server>>] = "verified"

(* The insert of a row that exists fails; a knot's members have no rows. *)
Begin(a) ==
  /\ pc[a] = "begin" /\ lock = Nobody
  /\ IF job[a].op = "register" /\ rows[Key(a)] # "none"
     THEN Goto(a, "load") /\ UNCHANGED <<mem, lock, hurt>>
     ELSE /\ mem' = TxPolicies(a)
          /\ hurt' = hurt \cup IF Overtaken(a) THEN {job[a].server} ELSE {}
          /\ IF IsKnot(job[a].server) /\ job[a].op = "remove"
             THEN Goto(a, "save") /\ UNCHANGED lock
             ELSE Goto(a, IF a = Ingester THEN "commit" ELSE "pds") /\ lock' = a
  /\ UNCHANGED <<config, rows, members, disk, records, granted, claimed, bounds>>

(***************************************************************************)
(* Records on the PDS, and the firehose events they cause.                 *)
(***************************************************************************)
ServerRecord(u, s) ==
  [coll |-> "server", did |-> u, rkey |-> 0, server |-> s, subject |-> u]
MemberRecord(u, s, m, k) ==
  [coll |-> "member", did |-> u, rkey |-> k, server |-> s, subject |-> m]

Announce(op, r) ==
  IF config[r.server].heard THEN Append(feed, [op |-> op, rec |-> r]) ELSE feed

(* A record that is there is updated, which no ingester here looks at. *)
PutRecord(r) ==
  /\ records' = records \cup {r}
  /\ feed' = IF r \in records THEN feed ELSE Announce("create", r)

DeleteRecord(r) ==
  /\ records' = records \ {r}
  /\ feed' = IF r \in records THEN Announce("delete", r) ELSE feed

JobRecord(a) ==
  LET j == job[a] IN
  IF j.op \in {"register", "delete"} THEN ServerRecord(j.user, j.server)
  ELSE MemberRecord(j.user, j.server, j.subject, j.rkey)

(* The calls of the PDS.  A failed deletion is not fatal. *)
CallPds(a) ==
  /\ pc[a] = "pds"
  /\ \/ job[a].op \in {"register", "add"} /\ PutRecord(JobRecord(a))
     \/ job[a].op \in {"delete", "remove"} /\ DeleteRecord(JobRecord(a))
     \/ /\ job[a].op \in {"delete", "remove"} /\ "pds" \in Fault
        /\ UNCHANGED <<records, feed>>
  /\ IF IsKnot(job[a].server) /\ job[a].op = "add"
     THEN /\ mem' = TxPolicies(a)
          /\ granted' = granted \cup {<<job[a].subject, Member, Domain(job[a].server)>>}
          /\ pc' = [pc EXCEPT ![a] = "save"]
     ELSE pc' = [pc EXCEPT ![a] = "commit"] /\ UNCHANGED <<mem, granted>>
  /\ UNCHANGED <<config, rows, members, disk, lock, job, hurt, claimed, bounds>>

(* Records that may be written next. *)
Fresh ==
  {ServerRecord(u, s) : u \in User, s \in Server} \cup
  {MemberRecord(u, s, m, NextRkey) : u \in User, s \in Server, m \in User}

(* Another client of the user writes or deletes a record. *)
OtherClient(r) ==
  /\ writes < MaxWrites
  /\ writes' = writes + 1
  /\ PutRecord(r) \/ DeleteRecord(r)
  /\ UNCHANGED <<config, stores, pc, job, hurt, granted, claimed, calls, moves, crashes>>

(***************************************************************************)
(* Rollback and LoadPolicy, the commit and SavePolicy.                     *)
(***************************************************************************)

(* tx.Rollback; the deferred LoadPolicy follows as a step of its own. *)
Abort(a) ==
  /\ \/ pc[a] = "pds" /\ "pds" \in Fault /\ job[a].op \in {"register", "add"}
     \/ pc[a] \in {"commit", "markcommit"} /\ "db" \in Fault
  /\ lock' = IF lock = a THEN Nobody ELSE lock
  /\ IF lock = a /\ job[a].op # "uninvite" THEN Goto(a, "abort") ELSE Goto(a, "idle")
  /\ UNCHANGED <<config, rows, members, mem, disk, records, hurt, granted, claimed, bounds>>

(* Mutant: the policies are not reloaded. *)
LoadPolicy_Skipped(a) ==
  /\ pc[a] \in {"abort", "load", "load2"}
  /\ Goto(a, IF pc[a] = "load2" THEN "load" ELSE "idle")
  /\ UNCHANGED <<config, stores, records, hurt, granted, claimed, bounds>>

(* The deferred LoadPolicy: what others have not saved is lost. *)
LoadPolicy(a) ==
  /\ pc[a] \in {"abort", "load", "load2"}
  /\ mem' = disk
  /\ hurt' = hurt \cup ServersOf({b \in Actor \ {a} : Unsaved(b)})
  /\ Goto(a, IF pc[a] = "load2" THEN "load" ELSE "idle")
  /\ UNCHANGED <<config, rows, members, disk, lock, records, granted, claimed, bounds>>

Commit(a) ==
  /\ pc[a] = "commit"
  /\ rows' = TxRows(a) /\ members' = TxMembers(a)
  /\ granted' = granted \cup IF job[a].op # "add" THEN {}
                             ELSE {<<job[a].subject, Member, Domain(job[a].server)>>}
  /\ lock' = Nobody
  /\ Goto(a, "save")
  /\ UNCHANGED <<config, mem, disk, records, hurt, claimed, bounds>>

(* Where a goroutine goes after SavePolicy. *)
AfterSave(a, ok) ==
  CASE pc[a] = "marksave" -> IF job[a].op = "register" THEN "load2" ELSE "load"
    [] pc[a] = "save" /\ ok /\ job[a].op = "register" -> "verify"
    [] job[a].op = "uninvite" -> "idle"
    [] IsKnot(job[a].server) /\ job[a].op \in {"add", "remove"} -> "idle"
    [] OTHER -> "load"

(* Mutant: the policies live in a file of their own and are not locked. *)
SavePolicy_OwnFile(a) ==
  /\ pc[a] \in {"save", "marksave"}
  /\ disk' = mem
  /\ hurt' = hurt \cup ServersOf({b \in Actor : pc[b] = "abort"})
  /\ Goto(a, AfterSave(a, TRUE))
  /\ UNCHANGED <<config, rows, members, mem, lock, records, granted, claimed, bounds>>

(* Writes whatever is in memory; what an aborted transaction left there    *)
(* and did not reload yet is saved too.                                    *)
SavePolicy(a) ==
  /\ pc[a] \in {"save", "marksave"} /\ lock = Nobody
  /\ disk' = mem
  /\ hurt' = hurt \cup ServersOf({b \in Actor : pc[b] = "abort"})
  /\ Goto(a, AfterSave(a, TRUE))
  /\ UNCHANGED <<config, rows, members, mem, lock, records, granted, claimed, bounds>>

FailSave(a) ==
  /\ pc[a] \in {"save", "marksave"} /\ "save" \in Fault
  /\ hurt' = hurt \cup {job[a].server}
  /\ Goto(a, AfterSave(a, FALSE))
  /\ UNCHANGED <<config, stores, records, granted, claimed, bounds>>

(***************************************************************************)
(* serververify.                                                           *)
(***************************************************************************)

(* Mutant: a server that cannot be reached is taken as verified. *)
RunVerification_Lenient(a) ==
  /\ pc[a] = "verify"
  /\ Goto(a, "mark")
  /\ UNCHANGED <<config, stores, records, hurt, granted, claimed, bounds>>

(* The server names the user as its owner, or it cannot be reached. *)
RunVerification(a) ==
  /\ pc[a] = "verify"
  /\ \/ config[job[a].server].owner = job[a].user /\ Goto(a, "mark")
     \/ Goto(a, IF job[a].op = "register" THEN "load" ELSE "idle")
  /\ UNCHANGED <<config, stores, records, hurt, granted, claimed, bounds>>

(* MarkKnotVerified, MarkSpindleVerified: the update and the policies... *)
MarkVerified(a) ==
  LET s == job[a].server  d == Domain(s) IN
  /\ pc[a] = "mark" /\ lock = Nobody
  /\ lock' = a
  /\ mem' = AddOwner(IF IsKnot(s) THEN AddServer(mem, d) ELSE mem, d, job[a].user)
  /\ hurt' = hurt \cup IF rows[Key(a)] = "none" THEN {s} ELSE {}
  /\ Goto(a, "markcommit")
  /\ UNCHANGED <<config, rows, members, disk, records, granted, claimed, bounds>>

(* ...and the commit.  An update that finds no row is no error. *)
CommitMark(a) ==
  /\ pc[a] = "markcommit"
  /\ rows' = [rows EXCEPT ![Key(a)] = IF @ = "none" THEN "none" ELSE "verified"]
  /\ granted' = granted \cup {<<job[a].user, Owner, Domain(job[a].server)>>}
  /\ lock' = Nobody
  /\ Goto(a, "marksave")
  /\ UNCHANGED <<config, members, mem, disk, records, hurt, claimed, bounds>>

----------------------------------------------------------------------------
(***************************************************************************)
(* The ingester.                                                           *)
(***************************************************************************)
Ingest(op, coll) ==
  /\ pc[Ingester] = "idle" /\ feed # << >>
  /\ Head(feed).op = op /\ Head(feed).rec.coll = coll

StartJob(op, l) ==
  LET r == Head(feed).rec IN
  /\ pc' = [pc EXCEPT ![Ingester] = l]
  /\ job' = [job EXCEPT ![Ingester] =
               [op |-> op, user |-> r.did, server |-> r.server, subject |-> r.subject,
                seen |-> rows[<<r.did, r.server>>], rkey |-> r.rkey]]
  /\ UNCHANGED feed

Refuse == feed' = Tail(feed) /\ UNCHANGED <<pc, job>>

(* ingestKnot and ingestSpindle, create: the row, then verification. *)
ingestServer ==
  LET r == Head(feed).rec IN
  /\ Ingest("create", "server") /\ lock = Nobody
  /\ IF rows[<<r.did, r.server>>] # "none" THEN Refuse /\ UNCHANGED rows
     ELSE StartJob("ingest", "verify") /\ rows' = [rows EXCEPT ![<<r.did, r.server>>] = "pending"]
  /\ UNCHANGED <<config, members, mem, disk, lock, records, hurt, granted, claimed, bounds>>

(* ingestKnot, delete. *)
ingestKnotDelete ==
  LET r == Head(feed).rec IN
  /\ Ingest("delete", "server") /\ IsKnot(r.server)
  /\ IF rows[<<r.did, r.server>>] = "none" THEN Refuse ELSE StartJob("uningest", "begin")
  /\ UNCHANGED <<config, stores, records, hurt, granted, claimed, bounds>>

(* ingestSpindle, delete.  The statement that removes the members names a  *)
(* column the table lacks: it fails.                                       *)
ingestSpindleDelete ==
  LET r == Head(feed).rec IN
  /\ Ingest("delete", "server") /\ ~IsKnot(r.server)
  /\ IF rows[<<r.did, r.server>>] = "none" THEN Refuse ELSE StartJob("uningest", "load")
  /\ UNCHANGED <<config, stores, records, hurt, granted, claimed, bounds>>

(* ingestKnotMember and ingestSpindleMember, create: permission first... *)
ingestMember ==
  LET r == Head(feed).rec IN
  /\ Ingest("create", "member")
  /\ IF isInviteAllowed(mem, r.did, Domain(r.server)) THEN StartJob("invite", "invite") ELSE Refuse
  /\ UNCHANGED <<config, stores, records, hurt, granted, claimed, bounds>>

(* ...then, after the subject is resolved, the row of a spindle's member   *)
(* and the role, which is not saved.                                       *)
Invite ==
  LET j == job[Ingester] IN
  /\ pc[Ingester] = "invite" /\ lock = Nobody
  /\ members' = IF IsKnot(j.server) THEN members
                ELSE AddRow(j.user, j.rkey, j.server, j.subject)
  /\ mem' = AddMember(mem, Domain(j.server), j.subject)
  /\ granted' = granted \cup {<<j.subject, Member, Domain(j.server)>>}
  /\ Goto(Ingester, "idle")
  /\ UNCHANGED <<config, rows, disk, lock, records, hurt, claimed, bounds>>

(* The deletion of a knot's member is skipped... *)
ingestKnotMemberDelete ==
  /\ Ingest("delete", "member") /\ IsKnot(Head(feed).rec.server)
  /\ Refuse
  /\ UNCHANGED <<config, stores, records, hurt, granted, claimed, bounds>>

(* ...a spindle's row is looked up by the key of the record. *)
ingestSpindleMemberDelete ==
  LET r == Head(feed).rec IN
  /\ Ingest("delete", "member") /\ ~IsKnot(r.server)
  /\ IF \E q \in members : q.did = r.did /\ q.rkey = r.rkey
     THEN StartJob("uninvite", "begin") ELSE Refuse
  /\ UNCHANGED <<config, stores, records, hurt, granted, claimed, bounds>>

(***************************************************************************)
(* The appview restarts: policies are loaded, open transactions are gone,  *)
(* the event that was being ingested comes again.                          *)
(***************************************************************************)
Crash ==
  /\ crashes < MaxCrashes
  /\ crashes' = crashes + 1
  /\ hurt' = hurt \cup ServersOf({a \in Actor : pc[a] \in {"save", "marksave"}})
  /\ mem' = disk /\ lock' = Nobody
  /\ pc' = [a \in Actor |-> "idle"]
  /\ job' = [a \in Actor |-> Idle]
  /\ UNCHANGED <<config, rows, members, disk, records, feed, granted, claimed, calls, writes, moves>>

(* The operator of a server changes the owner in its configuration. *)
Move(s, u) ==
  /\ moves < MaxMoves /\ config[s].owner # u
  /\ moves' = moves + 1
  /\ config' = [config EXCEPT ![s].owner = u]
  /\ claimed' = claimed \cup {<<u, s>>}
  /\ UNCHANGED <<stores, records, feed, pc, job, hurt, granted, calls, writes, crashes>>

----------------------------------------------------------------------------
Requests(a) ==
  \E u \in User, s \in Server :
    \/ registerKnot(a, u, s) \/ registerSpindle(a, u, s)
    \/ deleteKnot(a, u, s) \/ deleteSpindle(a, u, s)
    \/ retryKnot(a, u, s) \/ retrySpindle(a, u, s)
    \/ \E m \in User \ {u} :
         \/ addKnotMember(a, u, s, m) \/ addSpindleMember(a, u, s, m)
         \/ removeKnotMember(a, u, s, m) \/ removeSpindleMember(a, u, s, m)

Step(a) ==
  \/ Begin(a) \/ CallPds(a) \/ Abort(a) \/ LoadPolicy(a) \/ Commit(a) \/ SavePolicy(a)
  \/ FailSave(a) \/ RunVerification(a) \/ MarkVerified(a) \/ CommitMark(a)

Next ==
  \/ \E a \in Request : Requests(a)
  \/ \E a \in Actor : Step(a)
  \/ ingestServer \/ ingestKnotDelete \/ ingestSpindleDelete
  \/ ingestMember \/ Invite \/ ingestKnotMemberDelete \/ ingestSpindleMemberDelete
  \/ \E u \in User, s \in Server : Move(s, u)
  \/ \E r \in records \cup Fresh : OtherClient(r)
  \/ Crash

Spec == Init /\ [][Next]_vars

----------------------------------------------------------------------------
(***************************************************************************)
(* Properties.                                                             *)
(***************************************************************************)
Owns(pol, u, s) == <<u, Owner, Domain(s)>> \in pol.g

Quiet(s) == \A a \in Actor : pc[a] # "idle" => job[a].server # s

(* The policies follow the rows: while no goroutine works on a server, its *)
(* verified users and nobody else own it, in memory and on disk, whatever  *)
(* failed and was rolled back on other servers or on this one.  The        *)
(* exceptions are the ones hurt collects: a LoadPolicy between another     *)
(* goroutine's change and its save, a SavePolicy between a rollback and    *)
(* its reload, a failed save, a crash between commit and save, a row that  *)
(* changed after it was read, and a server with two verified users.        *)
PoliciesFollowRows ==
  \A u \in User, s \in Server :
    Quiet(s) /\ s \notin hurt =>
      /\ Owns(mem, u, s) <=> rows[<<u, s>>] = "verified"
      /\ Owns(disk, u, s) <=> rows[<<u, s>>] = "verified"

(* No role reaches the disk whose transaction was not committed, apart     *)
(* from the same exceptions: SavePolicy cannot run inside another          *)
(* goroutine's transaction.                                                *)
SavedWasCommitted ==
  \A r \in disk.g : r[1] \in User /\ r[3][2] \notin hurt => r \in granted

(* Nobody ever owns a server whose configuration never named them.         *)
OwnersWereNamed ==
  \A r \in mem.g \cup disk.g :
    r[1] \in User /\ r[2] = Owner => <<r[1], r[3][2]>> \in claimed

=============================================================================
