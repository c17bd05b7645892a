--------------------------- MODULE ServersProofs ---------------------------
(***************************************************************************)
(* Proofs, for any number of users, servers, requests and faults, that     *)
(* nobody ever owns a server in the policies, in memory or on disk, whose  *)
(* configuration never named them; that no role reaches the disk whose     *)
(* transaction was not committed; and that the owners the policies name    *)
(* are the verified users of the tables.                                   *)
(***************************************************************************)
EXTENDS Servers, SequenceTheorems, TLAPS

IsPolicy(pol) == pol = [p |-> pol.p, g |-> pol.g]

(* AddGroupingPolicy adds one rule and changes no other. *)
LEMMA GroupingAdds ==
  ASSUME NEW pol, IsPolicy(pol), NEW u, NEW role, NEW d
  PROVE  AddGroupingPolicy(pol, u, role, d) = [p |-> pol.p, g |-> pol.g \cup {<<u, role, d>>}]
BY DEF IsPolicy, AddGroupingPolicy

(***************************************************************************)
(* The inductive invariant.                                                *)
(***************************************************************************)
SomeRecord ==
  [coll : {"server", "member"}, did : User, rkey : Nat, server : Server, subject : User]

SomeEvent == [op : {"create", "delete"}, rec : SomeRecord]

Types ==
  /\ config \in [Server -> Config]
  /\ pc \in [Actor -> Where]
  /\ DOMAIN job = Actor
  /\ records \subseteq SomeRecord
  /\ feed \in Seq(SomeEvent)
  /\ calls \in Nat /\ writes \in Nat

TxOps == {"register", "delete", "uningest", "add", "remove", "uninvite"}

(* A goroutine works on a server, for a user; one that begins a            *)
(* transaction has a case in it.                                           *)
JobOK(a) ==
  /\ pc[a] # "idle" =>
       /\ job[a].user \in User /\ job[a].server \in Server /\ job[a].subject \in User
       /\ job[a].op = "add" => job[a].rkey \in Nat
  /\ pc[a] = "begin" => job[a].op \in TxOps

(* The ingester works on the first event. *)
FeedOK == pc[Ingester] # "idle" => feed # << >>

(* What the configurations say is remembered, and a verification that      *)
(* succeeded found it.                                                     *)
ClaimOK == \A s \in Server : <<config[s].owner, s>> \in claimed
MarkOK(a) == pc[a] = "mark" => <<job[a].user, job[a].server>> \in claimed

Control == Types /\ FeedOK /\ ClaimOK /\ \A a \in Actor : JobOK(a) /\ MarkOK(a)

Named(pol, c) ==
  \A r \in pol.g : r[1] \in User /\ r[2] = Owner => <<r[1], r[3][2]>> \in c

PolicyOK(pol, c) == IsPolicy(pol) /\ Named(pol, c)

IInv == Control /\ PolicyOK(mem, claimed) /\ PolicyOK(disk, claimed)

----------------------------------------------------------------------------
(***************************************************************************)
(* What the operations of Rbac do to the owners.                           *)
(***************************************************************************)

(* Adding a role other than that of the owner names no new owner. *)
LEMMA MemberNamed ==
  ASSUME NEW pol, NEW c, PolicyOK(pol, c), NEW u, NEW d
  PROVE  PolicyOK(AddGroupingPolicy(pol, u, Member, d), c)
BY DEF PolicyOK, IsPolicy, Named, AddGroupingPolicy, Owner, Member

LEMMA RulesNamed ==
  ASSUME NEW pol, NEW c, PolicyOK(pol, c), NEW rules
  PROVE  PolicyOK(AddPolicies(pol, rules), c)
BY DEF PolicyOK, IsPolicy, Named, AddPolicies

LEMMA RemoveNamed ==
  ASSUME NEW pol, NEW c, PolicyOK(pol, c), NEW u, NEW d
  PROVE  PolicyOK(RemoveGroupingPolicy(pol, u, Member, d), c)
BY DEF PolicyOK, IsPolicy, Named, RemoveGroupingPolicy

LEMMA DeleteNamed ==
  ASSUME NEW pol, NEW c, PolicyOK(pol, c), NEW d
  PROVE  PolicyOK(DeleteDomains(pol, d), c)
BY DEF PolicyOK, IsPolicy, Named, DeleteDomains

LEMMA AddServerNamed ==
  ASSUME NEW pol, NEW c, PolicyOK(pol, c), NEW d
  PROVE  PolicyOK(AddServer(pol, d), c)
BY RulesNamed, MemberNamed DEF AddServer

(* An owner is added who was named. *)
LEMMA OwnerNamed ==
  ASSUME NEW pol, NEW c, PolicyOK(pol, c), NEW u, NEW k, NEW s, <<u, s>> \in c
  PROVE  PolicyOK(AddOwner(pol, <<k, s>>, u), c)
<1> DEFINE new == <<u, Owner, <<k, s>>>>
           q == AddOwner(pol, <<k, s>>, u)
<1>1. q = [p |-> pol.p, g |-> pol.g \cup {new}]
  BY GroupingAdds DEF PolicyOK, AddOwner
<1>2. new[1] = u /\ new[3][2] = s
  OBVIOUS
<1>3. IsPolicy(q)
  BY <1>1 DEF IsPolicy
<1>4. ASSUME NEW r \in q.g, r[1] \in User, r[2] = Owner  PROVE <<r[1], r[3][2]>> \in c
  <2>1. r \in pol.g \/ r = new
    BY <1>1, <1>4
  <2> HIDE DEF new, q
  <2>2. QED
    BY <2>1, <1>2, <1>4 DEF PolicyOK, Named
<1>5. QED
  BY <1>3, <1>4 DEF PolicyOK, Named

(* Every transaction's change of the policies names no new owner. *)
LEMMA TxNamed ==
  ASSUME NEW a, PolicyOK(mem, claimed), job[a].op \in TxOps
  PROVE  PolicyOK(TxPolicies(a), claimed)
<1>1. CASE job[a].op = "register"
  BY <1>1, AddServerNamed DEF TxPolicies
<1>2. CASE job[a].op \in {"delete", "uningest"}
  BY <1>2, DeleteNamed DEF TxPolicies, RemoveServer
<1>3. CASE job[a].op = "add"
  BY <1>3, MemberNamed DEF TxPolicies, AddMember
<1>4. CASE job[a].op \in {"remove", "uninvite"}
  BY <1>4, RemoveNamed DEF TxPolicies, RemoveMember
<1>5. QED
  BY <1>1, <1>2, <1>3, <1>4 DEF TxOps

----------------------------------------------------------------------------
(***************************************************************************)
(* What keeps Control.                                                     *)
(***************************************************************************)
LEMMA FeedTail ==
  ASSUME feed \in Seq(SomeEvent), feed # << >>
  PROVE  /\ Tail(feed) \in Seq(SomeEvent)
         /\ Head(feed) \in SomeEvent
BY HeadTailProperties

(* A goroutine goes on with its job, or ends it. *)
LEMMA GotoControl ==
  ASSUME Control, NEW a \in Actor, NEW l \in Where \ {"begin"}, pc[a] # "idle", Goto(a, l),
         l = "mark" => <<job[a].user, job[a].server>> \in claimed,
         UNCHANGED <<config, records, claimed, calls, writes>>
  PROVE  Control'
<1>1. /\ pc' = [pc EXCEPT ![a] = l]
      /\ job' = job \/ (l = "idle" /\ job' = [job EXCEPT ![a] = Idle])
      /\ feed' = feed \/ (l = "idle" /\ a = Ingester /\ feed' = Tail(feed))
  BY DEF Goto
<1>2. Types'
  BY <1>1, FeedTail DEF Control, Types, FeedOK
<1>3. FeedOK'
  BY <1>1, ServersAssumption DEF Control, Types, FeedOK, Actor
<1>4. ClaimOK'
  BY DEF Control, ClaimOK
<1>5. \A b \in Actor : JobOK(b)' /\ MarkOK(b)'
  <2> SUFFICES ASSUME NEW b \in Actor PROVE JobOK(b)' /\ MarkOK(b)'
    OBVIOUS
  <2>1. CASE b = a
    BY <2>1, <1>1 DEF Control, Types, JobOK, MarkOK
  <2>2. CASE b # a
    BY <2>2, <1>1 DEF Control, Types, JobOK, MarkOK
  <2>3. QED
    BY <2>1, <2>2
<1>6. QED
  BY <1>2, <1>3, <1>4, <1>5 DEF Control

(* A step that changes neither the policies nor what was claimed. *)
LEMMA PoliciesKept ==
  ASSUME IInv, Control', UNCHANGED <<mem, disk, claimed>>
  PROVE  IInv'
BY DEF IInv

(* A job with a user and a server begins: a request's or the ingester's. *)
LEMMA StartControl ==
  ASSUME Control, NEW a \in Actor, NEW l \in Where \ {"mark"},
         NEW j, j.user \in User, j.server \in Server, j.subject \in User,
         j.op = "add" => j.rkey \in Nat,
         l = "begin" => j.op \in TxOps,
         pc' = [pc EXCEPT ![a] = l], job' = [job EXCEPT ![a] = j],
         a = Ingester => feed # << >>,
         calls' \in Nat, UNCHANGED <<config, records, feed, claimed, writes>>
  PROVE  Control'
<1>1. Types' /\ ClaimOK'
  BY DEF Control, Types, ClaimOK
<1>2. FeedOK'
  BY ServersAssumption DEF Control, Types, FeedOK, Actor
<1>3. \A b \in Actor : JobOK(b)' /\ MarkOK(b)'
  <2> SUFFICES ASSUME NEW b \in Actor PROVE JobOK(b)' /\ MarkOK(b)'
    OBVIOUS
  <2>1. CASE b = a
    BY <2>1 DEF Control, Types, JobOK, MarkOK
  <2>2. CASE b # a
    BY <2>2 DEF Control, Types, JobOK, MarkOK
  <2>3. QED
    BY <2>1, <2>2
<1>4. QED
  BY <1>1, <1>2, <1>3 DEF Control

(* Records that are written or deleted have their type, and so have the    *)
(* events; none of the events that wait is lost.                           *)
LEMMA RecordsTyped ==
  ASSUME Types, NEW r, (r \in SomeRecord /\ PutRecord(r)) \/ DeleteRecord(r)
  PROVE  /\ records' \subseteq SomeRecord
         /\ feed' \in Seq(SomeEvent)
         /\ feed # << >> => feed' # << >>
<1> DEFINE grown(op) == Append(feed, [op |-> op, rec |-> r])
<1>1. ASSUME NEW op \in {"create", "delete"}, r \in SomeRecord
      PROVE  grown(op) \in Seq(SomeEvent) /\ grown(op) # << >>
  <2>1. [op |-> op, rec |-> r] \in SomeEvent
    BY <1>1 DEF SomeEvent
  <2>2. QED
    BY <2>1, AppendProperties DEF Types
<1>2. feed' = feed \/ (r \in SomeRecord /\ feed' \in {grown("create"), grown("delete")})
  BY DEF PutRecord, DeleteRecord, Announce, Types
<1>3. records' \subseteq SomeRecord
  BY DEF PutRecord, DeleteRecord, Types
<1> HIDE DEF grown
<1>4. QED
  BY <1>1, <1>2, <1>3 DEF Types

----------------------------------------------------------------------------
(***************************************************************************)
(* The actions.                                                            *)
(***************************************************************************)

(* Everything starts idle, with no policies and each server's owner named. *)
LEMMA InitInv == Init => IInv
<1> SUFFICES ASSUME Init PROVE IInv
  OBVIOUS
<1>1. Types
  BY DEF Init, Types, Where
<1>2. FeedOK /\ \A a \in Actor : JobOK(a) /\ MarkOK(a)
  BY DEF Init, FeedOK, JobOK, MarkOK, Actor
<1>3. ClaimOK
  BY DEF Init, ClaimOK
<1>4. PolicyOK(mem, claimed) /\ PolicyOK(disk, claimed)
  BY DEF Init, PolicyOK, IsPolicy, Named, NoPolicies
<1>5. QED
  BY <1>1, <1>2, <1>3, <1>4 DEF IInv, Control

(* A request begins. *)
LEMMA CallInv ==
  ASSUME IInv, NEW a \in Request, NEW op, NEW u \in User, NEW s \in Server,
         NEW m \in User, NEW l \in {"begin", "verify", "pds", "load"}, NEW k,
         op = "add" => k \in Nat, l = "begin" => op \in TxOps, Call(a, op, u, s, m, l, k)
  PROVE  IInv'
<1> DEFINE j == [op |-> op, user |-> u, server |-> s, subject |-> m,
                 seen |-> rows[<<u, s>>], rkey |-> k]
<1>1. /\ a \in Actor /\ a # Ingester
      /\ l \in Where \ {"mark"}
  BY ServersAssumption DEF Actor, Where
<1>2. /\ j.user \in User /\ j.server \in Server /\ j.subject \in User
      /\ j.rkey = k /\ j.op = op
  OBVIOUS
<1>3. /\ pc' = [pc EXCEPT ![a] = l] /\ job' = [job EXCEPT ![a] = j]
      /\ calls' = calls + 1 /\ UNCHANGED <<config, records, feed, claimed, writes, mem, disk>>
  BY DEF Call, stores
<1>4. calls' \in Nat
  BY <1>3 DEF IInv, Control, Types
<1> HIDE DEF j
<1>5. Control'
  BY <1>1, <1>2, <1>3, <1>4, StartControl DEF IInv
<1>6. QED
  BY <1>3, <1>5, PoliciesKept

(* Every request begins that way. *)
LEMMA RequestsInv ==
  ASSUME IInv, NEW a \in Request, Requests(a)
  PROVE  IInv'
<1>1. PICK u \in User, s \in Server :
        \/ registerKnot(a, u, s) \/ registerSpindle(a, u, s)
        \/ deleteKnot(a, u, s) \/ deleteSpindle(a, u, s)
        \/ retryKnot(a, u, s) \/ retrySpindle(a, u, s)
        \/ \E m \in User \ {u} :
             \/ addKnotMember(a, u, s, m) \/ addSpindleMember(a, u, s, m)
             \/ removeKnotMember(a, u, s, m) \/ removeSpindleMember(a, u, s, m)
  BY DEF Requests
<1>2. CASE registerKnot(a, u, s) \/ registerSpindle(a, u, s)
  <2>1. Call(a, "register", u, s, u, "begin", 0)
    BY <1>2 DEF registerKnot, registerSpindle
  <2>2. QED
    BY <2>1, CallInv DEF TxOps
<1>3. CASE deleteKnot(a, u, s) \/ deleteSpindle(a, u, s)
  <2>1. Call(a, "delete", u, s, u, "begin", 0)
    BY <1>3 DEF deleteKnot, deleteSpindle
  <2>2. QED
    BY <2>1, CallInv DEF TxOps
<1>4. CASE retryKnot(a, u, s) \/ retrySpindle(a, u, s)
  <2>1. Call(a, "retry", u, s, u, "verify", 0)
    BY <1>4 DEF retryKnot, retrySpindle
  <2>2. QED
    BY <2>1, CallInv
<1>5. ASSUME NEW m \in User,
             \/ addKnotMember(a, u, s, m) \/ addSpindleMember(a, u, s, m)
             \/ removeKnotMember(a, u, s, m) \/ removeSpindleMember(a, u, s, m)
      PROVE  IInv'
  <2>1. NextRkey \in Nat
    BY DEF NextRkey, IInv, Control, Types
  <2>2. CASE addKnotMember(a, u, s, m)
    <3>1. Call(a, "add", u, s, m, "pds", NextRkey)
      BY <2>2 DEF addKnotMember
    <3>2. QED
      BY <3>1, <2>1, CallInv
  <2>3. CASE addSpindleMember(a, u, s, m)
    <3>1. Call(a, "add", u, s, m, "begin", NextRkey)
      BY <2>3 DEF addSpindleMember
    <3>2. QED
      BY <3>1, <2>1, CallInv DEF TxOps
  <2>4. CASE removeKnotMember(a, u, s, m)
    <3>1. Call(a, "remove", u, s, m, "begin", 0)
      BY <2>4 DEF removeKnotMember
    <3>2. QED
      BY <3>1, CallInv DEF TxOps
  <2>5. CASE removeSpindleMember(a, u, s, m)
    <3>1. CASE Call(a, "remove", u, s, m, "load", 0)
      BY <3>1, CallInv
    <3>2. ASSUME NEW r, Call(a, "remove", u, s, m, "begin", r.rkey)
          PROVE  IInv'
      BY <3>2, CallInv DEF TxOps
    <3>3. QED
      BY <2>5, <3>1, <3>2 DEF removeSpindleMember
  <2>6. QED
    BY <1>5, <2>2, <2>3, <2>4, <2>5
<1>6. QED
  BY <1>1, <1>2, <1>3, <1>4, <1>5

(* The transaction begins, or its insert fails. *)
LEMMA BeginInv ==
  ASSUME IInv, NEW a \in Actor, Begin(a)
  PROVE  IInv'
<1>1. pc[a] # "idle" /\ job[a].op \in TxOps
  BY DEF Begin, IInv, Control, JobOK
<1>2. PICK l \in {"load", "save", "commit", "pds"} : Goto(a, l)
  BY DEF Begin
<1>3. UNCHANGED <<config, records, claimed, calls, writes, disk>>
  BY DEF Begin, bounds
<1>4. Control'
  BY <1>1, <1>2, <1>3, GotoControl DEF IInv, Where
<1>5. mem' = mem \/ mem' = TxPolicies(a)
  BY DEF Begin
<1>6. PolicyOK(mem', claimed)
  BY <1>1, <1>5, TxNamed DEF IInv
<1>7. QED
  BY <1>3, <1>4, <1>6 DEF IInv

(* The call of the PDS, after which a knot's new member has its role. *)
LEMMA CallPdsInv ==
  ASSUME IInv, NEW a \in Actor, CallPds(a)
  PROVE  IInv'
<1>1. pc[a] # "idle" /\ UNCHANGED <<config, job, claimed, calls, writes, disk>>
  BY DEF CallPds, bounds
<1>2. PICK l \in {"save", "commit"} : pc' = [pc EXCEPT ![a] = l]
  BY DEF CallPds
<1>3. mem' = mem \/ (job[a].op = "add" /\ mem' = TxPolicies(a))
  BY DEF CallPds
<1>4. /\ records' \subseteq SomeRecord /\ feed' \in Seq(SomeEvent)
      /\ feed # << >> => feed' # << >>
  <2>1. CASE UNCHANGED <<records, feed>>
    BY <2>1 DEF IInv, Control, Types
  <2>2. CASE job[a].op \in {"register", "add"} /\ PutRecord(JobRecord(a))
    <3>1. job[a].user \in User /\ job[a].server \in Server /\ job[a].subject \in User
          /\ (job[a].op = "add" => job[a].rkey \in Nat)
      BY <1>1 DEF IInv, Control, JobOK
    <3>2. JobRecord(a) \in SomeRecord
      BY <2>2, <3>1 DEF JobRecord, ServerRecord, MemberRecord, SomeRecord
    <3>3. QED
      BY <2>2, <3>2, RecordsTyped DEF IInv, Control
  <2>3. CASE DeleteRecord(JobRecord(a))
    BY <2>3, RecordsTyped DEF IInv, Control
  <2>4. QED
    BY <2>1, <2>2, <2>3 DEF CallPds
<1>5. Types' /\ ClaimOK'
  BY <1>1, <1>2, <1>4 DEF IInv, Control, Types, ClaimOK, Where
<1>6. FeedOK'
  BY <1>1, <1>2, <1>4 DEF IInv, Control, Types, FeedOK
<1>7. \A b \in Actor : JobOK(b)' /\ MarkOK(b)'
  BY <1>1, <1>2 DEF IInv, Control, Types, JobOK, MarkOK
<1>8. PolicyOK(mem', claimed)
  BY <1>3, TxNamed DEF IInv, TxOps
<1>9. QED
  BY <1>1, <1>5, <1>6, <1>7, <1>8 DEF IInv, Control

(* Rollback, reload, commit and save: what is in memory goes to disk, or   *)
(* the other way round.                                                    *)
LEMMA StoreInv ==
  ASSUME IInv, NEW a \in Actor,
         Abort(a) \/ LoadPolicy(a) \/ Commit(a) \/ SavePolicy(a) \/ FailSave(a)
  PROVE  IInv'
<1>1. /\ pc[a] # "idle"
      /\ UNCHANGED <<config, records, claimed, calls, writes>>
      /\ mem' \in {mem, disk} /\ disk' \in {mem, disk}
  BY DEF Abort, LoadPolicy, Commit, SavePolicy, FailSave, bounds, stores
<1>2. PICK l \in {"abort", "idle", "load", "load2", "save", "verify"} : Goto(a, l)
  BY DEF Abort, LoadPolicy, Commit, SavePolicy, FailSave, AfterSave
<1>3. Control'
  BY <1>1, <1>2, GotoControl DEF IInv, Where
<1>4. QED
  BY <1>1, <1>3 DEF IInv

(* A verification that succeeds saw the user in the configuration. *)
LEMMA VerifyInv ==
  ASSUME IInv, NEW a \in Actor, RunVerification(a)
  PROVE  IInv'
<1>1. pc[a] # "idle" /\ UNCHANGED <<config, records, claimed, calls, writes, mem, disk>>
  BY DEF RunVerification, bounds, stores
<1>2. PICK l \in {"mark", "load", "idle"} :
        Goto(a, l) /\ (l = "mark" => config[job[a].server].owner = job[a].user)
  BY DEF RunVerification
<1>3. job[a].server \in Server
  BY <1>1 DEF IInv, Control, JobOK
<1>4. l = "mark" => <<job[a].user, job[a].server>> \in claimed
  BY <1>2, <1>3 DEF IInv, Control, ClaimOK
<1>5. Control'
  BY <1>1, <1>2, <1>4, GotoControl DEF IInv, Where
<1>6. QED
  BY <1>1, <1>5, PoliciesKept

(* The one step that adds an owner adds the one that was verified. *)
LEMMA MarkInv ==
  ASSUME IInv, NEW a \in Actor, MarkVerified(a)
  PROVE  IInv'
<1> DEFINE s == job[a].server
           base == IF IsKnot(s) THEN AddServer(mem, Domain(s)) ELSE mem
<1>1. /\ pc[a] = "mark" /\ Goto(a, "markcommit")
      /\ mem' = AddOwner(base, <<config[s].kind, s>>, job[a].user)
      /\ UNCHANGED <<config, records, claimed, calls, writes, disk>>
  BY DEF MarkVerified, Domain, bounds
<1>2. <<job[a].user, s>> \in claimed
  BY <1>1 DEF IInv, Control, MarkOK
<1>3. PolicyOK(base, claimed)
  BY AddServerNamed DEF IInv
<1> HIDE DEF base, s
<1>4. PolicyOK(mem', claimed)
  BY <1>1, <1>2, <1>3, OwnerNamed
<1>5. Control'
  BY <1>1, GotoControl DEF IInv, Where
<1>6. QED
  BY <1>1, <1>4, <1>5 DEF IInv

(* The commit of that transaction. *)
LEMMA CommitMarkInv ==
  ASSUME IInv, NEW a \in Actor, CommitMark(a)
  PROVE  IInv'
<1>1. /\ pc[a] # "idle" /\ Goto(a, "marksave")
      /\ UNCHANGED <<config, records, claimed, calls, writes, mem, disk>>
  BY DEF CommitMark, bounds
<1>2. Control'
  BY <1>1, GotoControl DEF IInv, Where
<1>3. QED
  BY <1>1, <1>2, PoliciesKept

(* Every step of a goroutine at work keeps the invariant. *)
LEMMA StepInv ==
  ASSUME IInv, NEW a \in Actor, Step(a)
  PROVE  IInv'
BY BeginInv, CallPdsInv, StoreInv, VerifyInv, MarkInv, CommitMarkInv DEF Step

(* The ingester starts on the first event, or is done with it at once. *)
LEMMA IngestControl ==
  ASSUME Control, NEW op, NEW l \in {"begin", "load", "invite", "verify"},
         l = "begin" => op \in TxOps, op # "add",
         pc[Ingester] = "idle", feed # << >>, StartJob(op, l) \/ Refuse,
         UNCHANGED <<config, records, claimed, calls, writes>>
  PROVE  Control'
<1> DEFINE r == Head(feed).rec
           j == [op |-> op, user |-> r.did, server |-> r.server, subject |-> r.subject,
                 seen |-> rows[<<r.did, r.server>>], rkey |-> r.rkey]
<1>1. CASE StartJob(op, l)
  <2>1. r \in SomeRecord
    BY FeedTail DEF SomeEvent, Control, Types
  <2>2. j.user \in User /\ j.server \in Server /\ j.subject \in User /\ j.op = op
    BY <2>1 DEF SomeRecord
  <2>3. pc' = [pc EXCEPT ![Ingester] = l] /\ job' = [job EXCEPT ![Ingester] = j] /\ feed' = feed
    BY <1>1 DEF StartJob
  <2>4. Ingester \in Actor /\ l \in Where \ {"mark"} /\ calls' \in Nat
    BY DEF Actor, Where, Control, Types
  <2> HIDE DEF j
  <2>5. QED
    BY <2>2, <2>3, <2>4, StartControl
<1>2. CASE Refuse
  <2>1. pc' = pc /\ job' = job /\ feed' = Tail(feed)
    BY <1>2 DEF Refuse
  <2>2. Types' /\ ClaimOK'
    BY <2>1, FeedTail DEF Control, Types, ClaimOK
  <2>3. FeedOK' /\ \A a \in Actor : JobOK(a)' /\ MarkOK(a)'
    BY <2>1 DEF Control, FeedOK, JobOK, MarkOK
  <2>4. QED
    BY <2>2, <2>3 DEF Control
<1>3. QED
  BY <1>1, <1>2

(* The ingester's handlers change no policy when they start. *)
LEMMA IngestInv ==
  ASSUME IInv,
         \/ ingestServer \/ ingestKnotDelete \/ ingestSpindleDelete
         \/ ingestMember \/ ingestKnotMemberDelete \/ ingestSpindleMemberDelete
  PROVE  IInv'
<1>1. /\ pc[Ingester] = "idle" /\ feed # << >>
      /\ UNCHANGED <<config, records, claimed, calls, writes, mem, disk>>
  BY DEF ingestServer, ingestKnotDelete, ingestSpindleDelete, ingestMember,
         ingestKnotMemberDelete, ingestSpindleMemberDelete, Ingest, stores, bounds
<1>2. \/ StartJob("ingest", "verify") \/ StartJob("uningest", "begin")
      \/ StartJob("uningest", "load") \/ StartJob("invite", "invite")
      \/ StartJob("uninvite", "begin") \/ Refuse
  BY DEF ingestServer, ingestKnotDelete, ingestSpindleDelete, ingestMember,
         ingestKnotMemberDelete, ingestSpindleMemberDelete
<1>3. Control'
  BY <1>1, <1>2, IngestControl DEF IInv, TxOps
<1>4. QED
  BY <1>1, <1>3, PoliciesKept

(* An invitation adds a member. *)
LEMMA InviteInv ==
  ASSUME IInv, Invite
  PROVE  IInv'
<1>1. /\ pc[Ingester] # "idle" /\ Goto(Ingester, "idle") /\ Ingester \in Actor
      /\ UNCHANGED <<config, records, claimed, calls, writes, disk>>
      /\ mem' = AddMember(mem, Domain(job[Ingester].server), job[Ingester].subject)
  BY DEF Invite, bounds, Actor
<1>2. Control'
  BY <1>1, GotoControl DEF IInv, Where
<1>3. PolicyOK(mem', claimed)
  BY <1>1, MemberNamed DEF IInv, AddMember
<1>4. QED
  BY <1>1, <1>2, <1>3 DEF IInv

(* Another client's record changes the firehose only. *)
LEMMA OtherClientInv ==
  ASSUME IInv, NEW r \in records \cup Fresh, OtherClient(r)
  PROVE  IInv'
<1>1. r \in SomeRecord
  <2>1. NextRkey \in Nat
    BY DEF NextRkey, IInv, Control, Types
  <2>2. CASE r \in Fresh
    BY <2>1, <2>2 DEF Fresh, ServerRecord, MemberRecord, SomeRecord
  <2>3. QED
    BY <2>2 DEF IInv, Control, Types
<1>2. /\ writes' = writes + 1
      /\ PutRecord(r) \/ DeleteRecord(r)
      /\ UNCHANGED <<config, mem, disk, pc, job, claimed, calls>>
  BY DEF OtherClient, stores
<1>3. /\ records' \subseteq SomeRecord /\ feed' \in Seq(SomeEvent)
      /\ feed # << >> => feed' # << >>
  BY <1>1, <1>2, RecordsTyped DEF IInv, Control
<1>4. Types' /\ ClaimOK' /\ FeedOK'
  <2>1. writes' \in Nat
    BY <1>2 DEF IInv, Control, Types
  <2>2. Types'
    BY <1>2, <1>3, <2>1 DEF IInv, Control, Types
  <2>3. ClaimOK'
    BY <1>2 DEF IInv, Control, ClaimOK
  <2>4. FeedOK'
    BY <1>2, <1>3 DEF IInv, Control, FeedOK
  <2>5. QED
    BY <2>2, <2>3, <2>4
<1>5. \A a \in Actor : JobOK(a)' /\ MarkOK(a)'
  BY <1>2 DEF IInv, Control, JobOK, MarkOK
<1>6. QED
  BY <1>2, <1>4, <1>5, PoliciesKept DEF Control

(* A new owner in a configuration is one more who was named. *)
LEMMA MoveInv ==
  ASSUME IInv, NEW s \in Server, NEW u \in User, Move(s, u)
  PROVE  IInv'
<1>1. /\ config' = [config EXCEPT ![s].owner = u] /\ claimed' = claimed \cup {<<u, s>>}
      /\ UNCHANGED <<records, feed, pc, job, calls, writes, mem, disk>>
  BY DEF Move, stores
<1>2. config' \in [Server -> Config]
  <2>1. config \in [Server -> Config]
    BY DEF IInv, Control, Types
  <2>2. [config[s] EXCEPT !.owner = u] \in Config
    BY <2>1 DEF Config
  <2>3. QED
    BY <1>1, <2>1, <2>2
<1>3. Types' /\ FeedOK'
  BY <1>1, <1>2 DEF IInv, Control, Types, FeedOK
<1>4. ClaimOK'
  BY <1>1 DEF IInv, Control, Types, ClaimOK, Config
<1>5. \A a \in Actor : JobOK(a)' /\ MarkOK(a)'
  BY <1>1 DEF IInv, Control, JobOK, MarkOK
<1>6. PolicyOK(mem', claimed') /\ PolicyOK(disk', claimed')
  BY <1>1 DEF IInv, PolicyOK, Named
<1>7. QED
  BY <1>3, <1>4, <1>5, <1>6 DEF IInv, Control

(* After a restart the policies are those on disk. *)
LEMMA CrashInv ==
  ASSUME IInv, Crash
  PROVE  IInv'
<1>1. /\ mem' = disk /\ disk' = disk
      /\ pc' = [a \in Actor |-> "idle"] /\ job' = [a \in Actor |-> Idle]
      /\ UNCHANGED <<config, records, feed, claimed, calls, writes>>
  BY DEF Crash
<1>2. Types' /\ ClaimOK'
  BY <1>1 DEF IInv, Control, Types, ClaimOK, Where
<1>3. FeedOK' /\ \A a \in Actor : JobOK(a)' /\ MarkOK(a)'
  BY <1>1 DEF FeedOK, JobOK, MarkOK, Actor
<1>4. QED
  BY <1>1, <1>2, <1>3 DEF IInv, Control

(* The invariant is inductive. *)
LEMMA NextInv == IInv /\ [Next]_vars => IInv'
<1> SUFFICES ASSUME IInv, [Next]_vars PROVE IInv'
  OBVIOUS
<1>1. CASE UNCHANGED vars
  BY <1>1 DEF vars, stores, bounds, IInv, Control, Types, FeedOK, ClaimOK, JobOK, MarkOK
<1>2. CASE \E a \in Request : Requests(a)
  BY <1>2, RequestsInv
<1>3. CASE \E a \in Actor : Step(a)
  BY <1>3, StepInv
<1>4. CASE \/ ingestServer \/ ingestKnotDelete \/ ingestSpindleDelete
           \/ ingestMember \/ ingestKnotMemberDelete \/ ingestSpindleMemberDelete
  BY <1>4, IngestInv
<1>5. CASE Invite
  BY <1>5, InviteInv
<1>6. CASE \E u \in User, s \in Server : Move(s, u)
  BY <1>6, MoveInv
<1>7. CASE \E r \in records \cup Fresh : OtherClient(r)
  BY <1>7, OtherClientInv
<1>8. CASE Crash
  BY <1>8, CrashInv
<1>9. QED
  BY <1>1, <1>2, <1>3, <1>4, <1>5, <1>6, <1>7, <1>8 DEF Next

(***************************************************************************)
(* For any users, servers, requests, faults and bounds, and whatever is    *)
(* interleaved, rolled back, lost or restarted: nobody owns a server in    *)
(* the policies, in memory or on disk, whom its configuration never named. *)
(***************************************************************************)
THEOREM OwnersNamed == Spec => []OwnersWereNamed
<1>1. IInv => OwnersWereNamed
  BY DEF IInv, PolicyOK, Named, OwnersWereNamed
<1>2. QED
  BY InitInv, NextInv, <1>1, PTL DEF Spec

----------------------------------------------------------------------------
(***************************************************************************)
(* SavedWasCommitted.  A role in memory whose transaction is not committed *)
(* belongs to the goroutine that holds the write lock, or to one that was  *)
(* rolled back and has not reloaded the policies yet.                      *)
(***************************************************************************)
Adding(a, r) ==
  \/ pc[a] = "markcommit" /\ r = <<job[a].user, Owner, Domain(job[a].server)>>
  \/ /\ pc[a] \in {"pds", "commit"} /\ lock = a /\ job[a].op = "add"
     /\ r = <<job[a].subject, Member, Domain(job[a].server)>>
  \/ pc[a] = "abort" /\ r[3][2] = job[a].server

(* Transactions hold the lock; the knots page calls the PDS outside one;   *)
(* a verification belongs to no deletion of a member.                      *)
LockOK(a) ==
  /\ pc[a] \in {"commit", "markcommit"} => lock = a
  /\ pc[a] = "pds" => lock = a \/ (job[a].op = "add" /\ IsKnot(job[a].server))
  /\ pc[a] \in {"verify", "mark", "markcommit"} => job[a].op # "uninvite"

Settled(r) == r[1] \notin User \/ r[3][2] \in hurt \/ r \in granted

SavedOK ==
  /\ \A r \in disk.g : Settled(r)
  /\ \A r \in mem.g : Settled(r) \/ \E a \in Actor : Adding(a, r)

Locks == (\A a \in Actor : LockOK(a)) /\ SavedOK

(* What a step of one goroutine leaves to the others. *)
LEMMA OthersKept ==
  ASSUME Locks, NEW a \in Actor, NEW l, DOMAIN pc = Actor, pc' = [pc EXCEPT ![a] = l],
         \A b \in Actor \ {a} : job'[b] = job[b], config' = config,
         lock' = lock \/ (lock \in {Nobody, a} /\ lock' \in {Nobody, a})
  PROVE  \A b \in Actor \ {a} : LockOK(b)' /\ \A r : Adding(b, r) => Adding(b, r)'
<1> SUFFICES ASSUME NEW b \in Actor \ {a}
             PROVE  LockOK(b)' /\ \A r : Adding(b, r) => Adding(b, r)'
  OBVIOUS
<1>1. pc'[b] = pc[b] /\ job'[b] = job[b] /\ (lock = b => lock' = b)
  BY ServersAssumption DEF Actor
<1>2. LockOK(b)
  BY DEF Locks
<1>3. LockOK(b)'
  BY <1>1, <1>2 DEF LockOK, IsKnot
<1>4. ASSUME NEW r, Adding(b, r) PROVE Adding(b, r)'
  BY <1>1, <1>4 DEF Adding, Domain
<1>5. QED
  BY <1>3, <1>4

(* What a step must do about the roles it finds, adds and saves. *)
LEMMA LocksKept ==
  ASSUME Locks, NEW a \in Actor, NEW l, DOMAIN pc = Actor, pc' = [pc EXCEPT ![a] = l],
         \A b \in Actor \ {a} : job'[b] = job[b], config' = config,
         lock' = lock \/ (lock \in {Nobody, a} /\ lock' \in {Nobody, a}),
         hurt \subseteq hurt', granted \subseteq granted', LockOK(a)',
         \A r \in disk'.g : r \in disk.g \/ Settled(r)',
         \A r \in mem'.g :
            \/ r \in disk.g \/ (r \in mem.g /\ ~Adding(a, r))
            \/ Settled(r)' \/ Adding(a, r)'
  PROVE  Locks'
<1>1. \A b \in Actor \ {a} : LockOK(b)' /\ \A r : Adding(b, r) => Adding(b, r)'
  BY OthersKept
<1>2. \A r : Settled(r) => Settled(r)'
  BY DEF Settled
<1>3. \A r \in disk'.g : Settled(r)'
  BY <1>2 DEF Locks, SavedOK
<1>4. ASSUME NEW r \in mem'.g PROVE Settled(r)' \/ \E b \in Actor : Adding(b, r)'
  <2>1. CASE r \in disk.g
    BY <2>1, <1>2 DEF Locks, SavedOK
  <2>2. CASE r \in mem.g /\ ~Adding(a, r)
    BY <2>2, <1>1, <1>2 DEF Locks, SavedOK
  <2>3. QED
    BY <2>1, <2>2
<1>5. QED
  BY <1>1, <1>3, <1>4 DEF Locks, SavedOK

(* What the operations of Rbac do to the roles. *)
LEMMA RolesAfter ==
  ASSUME NEW pol, IsPolicy(pol), NEW u, NEW role, NEW d, NEW rules
  PROVE  /\ AddPolicies(pol, rules).g = pol.g /\ IsPolicy(AddPolicies(pol, rules))
         /\ AddGroupingPolicy(pol, u, role, d).g = pol.g \cup {<<u, role, d>>}
         /\ RemoveGroupingPolicy(pol, u, role, d).g \subseteq pol.g
         /\ DeleteDomains(pol, d).g \subseteq pol.g
<1>1. AddPolicies(pol, rules).g = pol.g /\ IsPolicy(AddPolicies(pol, rules))
  BY DEF IsPolicy, AddPolicies
<1>2. AddGroupingPolicy(pol, u, role, d).g = pol.g \cup {<<u, role, d>>}
  BY GroupingAdds
<1>3. RemoveGroupingPolicy(pol, u, role, d).g \subseteq pol.g
  BY DEF IsPolicy, RemoveGroupingPolicy
<1>4. DeleteDomains(pol, d).g \subseteq pol.g
  BY DEF DeleteDomains
<1>5. QED
  BY <1>1, <1>2, <1>3, <1>4

(* The rules of a server give a role to no user. *)
LEMMA AddServerRoles ==
  ASSUME NEW pol, IsPolicy(pol), NEW d
  PROVE  AddServer(pol, d).g = pol.g \cup {<<Owner, Member, d>>} /\ IsPolicy(AddServer(pol, d))
BY RolesAfter, GroupingAdds DEF AddServer, IsPolicy

(* A transaction gives a user a role only when it adds a member. *)
LEMMA TxAdds ==
  ASSUME NEW a, IsPolicy(mem), job[a].op \in TxOps, NEW r \in TxPolicies(a).g
  PROVE  \/ r \in mem.g \/ r[1] \notin User
         \/ job[a].op = "add" /\ r = <<job[a].subject, Member, Domain(job[a].server)>>
<1> DEFINE d == Domain(job[a].server)
<1>1. CASE job[a].op = "register"
  <2>1. r \in mem.g \/ r = <<Owner, Member, d>>
    BY <1>1, AddServerRoles DEF TxPolicies
  <2>2. QED
    BY <2>1, ServersAssumption
<1>2. CASE job[a].op \in {"delete", "uningest"}
  BY <1>2, RolesAfter DEF TxPolicies, RemoveServer
<1>3. CASE job[a].op = "add"
  BY <1>3, RolesAfter DEF TxPolicies, AddMember
<1>4. CASE job[a].op \in {"remove", "uninvite"}
  BY <1>4, RolesAfter DEF TxPolicies, RemoveMember
<1>5. QED
  BY <1>1, <1>2, <1>3, <1>4 DEF TxOps

(* A goroutine moves and leaves the jobs of the others alone. *)
LEMMA GotoFrame ==
  ASSUME IInv, NEW a \in Actor, NEW l, Goto(a, l)
  PROVE  /\ DOMAIN pc = Actor /\ pc' = [pc EXCEPT ![a] = l] /\ pc'[a] = l
         /\ \A b \in Actor \ {a} : job'[b] = job[b]
         /\ l # "idle" => job'[a] = job[a]
BY DEF Goto, IInv, Control, Types

(* A request begins outside any transaction. *)
LEMMA CallLocks ==
  ASSUME IInv, Locks, NEW a \in Request, NEW op, NEW u, NEW s, NEW m, NEW l, NEW k,
         \/ l \in {"begin", "load"} \/ (l = "verify" /\ op # "uninvite")
         \/ (l = "pds" /\ op = "add" /\ IsKnot(s)),
         Call(a, op, u, s, m, l, k)
  PROVE  Locks'
<1> DEFINE j == [op |-> op, user |-> u, server |-> s, subject |-> m,
                 seen |-> rows[<<u, s>>], rkey |-> k]
<1>1. /\ pc[a] = "idle" /\ pc' = [pc EXCEPT ![a] = l] /\ job' = [job EXCEPT ![a] = j]
      /\ UNCHANGED <<config, mem, disk, lock, hurt, granted>>
  BY DEF Call, stores
<1>2. j.op = op /\ j.server = s
  OBVIOUS
<1> HIDE DEF j
<1>3. /\ a \in Actor /\ DOMAIN pc = Actor /\ pc'[a] = l /\ job'[a] = j
      /\ \A b \in Actor \ {a} : job'[b] = job[b]
  BY <1>1 DEF IInv, Control, Types, Actor
<1>4. LockOK(a)'
  BY <1>1, <1>2, <1>3 DEF LockOK, IsKnot
<1>5. \A r : ~Adding(a, r)
  BY <1>1 DEF Adding
<1>6. QED
  BY <1>1, <1>3, <1>4, <1>5, LocksKept

(* Every request begins so. *)
LEMMA RequestsLocks ==
  ASSUME IInv, Locks, NEW a \in Request, Requests(a)
  PROVE  Locks'
<1>1. PICK u \in User, s \in Server :
        \/ registerKnot(a, u, s) \/ registerSpindle(a, u, s)
        \/ deleteKnot(a, u, s) \/ deleteSpindle(a, u, s)
        \/ retryKnot(a, u, s) \/ retrySpindle(a, u, s)
        \/ \E m \in User \ {u} :
             \/ addKnotMember(a, u, s, m) \/ addSpindleMember(a, u, s, m)
             \/ removeKnotMember(a, u, s, m) \/ removeSpindleMember(a, u, s, m)
  BY DEF Requests
<1>2. CASE \/ registerKnot(a, u, s) \/ registerSpindle(a, u, s)
           \/ deleteKnot(a, u, s) \/ deleteSpindle(a, u, s)
           \/ retryKnot(a, u, s) \/ retrySpindle(a, u, s)
  <2>1. \/ Call(a, "register", u, s, u, "begin", 0) \/ Call(a, "delete", u, s, u, "begin", 0)
        \/ Call(a, "retry", u, s, u, "verify", 0)
    BY <1>2 DEF registerKnot, registerSpindle, deleteKnot, deleteSpindle, retryKnot, retrySpindle
  <2>2. QED
    BY <2>1, CallLocks
<1>3. CASE \E m \in User : addKnotMember(a, u, s, m)
  BY <1>3, CallLocks DEF addKnotMember
<1>4. CASE \E m \in User : addSpindleMember(a, u, s, m)
  BY <1>4, CallLocks DEF addSpindleMember
<1>5. CASE \E m \in User : removeKnotMember(a, u, s, m)
  BY <1>5, CallLocks DEF removeKnotMember
<1>6. CASE \E m \in User : removeSpindleMember(a, u, s, m)
  BY <1>6, CallLocks DEF removeSpindleMember
<1>7. QED
  BY <1>1, <1>2, <1>3, <1>4, <1>5, <1>6

(* What a transaction adds is its own until it commits. *)
LEMMA BeginLocks ==
  ASSUME IInv, Locks, NEW a \in Actor, Begin(a)
  PROVE  Locks'
<1>1. /\ pc[a] = "begin" /\ lock = Nobody /\ job[a].op \in TxOps /\ IsPolicy(mem)
      /\ UNCHANGED <<config, disk, granted>> /\ hurt \subseteq hurt'
  BY DEF Begin, IInv, Control, JobOK, PolicyOK
<1>2. \A r : ~Adding(a, r)
  BY <1>1 DEF Adding
<1>3. CASE mem' = mem /\ lock' = lock /\ Goto(a, "load")
  <2>1. LockOK(a)'
    BY <1>3, GotoFrame DEF LockOK
  <2>2. QED
    BY <1>1, <1>2, <1>3, <2>1, GotoFrame, LocksKept
<1>4. CASE /\ IsKnot(job[a].server) /\ job[a].op = "remove"
           /\ mem' = TxPolicies(a) /\ lock' = lock /\ Goto(a, "save")
  <2>1. LockOK(a)'
    BY <1>4, GotoFrame DEF LockOK
  <2>2. \A r \in mem'.g : r \in mem.g \/ Settled(r)'
    BY <1>1, <1>4, TxAdds DEF Settled
  <2>3. QED
    BY <1>1, <1>2, <1>4, <2>1, <2>2, GotoFrame, LocksKept
<1>5. ASSUME NEW l \in {"commit", "pds"}, mem' = TxPolicies(a), lock' = a, Goto(a, l)
      PROVE  Locks'
  <2>1. LockOK(a)'
    BY <1>5, GotoFrame DEF LockOK
  <2>2. \A r \in mem'.g : r \in mem.g \/ Settled(r)' \/ Adding(a, r)'
    <3>1. pc'[a] = l /\ job'[a] = job[a]
      BY <1>5, GotoFrame
    <3>2. QED
      BY <1>1, <1>5, <3>1, TxAdds DEF Settled, Adding, Domain
  <2>3. QED
    BY <1>1, <1>2, <1>5, <2>1, <2>2, GotoFrame, LocksKept
<1>6. QED
  BY <1>3, <1>4, <1>5 DEF Begin

(* The call of the PDS: the role of a knot's member counts as given. *)
LEMMA CallPdsLocks ==
  ASSUME IInv, Locks, NEW a \in Actor, CallPds(a)
  PROVE  Locks'
<1> DEFINE d == Domain(job[a].server)
<1>1. /\ pc[a] = "pds" /\ UNCHANGED <<config, disk, lock, job, hurt>> /\ DOMAIN pc = Actor
      /\ LockOK(a) /\ IsPolicy(mem)
  BY DEF CallPds, IInv, Control, Types, Locks, PolicyOK
<1>2. CASE IsKnot(job[a].server) /\ job[a].op = "add"
  <2>1. /\ mem' = AddMember(mem, d, job[a].subject) /\ pc' = [pc EXCEPT ![a] = "save"]
        /\ granted' = granted \cup {<<job[a].subject, Member, d>>}
    BY <1>2 DEF CallPds, TxPolicies
  <2>2. LockOK(a)'
    BY <1>1, <2>1 DEF LockOK
  <2>3. \A r \in mem'.g : (r \in mem.g /\ ~Adding(a, r)) \/ Settled(r)'
    <3>1. \A r \in mem'.g : r \in mem.g \/ r = <<job[a].subject, Member, d>>
      BY <1>1, <2>1, RolesAfter DEF AddMember
    <3>2. \A r : Adding(a, r) => r = <<job[a].subject, Member, d>>
      BY <1>1 DEF Adding
    <3>3. QED
      BY <2>1, <3>1, <3>2 DEF Settled
  <2>4. QED
    BY <1>1, <2>1, <2>2, <2>3, LocksKept
<1>3. CASE ~(IsKnot(job[a].server) /\ job[a].op = "add")
  <2>1. mem' = mem /\ granted' = granted /\ pc' = [pc EXCEPT ![a] = "commit"]
    BY <1>3 DEF CallPds
  <2>2. LockOK(a)'
    BY <1>1, <1>3, <2>1 DEF LockOK
  <2>3. \A r : Adding(a, r) => Adding(a, r)'
    BY <1>1, <2>1 DEF Adding, Domain
  <2>4. QED
    BY <1>1, <2>1, <2>2, <2>3, LocksKept
<1>4. QED
  BY <1>2, <1>3

(* A rollback takes the role along until the policies are reloaded. *)
LEMMA AbortLocks ==
  ASSUME IInv, Locks, NEW a \in Actor, Abort(a)
  PROVE  Locks'
<1>1. /\ pc[a] \in {"pds", "commit", "markcommit"}
      /\ UNCHANGED <<config, mem, disk, hurt, granted>>
      /\ lock' = IF lock = a THEN Nobody ELSE lock
      /\ LockOK(a)
  BY DEF Abort, Locks
<1>2. CASE lock = a /\ job[a].op # "uninvite" /\ Goto(a, "abort")
  <2>1. pc'[a] = "abort" /\ job'[a] = job[a]
    BY <1>2, GotoFrame
  <2>2. ASSUME NEW r, Adding(a, r) PROVE Adding(a, r)'
    <3>1. r[3][2] = job[a].server
      BY <1>1, <2>2 DEF Adding, Domain
    <3>2. QED
      BY <2>1, <3>1 DEF Adding
  <2>3. LockOK(a)'
    BY <2>1 DEF LockOK
  <2>4. QED
    BY <1>1, <1>2, <2>2, <2>3, GotoFrame, LocksKept
<1>3. CASE (lock # a \/ job[a].op = "uninvite") /\ Goto(a, "idle")
  <2>1. \A r : ~Adding(a, r)
    BY <1>1, <1>3 DEF Adding, LockOK
  <2>2. LockOK(a)'
    BY <1>3, GotoFrame DEF LockOK
  <2>3. QED
    BY <1>1, <1>3, <2>1, <2>2, GotoFrame, LocksKept
<1>4. QED
  BY <1>2, <1>3 DEF Abort

(* After a reload memory holds what is on disk. *)
LEMMA LoadLocks ==
  ASSUME IInv, Locks, NEW a \in Actor, LoadPolicy(a)
  PROVE  Locks'
<1>1. mem' = disk /\ UNCHANGED <<config, disk, lock, granted>> /\ hurt \subseteq hurt'
  BY DEF LoadPolicy
<1>2. PICK l \in {"load", "idle"} : Goto(a, l)
  BY DEF LoadPolicy
<1>3. LockOK(a)'
  BY <1>2, GotoFrame DEF LockOK
<1>4. QED
  BY <1>1, <1>2, <1>3, GotoFrame, LocksKept

(* The commit makes the role one that was given. *)
LEMMA CommitLocks ==
  ASSUME IInv, Locks, NEW a \in Actor, Commit(a) \/ CommitMark(a)
  PROVE  Locks'
<1>1. /\ pc[a] \in {"commit", "markcommit"} /\ lock = a /\ lock' = Nobody
      /\ UNCHANGED <<config, mem, disk, hurt>> /\ granted \subseteq granted'
  BY DEF Commit, CommitMark, Locks, LockOK
<1>2. PICK l \in {"save", "marksave"} : Goto(a, l)
  BY DEF Commit, CommitMark
<1>3. LockOK(a)'
  BY <1>2, GotoFrame DEF LockOK
<1>4. \A r : Adding(a, r) => Settled(r)'
  BY DEF Adding, Settled, Commit, CommitMark
<1>5. QED
  BY <1>1, <1>2, <1>3, <1>4, GotoFrame, LocksKept

(* Nothing is saved that is not settled: nobody is inside a transaction,   *)
(* and a rollback that did not reload yet makes its server an exception.   *)
LEMMA SaveLocks ==
  ASSUME IInv, Locks, NEW a \in Actor, SavePolicy(a)
  PROVE  Locks'
<1>1. /\ pc[a] \in {"save", "marksave"} /\ lock = Nobody
      /\ disk' = mem /\ UNCHANGED <<config, mem, lock, granted>>
      /\ hurt' = hurt \cup ServersOf({b \in Actor : pc[b] = "abort"})
  BY DEF SavePolicy
<1>2. PICK l \in {"load", "load2", "verify", "idle"} :
        Goto(a, l) /\ (l = "verify" => job[a].op = "register")
  BY DEF SavePolicy, AfterSave
<1>3. LockOK(a)'
  BY <1>2, GotoFrame DEF LockOK
<1>4. ASSUME NEW r, NEW b \in Actor, Adding(b, r) PROVE Settled(r)'
  <2>1. lock # b
    BY <1>1, ServersAssumption DEF Actor
  <2>2. pc[b] = "abort" /\ r[3][2] = job[b].server
    BY <1>4, <2>1 DEF Adding, Locks, LockOK
  <2>3. QED
    BY <1>1, <2>2 DEF Settled, ServersOf
<1>5. \A r \in disk'.g : Settled(r)'
  <2>1. \A r : Settled(r) => Settled(r)'
    BY <1>1 DEF Settled
  <2>2. QED
    BY <1>1, <1>4, <2>1 DEF Locks, SavedOK
<1>6. QED
  BY <1>1, <1>2, <1>3, <1>5, GotoFrame, LocksKept

(* A failed save, and a verification, change no role. *)
LEMMA QuietLocks ==
  ASSUME IInv, Locks, NEW a \in Actor, FailSave(a) \/ RunVerification(a)
  PROVE  Locks'
<1>1. /\ pc[a] \in {"save", "marksave", "verify"} /\ LockOK(a)
      /\ UNCHANGED <<config, mem, disk, lock, granted>> /\ hurt \subseteq hurt'
  BY DEF FailSave, RunVerification, stores, Locks
<1>2. PICK l \in {"load", "load2", "mark", "idle"} :
        Goto(a, l) /\ (l = "mark" => pc[a] = "verify")
  BY DEF FailSave, RunVerification, AfterSave
<1>3. LockOK(a)'
  BY <1>1, <1>2, GotoFrame DEF LockOK
<1>4. \A r : ~Adding(a, r)
  BY <1>1 DEF Adding
<1>5. QED
  BY <1>1, <1>2, <1>3, <1>4, GotoFrame, LocksKept

(* A verified owner's role belongs to the transaction that marks it. *)
LEMMA MarkLocks ==
  ASSUME IInv, Locks, NEW a \in Actor, MarkVerified(a)
  PROVE  Locks'
<1> DEFINE s == job[a].server
           d == Domain(s)
           base == IF IsKnot(s) THEN AddServer(mem, d) ELSE mem
           new == <<job[a].user, Owner, d>>
<1>1. /\ pc[a] = "mark" /\ lock = Nobody /\ lock' = a /\ Goto(a, "markcommit")
      /\ mem' = AddOwner(base, d, job[a].user) /\ IsPolicy(mem) /\ LockOK(a)
      /\ UNCHANGED <<config, disk, granted>> /\ hurt \subseteq hurt'
  BY DEF MarkVerified, Locks, IInv, PolicyOK
<1>2. /\ IsPolicy(base)
      /\ \A r \in base.g : r \in mem.g \/ r = <<Owner, Member, d>>
  BY <1>1, AddServerRoles
<1> HIDE DEF base
<1>3. \A r \in mem'.g : r \in base.g \/ r = new
  BY <1>1, <1>2, RolesAfter DEF AddOwner
<1>4. pc'[a] = "markcommit" /\ job'[a] = job[a]
  BY <1>1, GotoFrame
<1>5. ASSUME NEW r, r = new PROVE Adding(a, r)'
  BY <1>1, <1>4, <1>5 DEF Adding, Domain
<1> HIDE DEF new
<1>6. \A r \in mem'.g : r \in mem.g \/ Settled(r)' \/ Adding(a, r)'
  <2>1. <<Owner, Member, d>>[1] \notin User
    BY ServersAssumption
  <2>2. ASSUME NEW r, r = <<Owner, Member, d>> PROVE Settled(r)'
    BY <2>1, <2>2 DEF Settled
  <2>3. QED
    BY <1>2, <1>3, <1>5, <2>2
<1>7. \A r : ~Adding(a, r)
  BY <1>1 DEF Adding
<1>8. LockOK(a)'
  BY <1>1, <1>4 DEF LockOK
<1>9. QED
  BY <1>1, <1>6, <1>7, <1>8, GotoFrame, LocksKept

(* Every step of a goroutine keeps the locks and what is settled. *)
LEMMA StepLocks ==
  ASSUME IInv, Locks, NEW a \in Actor, Step(a)
  PROVE  Locks'
BY BeginLocks, CallPdsLocks, AbortLocks, LoadLocks, CommitLocks, SaveLocks, QuietLocks, MarkLocks
   DEF Step

(* The ingester begins outside any transaction. *)
LEMMA IngestLocks ==
  ASSUME IInv, Locks,
         \/ ingestServer \/ ingestKnotDelete \/ ingestSpindleDelete
         \/ ingestMember \/ ingestKnotMemberDelete \/ ingestSpindleMemberDelete
  PROVE  Locks'
<1>1. /\ pc[Ingester] = "idle" /\ Ingester \in Actor /\ DOMAIN pc = Actor
      /\ DOMAIN job = Actor /\ UNCHANGED <<config, lock, mem, disk, hurt, granted>>
  BY DEF ingestServer, ingestKnotDelete, ingestSpindleDelete, ingestMember,
         ingestKnotMemberDelete, ingestSpindleMemberDelete, Ingest, stores, bounds,
         Actor, IInv, Control, Types
<1>2. \/ StartJob("ingest", "verify") \/ StartJob("uningest", "begin")
      \/ StartJob("uningest", "load") \/ StartJob("invite", "invite")
      \/ StartJob("uninvite", "begin") \/ Refuse
  BY DEF ingestServer, ingestKnotDelete, ingestSpindleDelete, ingestMember,
         ingestKnotMemberDelete, ingestSpindleMemberDelete
<1>3. \A r : ~Adding(Ingester, r)
  BY <1>1 DEF Adding
<1>4. ASSUME NEW op, NEW l, l \in {"begin", "load", "invite"} \/ (l = "verify" /\ op = "ingest"),
             StartJob(op, l)
      PROVE  Locks'
  <2>1. /\ pc' = [pc EXCEPT ![Ingester] = l] /\ pc'[Ingester] = l /\ job'[Ingester].op = op
        /\ \A b \in Actor \ {Ingester} : job'[b] = job[b]
    BY <1>1, <1>4 DEF StartJob
  <2>2. LockOK(Ingester)'
    BY <1>4, <2>1 DEF LockOK
  <2>3. QED
    BY <1>1, <1>3, <2>1, <2>2, LocksKept
<1>5. CASE Refuse
  <2>1. UNCHANGED <<pc, job>>
    BY <1>5 DEF Refuse
  <2>2. QED
    BY <1>1, <2>1 DEF Locks, LockOK, SavedOK, Settled, Adding, Domain, IsKnot
<1>6. QED
  BY <1>2, <1>4, <1>5

(* An invitation counts as given. *)
LEMMA InviteLocks ==
  ASSUME IInv, Locks, Invite
  PROVE  Locks'
<1> DEFINE j == job[Ingester]
           d == Domain(j.server)
<1>1. /\ pc[Ingester] = "invite" /\ Ingester \in Actor /\ Goto(Ingester, "idle")
      /\ mem' = AddMember(mem, d, j.subject) /\ IsPolicy(mem)
      /\ granted' = granted \cup {<<j.subject, Member, d>>}
      /\ UNCHANGED <<config, disk, lock, hurt>>
  BY DEF Invite, Actor, IInv, PolicyOK
<1>2. \A r \in mem'.g : r \in mem.g \/ Settled(r)'
  BY <1>1, RolesAfter DEF AddMember, Settled
<1>3. \A r : ~Adding(Ingester, r)
  BY <1>1 DEF Adding
<1>4. LockOK(Ingester)'
  BY <1>1, GotoFrame DEF LockOK
<1>5. QED
  BY <1>1, <1>2, <1>3, <1>4, GotoFrame, LocksKept

(* The three facts about the invariant of both properties. *)
LEMMA InitLocks == Init => Locks
BY DEF Init, Locks, LockOK, SavedOK, NoPolicies

LEMMA NextLocks == IInv /\ Locks /\ [Next]_vars => Locks'
<1> SUFFICES ASSUME IInv, Locks, [Next]_vars PROVE Locks'
  OBVIOUS
<1>1. CASE UNCHANGED <<config, mem, disk, lock, pc, job, hurt, granted>>
  BY <1>1 DEF Locks, LockOK, SavedOK, Settled, Adding, Domain, IsKnot
<1>2. CASE \E a \in Request : Requests(a)
  BY <1>2, RequestsLocks
<1>3. CASE \E a \in Actor : Step(a)
  BY <1>3, StepLocks
<1>4. CASE \/ ingestServer \/ ingestKnotDelete \/ ingestSpindleDelete
           \/ ingestMember \/ ingestKnotMemberDelete \/ ingestSpindleMemberDelete
  BY <1>4, IngestLocks
<1>5. CASE Invite
  BY <1>5, InviteLocks
<1>6. CASE \E u \in User, s \in Server : Move(s, u)
  <2>1. /\ UNCHANGED <<mem, disk, lock, pc, job, hurt, granted>>
        /\ \A s : config'[s].kind = config[s].kind
    <3>1. PICK u \in User, s \in Server : Move(s, u)
      BY <1>6
    <3>2. config' = [config EXCEPT ![s].owner = u] /\ config \in [Server -> Config]
      BY <3>1 DEF Move, IInv, Control, Types
    <3>3. QED
      BY <3>1, <3>2 DEF Move, stores
  <2>2. QED
    BY <2>1 DEF Locks, LockOK, SavedOK, Settled, Adding, Domain, IsKnot
<1>7. CASE \E r \in records \cup Fresh : OtherClient(r)
  <2>1. UNCHANGED <<config, mem, disk, lock, pc, job, hurt, granted>>
    BY <1>7 DEF OtherClient, stores
  <2>2. QED
    BY <1>1, <2>1
<1>8. CASE Crash
  <2>1. /\ mem' = disk /\ disk' = disk /\ granted' = granted /\ hurt \subseteq hurt'
        /\ pc' = [a \in Actor |-> "idle"]
    BY <1>8 DEF Crash
  <2>2. \A r : Settled(r) => Settled(r)'
    BY <2>1 DEF Settled
  <2>3. QED
    BY <2>1, <2>2 DEF Locks, LockOK, SavedOK
<1>9. CASE UNCHANGED vars
  BY <1>1, <1>9 DEF vars, stores
<1>10. QED
  BY <1>2, <1>3, <1>4, <1>5, <1>6, <1>7, <1>8, <1>9 DEF Next

(***************************************************************************)
(* For any users, servers, requests, faults and bounds: no role is saved   *)
(* whose transaction did not commit, unless its server is one of those a   *)
(* lost update, a fault or a hand-over hit.                                *)
(***************************************************************************)
THEOREM SavedRolesCommitted == Spec => []SavedWasCommitted
<1>1. Locks => SavedWasCommitted
  BY DEF Locks, SavedOK, Settled, SavedWasCommitted
<1>2. QED
  BY InitInv, NextInv, InitLocks, NextLocks, <1>1, PTL DEF Spec

----------------------------------------------------------------------------
(***************************************************************************)
(* PoliciesFollowRows.  Memory is ahead of the rows by the transaction     *)
(* that holds the lock, and the disk is behind them while a goroutine has  *)
(* committed and not saved; a server with a rollback under way is not in   *)
(* step in memory, and is an exception once that is saved.                 *)
(***************************************************************************)
RowsOK == rows \in [User \X Server -> {"none", "pending", "verified"}]

(* The lock is held inside a transaction only. *)
HoldOK(a) ==
  /\ lock = a => /\ pc[a] \in {"pds", "commit", "markcommit"}
                 /\ pc[a] = "pds" => ~(job[a].op = "add" /\ IsKnot(job[a].server))
  /\ pc[a] = "begin" /\ job[a].op = "add" => ~IsKnot(job[a].server)

On(a, s) == job[a].server = s

(* What the open transaction makes of a user's row when it commits. *)
Gains(a, u, s) ==
  lock = a /\ On(a, s) /\ job[a].user = u /\ pc[a] = "markcommit" /\ rows[<<u, s>>] # "none"
Loses(a, u, s) ==
  /\ lock = a /\ On(a, s) /\ job[a].user = u /\ pc[a] \in {"pds", "commit"}
  /\ job[a].op \in {"register", "delete", "uningest"}

Due(u, s) ==
  \/ \E a \in Actor : Gains(a, u, s)
  \/ rows[<<u, s>>] = "verified" /\ ~\E a \in Actor : Loses(a, u, s)

Aborting(s) == \E a \in Actor : pc[a] = "abort" /\ On(a, s)
Saving(s)   == \E a \in Actor : pc[a] \in {"save", "marksave"} /\ On(a, s)

MemInStep(s)  == ~Aborting(s) => \A u \in User : Owns(mem, u, s) <=> Due(u, s)
DiskInStep(s) == ~Saving(s) => \A u \in User : Owns(disk, u, s) <=> rows[<<u, s>>] = "verified"

InStep ==
  /\ RowsOK
  /\ \A a \in Actor : HoldOK(a)
  /\ \A s \in Server \ hurt : MemInStep(s) /\ DiskInStep(s)

(* A goroutine moves from where it is; what it writes is said besides.     *)
Moves(a, l) ==
  /\ DOMAIN pc = Actor /\ pc' = [pc EXCEPT ![a] = l]
  /\ \A b \in Actor \ {a} : job'[b] = job[b]
  /\ config' = config /\ hurt \subseteq hurt'

(* A move that leaves the roles and what is due alone. *)
LEMMA MemStays ==
  ASSUME InStep, NEW a \in Actor, NEW l, Moves(a, l), NEW s \in Server \ hurt,
         pc[a] = "abort" /\ On(a, s) => l = "abort" /\ On(a, s)',
         \A u \in User : (Owns(mem, u, s)' <=> Owns(mem, u, s)) /\ (Due(u, s)' <=> Due(u, s))
  PROVE  MemInStep(s)'
<1>1. MemInStep(s)
  BY DEF InStep
<1>2. Aborting(s) => Aborting(s)'
  BY DEF Aborting, On, Moves
<1> QED
  BY <1>1, <1>2 DEF MemInStep

LEMMA DiskStays ==
  ASSUME InStep, NEW a \in Actor, NEW l, Moves(a, l), NEW s \in Server \ hurt,
         pc[a] \in {"save", "marksave"} /\ On(a, s) => l \in {"save", "marksave"} /\ On(a, s)',
         \A u \in User : /\ Owns(disk, u, s)' <=> Owns(disk, u, s)
                         /\ rows'[<<u, s>>] = "verified" <=> rows[<<u, s>>] = "verified"
  PROVE  DiskInStep(s)'
<1>1. DiskInStep(s)
  BY DEF InStep
<1>2. Saving(s) => Saving(s)'
  BY DEF Saving, On, Moves
<1> QED
  BY <1>1, <1>2 DEF DiskInStep

LEMMA DueStays ==
  ASSUME NEW a \in Actor, NEW l, Moves(a, l), lock' = lock, NEW u, NEW s,
         rows'[<<u, s>>] = rows[<<u, s>>],
         lock # a \/ ({pc[a], l} \subseteq {"pds", "commit"} /\ job'[a] = job[a])
  PROVE  Due(u, s)' <=> Due(u, s)
<1>1. \A b \in Actor : (Gains(b, u, s)' <=> Gains(b, u, s)) /\ (Loses(b, u, s)' <=> Loses(b, u, s))
  BY DEF Gains, Loses, On, Moves
<1> QED
  BY <1>1 DEF Due

LEMMA OwnsStays ==
  ASSUME config' = config, NEW u, NEW s
  PROVE  /\ mem' = mem => (Owns(mem, u, s)' <=> Owns(mem, u, s))
         /\ disk' = disk => (Owns(disk, u, s)' <=> Owns(disk, u, s))
BY DEF Owns, Domain

(* What a step must show about the servers that are no exceptions. *)
LEMMA InStepKept ==
  ASSUME InStep, NEW a \in Actor, NEW l, Moves(a, l), RowsOK', HoldOK(a)',
         lock' = lock \/ (lock \in {Nobody, a} /\ lock' \in {Nobody, a}),
         \A s \in Server \ hurt' : MemInStep(s)' /\ DiskInStep(s)'
  PROVE  InStep'
<1>1. ASSUME NEW b \in Actor \ {a} PROVE HoldOK(b)'
  <2>1. pc'[b] = pc[b] /\ job'[b] = job[b] /\ (lock' = b => lock = b) /\ HoldOK(b)
    BY ServersAssumption DEF Actor, Moves, InStep
  <2> QED
    BY <2>1 DEF HoldOK, IsKnot, Moves
<1> QED
  BY <1>1 DEF InStep

(* A step outside any transaction that changes no role of an owner.        *)
LEMMA Aside ==
  ASSUME InStep, NEW a \in Actor, NEW l, Moves(a, l), HoldOK(a)',
         lock' = lock, lock # a \/ ({pc[a], l} \subseteq {"pds", "commit"} /\ job'[a] = job[a]),
         rows' = rows, disk' = disk,
         pc[a] \notin {"abort", "save", "marksave"},
         \A u \in User, s \in Server : Owns(mem, u, s)' <=> Owns(mem, u, s)
  PROVE  InStep'
<1>1. RowsOK'
  BY DEF InStep, RowsOK
<1>2. ASSUME NEW s \in Server \ hurt'
      PROVE  MemInStep(s)' /\ DiskInStep(s)'
  <2>1. s \in Server \ hurt
    BY DEF Moves
  <2>2. \A u : Due(u, s)' <=> Due(u, s)
    BY DueStays
  <2>3. \A u : Owns(disk, u, s)' <=> Owns(disk, u, s)
    BY OwnsStays DEF Moves
  <2> QED
    BY <2>1, <2>2, <2>3, MemStays, DiskStays
<1> QED
  BY <1>1, <1>2, InStepKept

(* A request begins. *)
LEMMA CallInStep ==
  ASSUME IInv, InStep, NEW a \in Request, NEW op, NEW u, NEW s, NEW m, NEW l, NEW k,
         l = "begin" /\ op = "add" => ~IsKnot(s), Call(a, op, u, s, m, l, k)
  PROVE  InStep'
<1> DEFINE j == [op |-> op, user |-> u, server |-> s, subject |-> m,
                 seen |-> rows[<<u, s>>], rkey |-> k]
<1>1. /\ pc[a] = "idle" /\ pc' = [pc EXCEPT ![a] = l] /\ job' = [job EXCEPT ![a] = j]
      /\ UNCHANGED <<config, rows, mem, disk, lock, hurt>>
  BY DEF Call, stores
<1>2. j.op = op /\ j.server = s
  OBVIOUS
<1> HIDE DEF j
<1>3. /\ a \in Actor /\ Moves(a, l) /\ pc'[a] = l /\ job'[a] = j
  BY <1>1 DEF IInv, Control, Types, Actor, Moves
<1>4. lock # a
  BY <1>1, <1>3 DEF InStep, HoldOK
<1>5. HoldOK(a)'
  BY <1>1, <1>2, <1>3, <1>4 DEF HoldOK, IsKnot
<1> QED
  BY <1>1, <1>3, <1>4, <1>5, OwnsStays, Aside

LEMMA RequestsInStep ==
  ASSUME IInv, InStep, NEW a \in Request, Requests(a)
  PROVE  InStep'
<1>1. PICK u \in User, s \in Server :
        \/ registerKnot(a, u, s) \/ registerSpindle(a, u, s)
        \/ deleteKnot(a, u, s) \/ deleteSpindle(a, u, s)
        \/ retryKnot(a, u, s) \/ retrySpindle(a, u, s)
        \/ \E m \in User \ {u} :
             \/ addKnotMember(a, u, s, m) \/ addSpindleMember(a, u, s, m)
             \/ removeKnotMember(a, u, s, m) \/ removeSpindleMember(a, u, s, m)
  BY DEF Requests
<1>2. CASE \/ registerKnot(a, u, s) \/ registerSpindle(a, u, s)
           \/ deleteKnot(a, u, s) \/ deleteSpindle(a, u, s)
           \/ retryKnot(a, u, s) \/ retrySpindle(a, u, s)
  <2>1. \/ Call(a, "register", u, s, u, "begin", 0) \/ Call(a, "delete", u, s, u, "begin", 0)
        \/ Call(a, "retry", u, s, u, "verify", 0)
    BY <1>2 DEF registerKnot, registerSpindle, deleteKnot, deleteSpindle, retryKnot, retrySpindle
  <2>2. QED
    BY <2>1, CallInStep
<1>3. CASE \E m \in User : addKnotMember(a, u, s, m)
  BY <1>3, CallInStep DEF addKnotMember
<1>4. CASE \E m \in User : addSpindleMember(a, u, s, m)
  BY <1>4, CallInStep DEF addSpindleMember
<1>5. CASE \E m \in User : removeKnotMember(a, u, s, m)
  BY <1>5, CallInStep DEF removeKnotMember
<1>6. CASE \E m \in User : removeSpindleMember(a, u, s, m)
  BY <1>6, CallInStep DEF removeSpindleMember
<1>7. QED
  BY <1>1, <1>2, <1>3, <1>4, <1>5, <1>6

(* What the operations of Rbac do to the owners. *)
LEMMA OwnersAfter ==
  ASSUME NEW pol, IsPolicy(pol), NEW v, NEW d, NEW e
  PROVE  /\ <<v, Owner, d>> \in AddServer(pol, e).g <=> <<v, Owner, d>> \in pol.g
         /\ <<v, Owner, d>> \in RemoveServer(pol, e).g <=> <<v, Owner, d>> \in pol.g /\ d # e
<1> DEFINE x == <<v, Owner, d>>
<1>1. x # <<Owner, Member, e>>
  BY DEF Owner, Member
<1>2. x \in DeleteDomains(pol, e).g <=> x \in pol.g /\ d # e
  <2>1. \A y : y \in DeleteDomains(pol, e).g <=> y \in pol.g /\ y[3] # e
    BY DEF DeleteDomains
  <2>2. x[3] = d
    OBVIOUS
  <2> HIDE DEF x
  <2> QED
    BY <2>1, <2>2
<1> HIDE DEF x
<1>3. x \in AddServer(pol, e).g <=> x \in pol.g
  BY <1>1, AddServerRoles
<1> QED
  BY <1>2, <1>3 DEF x, RemoveServer

LEMMA OwnersGiven ==
  ASSUME NEW pol, IsPolicy(pol), NEW v, NEW d, NEW e, NEW w
  PROVE  /\ <<v, Owner, d>> \in AddMember(pol, e, w).g <=> <<v, Owner, d>> \in pol.g
         /\ <<v, Owner, d>> \in RemoveMember(pol, e, w).g <=> <<v, Owner, d>> \in pol.g
         /\ <<v, Owner, d>> \in AddOwner(pol, e, w).g
              <=> <<v, Owner, d>> \in pol.g \/ (v = w /\ d = e)
<1> DEFINE x == <<v, Owner, d>>
<1>1. x # <<w, Member, e>>
  BY DEF Owner, Member
<1>2. x = <<w, Owner, e>> <=> v = w /\ d = e
  OBVIOUS
<1> HIDE DEF x
<1>3. RemoveMember(pol, e, w).g = pol.g \ {<<w, Member, e>>}
  BY DEF RemoveMember, RemoveGroupingPolicy, IsPolicy
<1>4. /\ AddMember(pol, e, w).g = pol.g \cup {<<w, Member, e>>}
      /\ AddOwner(pol, e, w).g = pol.g \cup {<<w, Owner, e>>}
  BY GroupingAdds DEF AddMember, AddOwner
<1> QED
  BY <1>1, <1>2, <1>3, <1>4 DEF x

LEMMA DomainsDiffer == \A s, t : Domain(s) = Domain(t) => s = t
BY DEF Domain

(* A transaction takes the owners of a server away only when it deletes    *)
(* one that was read as verified, and gives none.                          *)
LEMMA TxOwners ==
  ASSUME IsPolicy(mem), NEW a, job[a].op \in TxOps, NEW u, NEW s
  PROVE  <<u, Owner, Domain(s)>> \in TxPolicies(a).g
           <=> /\ Owns(mem, u, s)
               /\ ~(job[a].op \in {"delete", "uningest"} /\ job[a].seen = "verified" /\ On(a, s))
<1>1. CASE job[a].op = "register"
  <2>1. TxPolicies(a) = AddServer(mem, Domain(job[a].server))
    BY <1>1 DEF TxPolicies
  <2> HIDE DEF Owner
  <2> QED
    BY <1>1, <2>1, OwnersAfter DEF Owns
<1>2. CASE job[a].op \in {"delete", "uningest"}
  <2>1. TxPolicies(a) = IF job[a].seen = "verified" THEN RemoveServer(mem, Domain(job[a].server)) ELSE mem
    BY <1>2 DEF TxPolicies
  <2>2. Domain(s) # Domain(job[a].server) <=> ~On(a, s)
    BY DomainsDiffer DEF On
  <2>3. CASE job[a].seen = "verified"
    BY <1>2, <2>1, <2>2, <2>3, OwnersAfter DEF Owns
  <2>4. CASE job[a].seen # "verified"
    BY <2>1, <2>4 DEF Owns
  <2> QED
    BY <2>3, <2>4
<1>3. CASE job[a].op = "add"
  <2>1. TxPolicies(a) = AddMember(mem, Domain(job[a].server), job[a].subject)
    BY <1>3 DEF TxPolicies
  <2> QED
    BY <1>3, <2>1, OwnersGiven DEF Owns
<1>4. CASE job[a].op \in {"remove", "uninvite"}
  <2>1. TxPolicies(a) = RemoveMember(mem, Domain(job[a].server), job[a].subject)
    BY <1>4 DEF TxPolicies
  <2> QED
    BY <1>4, <2>1, OwnersGiven DEF Owns
<1> QED
  BY <1>1, <1>2, <1>3, <1>4 DEF TxOps

(* The policies in memory change with the transaction's statements: unless *)
(* it was overtaken, the owners are then those of the rows it commits.     *)
LEMMA BeginInStep ==
  ASSUME IInv, InStep, NEW a \in Actor, Begin(a)
  PROVE  InStep'
<1>1. /\ pc[a] = "begin" /\ lock = Nobody /\ job[a].op \in TxOps /\ IsPolicy(mem)
      /\ UNCHANGED <<config, rows, disk>> /\ hurt \subseteq hurt'
      /\ job[a].op = "add" => ~IsKnot(job[a].server)
  BY DEF Begin, IInv, Control, JobOK, PolicyOK, InStep, HoldOK
<1>2. \A b \in Actor : lock # b
  BY <1>1, ServersAssumption DEF Actor
<1>3. \A u, s : /\ mem' = TxPolicies(a) =>
                     (Owns(mem, u, s)' <=> <<u, Owner, Domain(s)>> \in TxPolicies(a).g)
  BY <1>1 DEF Owns, Domain
<1>4. CASE mem' = mem /\ lock' = lock /\ Goto(a, "load")
  <2>1. HoldOK(a)' /\ Moves(a, "load")
    BY <1>1, <1>2, <1>4, GotoFrame DEF HoldOK, Moves
  <2> QED
    BY <1>1, <1>2, <1>4, <2>1, OwnsStays, Aside
<1>5. CASE /\ IsKnot(job[a].server) /\ job[a].op = "remove"
           /\ mem' = TxPolicies(a) /\ lock' = lock /\ Goto(a, "save")
  <2>1. HoldOK(a)' /\ Moves(a, "save")
    BY <1>1, <1>2, <1>5, GotoFrame DEF HoldOK, Moves
  <2>2. \A u, s : Owns(mem, u, s)' <=> Owns(mem, u, s)
    BY <1>1, <1>3, <1>5, TxOwners
  <2> QED
    BY <1>1, <1>2, <1>5, <2>1, <2>2, Aside
<1>6. ASSUME NEW l \in {"commit", "pds"}, mem' = TxPolicies(a), lock' = a, Goto(a, l),
             job[a].op = "register" => rows[Key(a)] = "none",
             hurt' = hurt \cup IF Overtaken(a) THEN {job[a].server} ELSE {}
      PROVE  InStep'
  <2>1. Moves(a, l) /\ pc'[a] = l /\ job'[a] = job[a]
    BY <1>1, <1>6, GotoFrame DEF Moves
  <2>2. HoldOK(a)' /\ RowsOK'
    BY <1>1, <2>1 DEF HoldOK, InStep, RowsOK, IsKnot
  <2>3. ASSUME NEW s \in Server \ hurt'
        PROVE  MemInStep(s)' /\ DiskInStep(s)'
    <3>1. s \in Server \ hurt /\ (On(a, s) => ~Overtaken(a))
      BY <1>6, <2>3 DEF On
    <3>2. DiskInStep(s)'
      BY <1>1, <2>1, <3>1, OwnsStays, DiskStays
    <3> SUFFICES ASSUME ~Aborting(s)', NEW u \in User
                 PROVE  Owns(mem, u, s)' <=> Due(u, s)'
      BY <3>2 DEF MemInStep
    <3>3. ~Aborting(s)
      BY <1>1, <2>1 DEF Aborting, On, Moves
    <3>4. Owns(mem, u, s) <=> rows[<<u, s>>] = "verified"
      BY <1>2, <3>1, <3>3 DEF InStep, MemInStep, Due, Gains, Loses
    <3>5. Due(u, s)' <=> /\ rows[<<u, s>>] = "verified"
                         /\ ~(On(a, s) /\ job[a].user = u /\ job[a].op \in {"register", "delete", "uningest"})
      <4>1. \A b \in Actor : lock' = b <=> b = a
        BY <1>6
      <4>2. \A b \in Actor : ~Gains(b, u, s)'
        BY <1>6, <2>1, <4>1 DEF Gains
      <4>3. \A b \in Actor \ {a} : ~Loses(b, u, s)'
        BY <4>1 DEF Loses
      <4>4. Loses(a, u, s)' <=> On(a, s) /\ job[a].user = u /\ job[a].op \in {"register", "delete", "uningest"}
        BY <1>6, <2>1 DEF Loses, On
      <4> QED
        BY <1>1, <4>2, <4>3, <4>4 DEF Due
    <3>6. Owns(mem, u, s)' <=> /\ rows[<<u, s>>] = "verified"
                               /\ ~(job[a].op \in {"delete", "uningest"} /\ job[a].seen = "verified" /\ On(a, s))
      BY <1>1, <1>3, <1>6, <3>4, TxOwners
    <3>7. CASE On(a, s) /\ job[a].op \in {"delete", "uningest"}
      <4>1. /\ rows[<<job[a].user, s>>] = job[a].seen
            /\ job[a].seen = "verified" =>
                 \A v \in User \ {job[a].user} : rows[<<v, s>>] # "verified"
        BY <3>1, <3>7 DEF Overtaken, On, Key
      <4> QED
        BY <3>5, <3>6, <3>7, <4>1
    <3>8. CASE On(a, s) /\ job[a].op = "register"
      BY <1>6, <3>5, <3>6, <3>8 DEF Key, On
    <3> QED
      BY <3>5, <3>6, <3>7, <3>8
  <2> QED
    BY <1>1, <1>6, <2>1, <2>2, <2>3, InStepKept
<1> QED
  BY <1>4, <1>5, <1>6 DEF Begin

(* The call of the PDS gives a knot's member a role, or leads to the       *)
(* commit of the same rows.                                                *)
LEMMA CallPdsInStep ==
  ASSUME IInv, InStep, NEW a \in Actor, CallPds(a)
  PROVE  InStep'
<1>1. /\ pc[a] = "pds" /\ UNCHANGED <<config, rows, disk, lock, job, hurt>> /\ DOMAIN pc = Actor
      /\ HoldOK(a) /\ IsPolicy(mem)
  BY DEF CallPds, IInv, Control, Types, PolicyOK, InStep
<1>2. CASE IsKnot(job[a].server) /\ job[a].op = "add"
  <2>1. mem' = TxPolicies(a) /\ pc' = [pc EXCEPT ![a] = "save"]
    BY <1>2 DEF CallPds
  <2>2. lock # a
    BY <1>1, <1>2 DEF HoldOK
  <2>3. HoldOK(a)' /\ Moves(a, "save")
    BY <1>1, <2>1, <2>2 DEF HoldOK, Moves
  <2>4. \A u, s : Owns(mem, u, s)' <=> Owns(mem, u, s)
    <3>1. \A u, s : <<u, Owner, Domain(s)>> \in TxPolicies(a).g <=> Owns(mem, u, s)
      BY <1>1, <1>2, TxOwners DEF TxOps
    <3> QED
      BY <1>1, <2>1, <3>1 DEF Owns, Domain
  <2> QED
    BY <1>1, <2>2, <2>3, <2>4, Aside
<1>3. CASE ~(IsKnot(job[a].server) /\ job[a].op = "add")
  <2>1. mem' = mem /\ pc' = [pc EXCEPT ![a] = "commit"]
    BY <1>3 DEF CallPds
  <2>2. HoldOK(a)' /\ Moves(a, "commit")
    BY <1>1, <2>1 DEF HoldOK, Moves
  <2> QED
    BY <1>1, <2>1, <2>2, OwnsStays, Aside
<1> QED
  BY <1>2, <1>3

(* A rollback leaves its server out of step in memory until the reload;    *)
(* the one that is not reloaded had changed no owner.                      *)
LEMMA AbortInStep ==
  ASSUME IInv, Locks, InStep, NEW a \in Actor, Abort(a)
  PROVE  InStep'
<1>1. /\ pc[a] \in {"pds", "commit", "markcommit"}
      /\ UNCHANGED <<config, rows, mem, disk, hurt>>
      /\ lock' = IF lock = a THEN Nobody ELSE lock
      /\ LockOK(a) /\ HoldOK(a) /\ Nobody # a
  BY ServersAssumption DEF Abort, Locks, InStep, Actor
<1>2. PICK l \in {"abort", "idle"} :
        Goto(a, l) /\ (l = "abort" <=> lock = a /\ job[a].op # "uninvite")
  BY DEF Abort
<1>3. Moves(a, l) /\ pc'[a] = l
  BY <1>1, <1>2, GotoFrame DEF Moves
<1>4. HoldOK(a)' /\ RowsOK'
  BY <1>1, <1>2, <1>3 DEF HoldOK, InStep, RowsOK
<1>5. CASE lock # a
  <2>1. lock' = lock
    BY <1>1, <1>5
  <2> QED
    BY <1>1, <1>3, <1>4, <1>5, <2>1, OwnsStays, Aside
<1>6. CASE lock = a
  <2>1. lock' = Nobody /\ \A b \in Actor : lock' # b /\ (lock = b <=> b = a)
    BY <1>1, <1>6, ServersAssumption DEF Actor
  <2>2. ASSUME NEW s \in Server \ hurt'
        PROVE  MemInStep(s)' /\ DiskInStep(s)'
    <3>1. DiskInStep(s)'
      BY <1>1, <1>3, <2>2, OwnsStays, DiskStays
    <3>2. CASE On(a, s) /\ l = "abort"
      <4>1. job'[a] = job[a]
        BY <1>2, <3>2, GotoFrame
      <4>2. Aborting(s)'
        BY <1>3, <3>2, <4>1 DEF Aborting, On
      <4> QED
        BY <3>1, <4>2 DEF MemInStep
    <3>3. CASE ~On(a, s) \/ l = "idle"
      <4>1. ASSUME NEW u \in User PROVE Due(u, s)' <=> Due(u, s)
        <5>1. \A b \in Actor : ~Gains(b, u, s)' /\ ~Loses(b, u, s)'
          BY <2>1 DEF Gains, Loses
        <5>2. \A b \in Actor : ~Gains(b, u, s) /\ ~Loses(b, u, s)
          BY <1>1, <1>2, <1>6, <2>1, <3>3 DEF Gains, Loses, LockOK
        <5> QED
          BY <1>1, <5>1, <5>2 DEF Due
      <4> QED
        BY <1>1, <1>3, <2>2, <3>1, <4>1, OwnsStays, MemStays
    <3> QED
      BY <1>2, <3>2, <3>3
  <2> QED
    BY <1>1, <1>3, <1>4, <2>1, <2>2, InStepKept
<1> QED
  BY <1>5, <1>6

(* A reload: every server whose change it loses is an exception, and the   *)
(* others are in step on disk, with no transaction open on them.           *)
LEMMA LoadInStep ==
  ASSUME IInv, Locks, InStep, NEW a \in Actor, LoadPolicy(a)
  PROVE  InStep'
<1>1. /\ pc[a] \in {"abort", "load", "load2"} /\ mem' = disk
      /\ UNCHANGED <<config, rows, disk, lock>>
      /\ hurt' = hurt \cup ServersOf({b \in Actor \ {a} : Unsaved(b)})
      /\ HoldOK(a)
  BY DEF LoadPolicy, InStep
<1>2. PICK l \in {"load", "idle"} : Goto(a, l)
  BY DEF LoadPolicy
<1>3. Moves(a, l) /\ pc'[a] = l /\ lock # a
  BY <1>1, <1>2, GotoFrame DEF Moves, HoldOK
<1>4. HoldOK(a)' /\ RowsOK'
  BY <1>1, <1>3 DEF HoldOK, InStep, RowsOK
<1>5. ASSUME NEW s \in Server \ hurt'
      PROVE  MemInStep(s)' /\ DiskInStep(s)'
  <2>1. s \in Server \ hurt /\ \A b \in Actor : Unsaved(b) => ~On(b, s)
    <3>1. ~Unsaved(a)
      BY <1>1 DEF Unsaved
    <3> QED
      BY <1>1, <1>5, <3>1 DEF On, ServersOf
  <2>2. DiskInStep(s)'
    BY <1>1, <1>3, <2>1, OwnsStays, DiskStays
  <2>3. ~Saving(s)
    BY <2>1 DEF Saving, Unsaved
  <2>4. \A u \in User : Owns(disk, u, s) <=> rows[<<u, s>>] = "verified"
    BY <2>1, <2>3 DEF InStep, DiskInStep
  <2>5. ASSUME NEW u \in User PROVE Due(u, s)' <=> rows[<<u, s>>] = "verified"
    <3>1. \A b \in Actor : ~Gains(b, u, s) /\ ~Loses(b, u, s)
      BY <2>1 DEF Gains, Loses, Unsaved
    <3>2. Due(u, s)' <=> Due(u, s)
      BY <1>1, <1>3, DueStays
    <3> QED
      BY <3>1, <3>2 DEF Due
  <2>6. \A u \in User : Owns(mem, u, s)' <=> Owns(disk, u, s)
    BY <1>1 DEF Owns, Domain
  <2> QED
    BY <2>2, <2>4, <2>5, <2>6 DEF MemInStep
<1> QED
  BY <1>1, <1>3, <1>4, <1>5, InStepKept

(* A commit makes the rows what was due; the disk follows with the save.   *)
LEMMA CommitInStep ==
  ASSUME IInv, Locks, InStep, NEW a \in Actor, NEW l \in {"save", "marksave"},
         pc[a] \in {"commit", "markcommit"}, Goto(a, l), lock' = Nobody,
         UNCHANGED <<config, mem, disk, hurt>>, RowsOK',
         \A u \in User, s \in Server :
           /\ rows'[<<u, s>>] = "verified" <=>
                Gains(a, u, s) \/ (rows[<<u, s>>] = "verified" /\ ~Loses(a, u, s))
  PROVE  InStep'
<1>1. Moves(a, l) /\ pc'[a] = l /\ job'[a] = job[a]
  BY GotoFrame DEF Moves
<1>2. lock = a /\ \A b \in Actor : lock' # b /\ (lock = b <=> b = a)
  BY ServersAssumption DEF Actor, Locks, LockOK
<1>3. HoldOK(a)'
  BY <1>1, <1>2 DEF HoldOK
<1>4. ASSUME NEW s \in Server \ hurt'
      PROVE  MemInStep(s)' /\ DiskInStep(s)'
  <2>1. ASSUME NEW u \in User
        PROVE  Due(u, s)' <=> Due(u, s)
    <3>1. \A b \in Actor : ~Gains(b, u, s)' /\ ~Loses(b, u, s)'
      BY <1>2 DEF Gains, Loses
    <3>2. \A b \in Actor \ {a} : ~Gains(b, u, s) /\ ~Loses(b, u, s)
      BY <1>2 DEF Gains, Loses
    <3> QED
      BY <3>1, <3>2 DEF Due
  <2>2. MemInStep(s)'
    BY <1>1, <1>4, <2>1, OwnsStays, MemStays
  <2>3. CASE On(a, s)
    <3>1. Saving(s)'
      BY <1>1, <2>3 DEF Saving, On
    <3> QED
      BY <2>2, <3>1 DEF DiskInStep
  <2>4. CASE ~On(a, s)
    <3>1. \A u \in User : rows'[<<u, s>>] = "verified" <=> rows[<<u, s>>] = "verified"
      BY <2>4 DEF Gains, Loses
    <3> QED
      BY <1>1, <1>4, <2>2, <3>1, OwnsStays, DiskStays
  <2> QED
    BY <2>3, <2>4
<1> QED
  BY <1>1, <1>2, <1>3, <1>4, InStepKept

LEMMA CommitsInStep ==
  ASSUME IInv, Locks, InStep, NEW a \in Actor, Commit(a) \/ CommitMark(a)
  PROVE  InStep'
<1>1. /\ lock = a /\ RowsOK /\ job[a].user \in User /\ job[a].server \in Server
  BY DEF Commit, CommitMark, Locks, LockOK, InStep, IInv, Control, JobOK
<1>2. CASE Commit(a)
  <2>1. /\ pc[a] = "commit" /\ rows' = TxRows(a) /\ lock' = Nobody /\ Goto(a, "save")
        /\ UNCHANGED <<config, mem, disk, hurt>>
    BY <1>2 DEF Commit
  <2>2. RowsOK'
    BY <1>1, <2>1 DEF RowsOK, TxRows, Key
  <2>3. ASSUME NEW u \in User, NEW s \in Server
        PROVE  rows'[<<u, s>>] = "verified" <=>
                 Gains(a, u, s) \/ (rows[<<u, s>>] = "verified" /\ ~Loses(a, u, s))
    <3>1. ~Gains(a, u, s)
      BY <2>1 DEF Gains
    <3>2. Loses(a, u, s) <=> Key(a) = <<u, s>> /\ job[a].op \in {"register", "delete", "uningest"}
      BY <1>1, <2>1 DEF Loses, Key, On
    <3>3. CASE Key(a) = <<u, s>>
      BY <1>1, <2>1, <3>1, <3>2, <3>3 DEF TxRows, RowsOK
    <3>4. CASE Key(a) # <<u, s>>
      BY <1>1, <2>1, <3>1, <3>2, <3>4 DEF TxRows, RowsOK
    <3> QED
      BY <3>3, <3>4
  <2> QED
    BY <2>1, <2>2, <2>3, CommitInStep
<1>3. CASE CommitMark(a)
  <2>1. /\ pc[a] = "markcommit" /\ lock' = Nobody /\ Goto(a, "marksave")
        /\ rows' = [rows EXCEPT ![Key(a)] = IF @ = "none" THEN "none" ELSE "verified"]
        /\ UNCHANGED <<config, mem, disk, hurt>>
    BY <1>3 DEF CommitMark
  <2>2. RowsOK'
    BY <1>1, <2>1 DEF RowsOK, Key
  <2>3. ASSUME NEW u \in User, NEW s \in Server
        PROVE  rows'[<<u, s>>] = "verified" <=>
                 Gains(a, u, s) \/ (rows[<<u, s>>] = "verified" /\ ~Loses(a, u, s))
    <3>1. ~Loses(a, u, s)
      BY <2>1 DEF Loses
    <3>2. Gains(a, u, s) <=> Key(a) = <<u, s>> /\ rows[<<u, s>>] # "none"
      BY <1>1, <2>1 DEF Gains, Key, On
    <3> QED
      BY <1>1, <2>1, <3>1, <3>2 DEF RowsOK
  <2> QED
    BY <2>1, <2>2, <2>3, CommitInStep
<1> QED
  BY <1>2, <1>3

(* A save finds no transaction open, so memory is in step but for the      *)
(* rollbacks, whose servers become exceptions.                             *)
LEMMA SaveInStep ==
  ASSUME IInv, InStep, NEW a \in Actor, SavePolicy(a)
  PROVE  InStep'
<1>1. /\ pc[a] \in {"save", "marksave"} /\ lock = Nobody
      /\ disk' = mem /\ UNCHANGED <<config, rows, mem, lock>>
      /\ hurt' = hurt \cup ServersOf({b \in Actor : pc[b] = "abort"})
      /\ \A b \in Actor : lock # b
  BY ServersAssumption DEF SavePolicy, Actor
<1>2. PICK l \in {"load", "load2", "verify", "idle"} : Goto(a, l)
  BY DEF SavePolicy, AfterSave
<1>3. Moves(a, l) /\ pc'[a] = l
  BY <1>1, <1>2, GotoFrame DEF Moves
<1>4. HoldOK(a)' /\ RowsOK'
  BY <1>1, <1>3 DEF HoldOK, InStep, RowsOK
<1>5. ASSUME NEW s \in Server \ hurt'
      PROVE  MemInStep(s)' /\ DiskInStep(s)'
  <2>1. s \in Server \ hurt /\ ~Aborting(s)
    BY <1>1, <1>5 DEF On, ServersOf, Aborting
  <2>2. \A u \in User : Due(u, s)' <=> Due(u, s)
    BY <1>1, <1>3, DueStays
  <2>3. MemInStep(s)'
    BY <1>1, <1>3, <2>1, <2>2, OwnsStays, MemStays
  <2>4. \A u \in User : Owns(mem, u, s) <=> rows[<<u, s>>] = "verified"
    BY <1>1, <2>1 DEF InStep, MemInStep, Due, Gains, Loses
  <2>5. \A u \in User : Owns(disk, u, s)' <=> Owns(mem, u, s)
    BY <1>1 DEF Owns, Domain
  <2> QED
    BY <1>1, <2>3, <2>4, <2>5 DEF DiskInStep
<1> QED
  BY <1>1, <1>3, <1>4, <1>5, InStepKept

(* A failed save makes its server an exception; a verification changes no  *)
(* store.                                                                  *)
LEMMA FailSaveInStep ==
  ASSUME IInv, InStep, NEW a \in Actor, FailSave(a)
  PROVE  InStep'
<1>1. /\ pc[a] \in {"save", "marksave"} /\ UNCHANGED <<config, rows, mem, disk, lock>>
      /\ hurt' = hurt \cup {job[a].server} /\ HoldOK(a)
  BY DEF FailSave, stores, InStep
<1>2. PICK l \in {"load", "load2", "idle"} : Goto(a, l)
  BY DEF FailSave, AfterSave
<1>3. Moves(a, l) /\ pc'[a] = l /\ lock # a
  BY <1>1, <1>2, GotoFrame DEF Moves, HoldOK
<1>4. HoldOK(a)' /\ RowsOK'
  BY <1>1, <1>3 DEF HoldOK, InStep, RowsOK
<1>5. ASSUME NEW s \in Server \ hurt'
      PROVE  MemInStep(s)' /\ DiskInStep(s)'
  <2>1. s \in Server \ hurt /\ ~On(a, s)
    BY <1>1, <1>5 DEF On
  <2>2. \A u \in User : Due(u, s)' <=> Due(u, s)
    BY <1>1, <1>3, DueStays
  <2> QED
    BY <1>1, <1>3, <2>1, <2>2, OwnsStays, MemStays, DiskStays
<1> QED
  BY <1>1, <1>3, <1>4, <1>5, InStepKept

LEMMA VerifyInStep ==
  ASSUME IInv, InStep, NEW a \in Actor, RunVerification(a)
  PROVE  InStep'
<1>1. /\ pc[a] = "verify" /\ UNCHANGED <<config, rows, mem, disk, lock, hurt>> /\ HoldOK(a)
  BY DEF RunVerification, stores, InStep
<1>2. PICK l \in {"mark", "load", "idle"} : Goto(a, l)
  BY DEF RunVerification
<1>3. Moves(a, l) /\ pc'[a] = l /\ lock # a
  BY <1>1, <1>2, GotoFrame DEF Moves, HoldOK
<1>4. HoldOK(a)'
  BY <1>1, <1>3 DEF HoldOK
<1> QED
  BY <1>1, <1>3, <1>4, OwnsStays, Aside

(* A verified user owns the server in memory from the statement on, and    *)
(* the row says so once it is committed.                                   *)
LEMMA MarkInStep ==
  ASSUME IInv, InStep, NEW a \in Actor, MarkVerified(a)
  PROVE  InStep'
<1> DEFINE t == job[a].server
           base == IF IsKnot(t) THEN AddServer(mem, Domain(t)) ELSE mem
<1>1. /\ pc[a] = "mark" /\ lock = Nobody /\ lock' = a /\ Goto(a, "markcommit")
      /\ mem' = AddOwner(base, Domain(t), job[a].user) /\ IsPolicy(mem)
      /\ UNCHANGED <<config, rows, disk>>
      /\ hurt' = hurt \cup IF rows[Key(a)] = "none" THEN {t} ELSE {}
      /\ \A b \in Actor : lock # b /\ (lock' = b <=> b = a)
  BY ServersAssumption DEF MarkVerified, IInv, PolicyOK, Actor
<1>2. Moves(a, "markcommit") /\ pc'[a] = "markcommit" /\ job'[a] = job[a]
  BY <1>1, GotoFrame DEF Moves
<1>3. HoldOK(a)' /\ RowsOK'
  BY <1>1, <1>2 DEF HoldOK, InStep, RowsOK
<1>4. ASSUME NEW u, NEW s
      PROVE  Owns(mem, u, s)' <=> Owns(mem, u, s) \/ (u = job[a].user /\ On(a, s))
  <2>1. IsPolicy(base)
    BY <1>1, AddServerRoles
  <2>2. <<u, Owner, Domain(s)>> \in base.g <=> <<u, Owner, Domain(s)>> \in mem.g
    BY <1>1, OwnersAfter
  <2>3. Domain(s) = Domain(t) <=> On(a, s)
    BY DomainsDiffer DEF On
  <2>4. Owns(mem, u, s)' <=> <<u, Owner, Domain(s)>> \in AddOwner(base, Domain(t), job[a].user).g
    BY <1>1 DEF Owns, Domain
  <2> HIDE DEF base
  <2>5. <<u, Owner, Domain(s)>> \in AddOwner(base, Domain(t), job[a].user).g
          <=> <<u, Owner, Domain(s)>> \in base.g \/ (u = job[a].user /\ Domain(s) = Domain(t))
    BY <2>1, OwnersGiven
  <2> QED
    BY <2>2, <2>3, <2>4, <2>5 DEF Owns
<1> HIDE DEF base
<1>5. ASSUME NEW s \in Server \ hurt'
      PROVE  MemInStep(s)' /\ DiskInStep(s)'
  <2>1. s \in Server \ hurt /\ (On(a, s) => rows[<<job[a].user, s>>] # "none")
    BY <1>1, <1>5 DEF On, Key
  <2>2. DiskInStep(s)'
    BY <1>1, <1>2, <2>1, OwnsStays, DiskStays
  <2> SUFFICES ASSUME ~Aborting(s)', NEW u \in User
               PROVE  Owns(mem, u, s)' <=> Due(u, s)'
    BY <2>2 DEF MemInStep
  <2>3. ~Aborting(s)
    BY <1>1, <1>2 DEF Aborting, On, Moves
  <2>4. Owns(mem, u, s) <=> rows[<<u, s>>] = "verified"
    BY <1>1, <2>1, <2>3 DEF InStep, MemInStep, Due, Gains, Loses
  <2>5. Due(u, s)' <=> rows[<<u, s>>] = "verified" \/ (u = job[a].user /\ On(a, s))
    <3>1. \A b \in Actor : ~Loses(b, u, s)'
      BY <1>1, <1>2 DEF Loses
    <3>2. (\E b \in Actor : Gains(b, u, s)') <=> u = job[a].user /\ On(a, s)
      BY <1>1, <1>2, <2>1 DEF Gains, On
    <3> QED
      BY <1>1, <3>1, <3>2 DEF Due
  <2> QED
    BY <1>4, <2>4, <2>5
<1> QED
  BY <1>1, <1>2, <1>3, <1>5, InStepKept

LEMMA StepInStep ==
  ASSUME IInv, Locks, InStep, NEW a \in Actor, Step(a)
  PROVE  InStep'
BY BeginInStep, CallPdsInStep, AbortInStep, LoadInStep, CommitsInStep, SaveInStep,
   FailSaveInStep, VerifyInStep, MarkInStep DEF Step

(* The ingester begins outside any transaction; a new row is pending.      *)
LEMMA IngestInStep ==
  ASSUME IInv, InStep,
         \/ ingestServer \/ ingestKnotDelete \/ ingestSpindleDelete
         \/ ingestMember \/ ingestKnotMemberDelete \/ ingestSpindleMemberDelete
  PROVE  InStep'
<1>1. /\ pc[Ingester] = "idle" /\ Ingester \in Actor /\ DOMAIN pc = Actor /\ feed # << >>
      /\ DOMAIN job = Actor /\ UNCHANGED <<config, lock, mem, disk, hurt>>
  BY DEF ingestServer, ingestKnotDelete, ingestSpindleDelete, ingestMember,
         ingestKnotMemberDelete, ingestSpindleMemberDelete, Ingest, stores, bounds,
         Actor, IInv, Control, Types
<1>2. \/ StartJob("ingest", "verify") \/ StartJob("uningest", "begin")
      \/ StartJob("uningest", "load") \/ StartJob("invite", "invite")
      \/ StartJob("uninvite", "begin") \/ Refuse
  BY DEF ingestServer, ingestKnotDelete, ingestSpindleDelete, ingestMember,
         ingestKnotMemberDelete, ingestSpindleMemberDelete
<1>3. /\ RowsOK'
      /\ \A u \in User, s \in Server :
           rows'[<<u, s>>] = "verified" <=> rows[<<u, s>>] = "verified"
  <2>1. CASE rows' = rows
    BY <2>1 DEF InStep, RowsOK
  <2>3. CASE ingestServer
    <3>1. \/ rows' = rows
          \/ \E k : rows' = [rows EXCEPT ![k] = "pending"] /\ rows[k] \notin {"pending", "verified"}
      <4>1. PICK k : k = <<Head(feed).rec.did, Head(feed).rec.server>>
        OBVIOUS
      <4>2. CASE rows[k] # "none"
        BY <2>3, <4>1, <4>2 DEF ingestServer
      <4>3. CASE rows[k] = "none"
        BY <2>3, <4>1, <4>3 DEF ingestServer
      <4> QED
        BY <4>2, <4>3
    <3>2. ASSUME NEW k, rows' = [rows EXCEPT ![k] = "pending"], rows[k] \notin {"pending", "verified"}
          PROVE  /\ RowsOK'
                 /\ \A u \in User, s \in Server :
                      rows'[<<u, s>>] = "verified" <=> rows[<<u, s>>] = "verified"
      BY <3>2 DEF InStep, RowsOK
    <3> QED
      BY <2>1, <3>1, <3>2
  <2> QED
    BY <2>1, <2>3 DEF ingestKnotDelete, ingestSpindleDelete, ingestMember,
         ingestKnotMemberDelete, ingestSpindleMemberDelete, stores
<1>4. lock # Ingester
  BY <1>1 DEF InStep, HoldOK
<1>5. ASSUME NEW l, Moves(Ingester, l), HoldOK(Ingester)'
      PROVE  InStep'
  <2>1. ASSUME NEW s \in Server \ hurt', NEW u \in User
        PROVE  Due(u, s)' <=> Due(u, s)
    <3>1. \A b \in Actor \ {Ingester} : pc'[b] = pc[b] /\ job'[b] = job[b]
      BY <1>5 DEF Moves
    <3>2. \A b \in Actor : lock = b => Loses(b, u, s)' = Loses(b, u, s)
      BY <1>1, <1>4, <3>1 DEF Loses, On
    <3>3. ASSUME NEW b \in Actor PROVE Gains(b, u, s)' <=> Gains(b, u, s)
      <4>1. lock = b => rows' = rows
        <5>1. lock = b => lock # Nobody
          BY ServersAssumption DEF Actor
        <5> QED
          BY <5>1 DEF ingestServer, ingestKnotDelete, ingestSpindleDelete, ingestMember,
                ingestKnotMemberDelete, ingestSpindleMemberDelete, stores
      <4> QED
        BY <1>1, <1>4, <3>1, <4>1 DEF Gains, On
    <3>4. \A b \in Actor : Loses(b, u, s)' <=> Loses(b, u, s)
      BY <1>1, <3>2 DEF Loses
    <3> QED
      BY <1>3, <3>3, <3>4 DEF Due
  <2>2. ASSUME NEW s \in Server \ hurt'
        PROVE  MemInStep(s)' /\ DiskInStep(s)'
    BY <1>1, <1>3, <1>5, <2>1, OwnsStays, MemStays, DiskStays
  <2> QED
    BY <1>1, <1>3, <1>5, <2>2, InStepKept
<1>6. ASSUME NEW op, NEW l, StartJob(op, l), op # "add"
      PROVE  InStep'
  <2>1. /\ pc'[Ingester] = l /\ job'[Ingester].op = op /\ Moves(Ingester, l)
    BY <1>1, <1>6 DEF StartJob, Moves
  <2>2. HoldOK(Ingester)'
    BY <1>1, <1>4, <1>6, <2>1 DEF HoldOK
  <2> QED
    BY <1>5, <2>1, <2>2
<1>7. CASE Refuse
  <2>1. pc' = [pc EXCEPT ![Ingester] = "idle"] /\ job' = job
    BY <1>1, <1>7 DEF Refuse, IInv, Control, Types
  <2>2. Moves(Ingester, "idle") /\ HoldOK(Ingester)'
    BY <1>1, <1>4, <2>1 DEF Moves, HoldOK
  <2> QED
    BY <1>5, <2>2
<1> QED
  BY <1>2, <1>6, <1>7

(* An invitation changes no owner. *)
LEMMA InviteInStep ==
  ASSUME IInv, InStep, Invite
  PROVE  InStep'
<1>1. /\ pc[Ingester] = "invite" /\ Ingester \in Actor /\ Goto(Ingester, "idle")
      /\ mem' = AddMember(mem, Domain(job[Ingester].server), job[Ingester].subject)
      /\ IsPolicy(mem) /\ UNCHANGED <<config, rows, disk, lock, hurt>>
  BY DEF Invite, Actor, IInv, PolicyOK
<1>2. Moves(Ingester, "idle") /\ pc'[Ingester] = "idle"
  BY <1>1, GotoFrame DEF Moves
<1>3. lock # Ingester
  BY <1>1 DEF InStep, HoldOK
<1>4. HoldOK(Ingester)'
  BY <1>1, <1>2, <1>3 DEF HoldOK
<1>5. \A u, s : Owns(mem, u, s)' <=> Owns(mem, u, s)
  BY <1>1, OwnersGiven DEF Owns, Domain
<1> QED
  BY <1>1, <1>2, <1>3, <1>4, <1>5, Aside

(* After a restart memory is what is on disk, and nobody is at work.       *)
LEMMA CrashInStep ==
  ASSUME InStep, Crash
  PROVE  InStep'
<1>1. /\ mem' = disk /\ lock' = Nobody /\ UNCHANGED <<config, rows, disk>>
      /\ hurt' = hurt \cup ServersOf({a \in Actor : pc[a] \in {"save", "marksave"}})
      /\ \A a \in Actor : pc'[a] = "idle" /\ lock' # a
  BY ServersAssumption DEF Crash, Actor
<1>2. RowsOK' /\ \A a \in Actor : HoldOK(a)'
  BY <1>1 DEF InStep, RowsOK, HoldOK
<1>3. ASSUME NEW s \in Server \ hurt'
      PROVE  MemInStep(s)' /\ DiskInStep(s)'
  <2>1. s \in Server \ hurt /\ ~Saving(s)
    BY <1>1, <1>3 DEF Saving, On, ServersOf
  <2>2. \A u \in User : Owns(disk, u, s) <=> rows[<<u, s>>] = "verified"
    BY <2>1 DEF InStep, DiskInStep
  <2>3. \A u : (Owns(mem, u, s)' <=> Owns(disk, u, s)) /\ (Owns(disk, u, s)' <=> Owns(disk, u, s))
    BY <1>1 DEF Owns, Domain
  <2>4. \A u : Due(u, s)' <=> rows[<<u, s>>] = "verified"
    BY <1>1 DEF Due, Gains, Loses
  <2> QED
    BY <1>1, <2>2, <2>3, <2>4 DEF MemInStep, DiskInStep
<1> QED
  BY <1>2, <1>3 DEF InStep

(* The stores, the goroutines and the exceptions are as before; a server   *)
(* runs what it ran.                                                       *)
LEMMA StoresStay ==
  ASSUME InStep, UNCHANGED <<rows, mem, disk, lock, pc, job, hurt>>,
         \A s : config'[s].kind = config[s].kind
  PROVE  InStep'
<1>1. RowsOK' /\ \A a \in Actor : HoldOK(a)'
  BY DEF InStep, RowsOK, HoldOK, IsKnot
<1>2. ASSUME NEW s \in Server \ hurt
      PROVE  MemInStep(s)' /\ DiskInStep(s)'
  <2>1. \A u : /\ Owns(mem, u, s)' <=> Owns(mem, u, s)
               /\ Owns(disk, u, s)' <=> Owns(disk, u, s)
               /\ Due(u, s)' <=> Due(u, s)
    BY DEF Owns, Domain, Due, Gains, Loses, On
  <2> QED
    BY <2>1 DEF InStep, MemInStep, DiskInStep, Aborting, Saving, On
<1> QED
  BY <1>1, <1>2 DEF InStep

LEMMA InitInStep == Init => InStep
<1> SUFFICES ASSUME Init PROVE InStep
  OBVIOUS
<1>1. RowsOK
  BY DEF Init, RowsOK
<1>2. \A a \in Actor : HoldOK(a)
  BY ServersAssumption DEF Init, HoldOK, Actor
<1>3. ASSUME NEW s \in Server, NEW u \in User
      PROVE  ~Owns(mem, u, s) /\ ~Owns(disk, u, s) /\ ~Due(u, s) /\ rows[<<u, s>>] # "verified"
  <2>1. rows[<<u, s>>] = "none"
    BY DEF Init
  <2> QED
    BY <2>1 DEF Init, Owns, NoPolicies, Due, Gains
<1> QED
  BY <1>1, <1>2, <1>3 DEF InStep, MemInStep, DiskInStep

LEMMA NextInStep == IInv /\ Locks /\ InStep /\ [Next]_vars => InStep'
<1> SUFFICES ASSUME IInv, Locks, InStep, [Next]_vars PROVE InStep'
  OBVIOUS
<1>1. CASE UNCHANGED <<config, rows, mem, disk, lock, pc, job, hurt>>
  BY <1>1, StoresStay
<1>2. CASE \E a \in Request : Requests(a)
  BY <1>2, RequestsInStep
<1>3. CASE \E a \in Actor : Step(a)
  BY <1>3, StepInStep
<1>4. CASE \/ ingestServer \/ ingestKnotDelete \/ ingestSpindleDelete
           \/ ingestMember \/ ingestKnotMemberDelete \/ ingestSpindleMemberDelete
  BY <1>4, IngestInStep
<1>5. CASE Invite
  BY <1>5, InviteInStep
<1>6. CASE \E u \in User, s \in Server : Move(s, u)
  <2>1. /\ UNCHANGED <<rows, mem, disk, lock, pc, job, hurt>>
        /\ \A s : config'[s].kind = config[s].kind
    <3>1. PICK u \in User, s \in Server : Move(s, u)
      BY <1>6
    <3>2. config' = [config EXCEPT ![s].owner = u] /\ config \in [Server -> Config]
      BY <3>1 DEF Move, IInv, Control, Types
    <3>3. QED
      BY <3>1, <3>2 DEF Move, stores
  <2>2. QED
    BY <2>1, StoresStay
<1>7. CASE \E r \in records \cup Fresh : OtherClient(r)
  <2>1. UNCHANGED <<config, rows, mem, disk, lock, pc, job, hurt>>
    BY <1>7 DEF OtherClient, stores
  <2>2. QED
    BY <1>1, <2>1
<1>8. CASE Crash
  BY <1>8, CrashInStep
<1>9. CASE UNCHANGED vars
  BY <1>1, <1>9 DEF vars, stores
<1>10. QED
  BY <1>2, <1>3, <1>4, <1>5, <1>6, <1>7, <1>8, <1>9 DEF Next

(***************************************************************************)
(* For any users, servers, requests, faults and bounds: while nobody works *)
(* on a server that is no exception, the users the policies name as its    *)
(* owners, in memory and on disk, are those its rows say are verified.     *)
(***************************************************************************)
THEOREM OwnersFollowRows == Spec => []PoliciesFollowRows
<1>1. Locks /\ InStep => PoliciesFollowRows
  <2> SUFFICES ASSUME InStep, NEW u \in User, NEW s \in Server, Quiet(s), s \notin hurt
               PROVE  /\ Owns(mem, u, s) <=> rows[<<u, s>>] = "verified"
                      /\ Owns(disk, u, s) <=> rows[<<u, s>>] = "verified"
    BY DEF PoliciesFollowRows
  <2>1. ~Aborting(s) /\ ~Saving(s)
    BY DEF Quiet, Aborting, Saving, On
  <2>2. \A a \in Actor : ~Gains(a, u, s) /\ ~Loses(a, u, s)
    BY DEF Quiet, Gains, Loses, On
  <2> QED
    BY <2>1, <2>2 DEF InStep, MemInStep, DiskInStep, Due
<1>2. QED
  BY InitInv, NextInv, InitLocks, NextLocks, InitInStep, NextInStep, <1>1, PTL DEF Spec
=============================================================================
