---------------------------- MODULE ReposProofs ----------------------------
(***************************************************************************)
(* Proofs, for any number of accounts, knots, names, requests and faults:  *)
(* nobody may push to a repository of somebody else who was not named by a *)
(* collaborator record of its owner; the five places of a repository       *)
(* agree; a path has one row; and the collaborators in the policies are    *)
(* those of the rows.                                                      *)
(***************************************************************************)
EXTENDS Repos, SequenceTheorems, TLAPS

IsPolicy(pol) == pol = [p |-> pol.p, g |-> pol.g]

(* AddGroupingPolicy adds one rule and changes no other. *)
LEMMA GroupingAdds ==
  ASSUME NEW pol, IsPolicy(pol), NEW u, NEW role, NEW d
  PROVE  AddGroupingPolicy(pol, u, role, d) = [p |-> pol.p, g |-> pol.g \cup {<<u, role, d>>}]
BY DEF IsPolicy, AddGroupingPolicy

(***************************************************************************)
(* The inductive invariant.                                                *)
(***************************************************************************)
SomeRepo   == [did : User, name : Name, knot : Knot, rkey : Nat]
SomeCollab == [did : User, rkey : Nat, subject : User, at : User \X Nat]

(* The repositories that rows, records and requests speak of. *)
Known == rows \cup records.repo
         \cup {job[a].repo : a \in {b \in Request : pc[b] # "idle"}}

Types ==
  /\ records = [repo |-> records.repo, collab |-> records.collab]
  /\ Known \subseteq SomeRepo
  /\ pc \in [Request -> Where]
  /\ DOMAIN job = Request
  /\ DOMAIN kpol = Knot
  /\ feed \in [Knot -> Seq(SomeCollab)]
  /\ calls \in Nat /\ others \in Nat

(* Keys are given once: one of them, and so an at-uri, names one repository. *)
KeysOK ==
  /\ \A r \in Known : r.rkey <= calls + others
  /\ \A r, q \in Known : r.rkey = q.rkey => r = q

(* A record of the owner that waits to be ingested is an invitation to the *)
(* repository it names.                                                    *)
EventOK(c) ==
  /\ c.at[2] <= calls + others
  /\ \A r \in Known : AtUri(r) = c.at /\ c.did = r.did => <<c.subject, PathOf(r)>> \in invited

FeedOK == \A k \in Knot : \A i \in 1..Len(feed[k]) : EventOK(feed[k][i])

(* Only the owner's requests invite, and the role follows the record. *)
JobOK(a) ==
  /\ pc[a] # "idle" =>
       /\ job[a].user \in User /\ job[a].subject \in User /\ job[a].rkey \in Nat
       /\ job[a].op \in {"create", "invite", "delete"}
       /\ job[a].op = "invite" => job[a].user = job[a].repo.did
  /\ pc[a] = "grant" => <<job[a].subject, PathOf(job[a].repo)>> \in invited

Control == Types /\ KeysOK /\ FeedOK /\ \A a \in Request : JobOK(a)

RuleOK(r, inv) ==
  /\ r[4] = "repo:push" => r[1] = r[3][1] \/ <<r[1], r[3]>> \in inv
  /\ r[4] = "repo:invite" => r[1] = r[3][1] /\ r[1] \in User

PolicyOK(pol, inv) == IsPolicy(pol) /\ \A r \in pol.p : RuleOK(r, inv)

Policies ==
  /\ PolicyOK(mem, invited) /\ PolicyOK(disk, invited)
  /\ \A k \in Knot : PolicyOK(kpol[k], invited)

IInv == Control /\ Policies

----------------------------------------------------------------------------
(***************************************************************************)
(* What the operations of Rbac do to the rules.                            *)
(***************************************************************************)

(* A batch of rules that are in order may be added. *)
LEMMA AddPoliciesOK ==
  ASSUME NEW pol, NEW inv, PolicyOK(pol, inv), NEW rules, \A r \in rules : RuleOK(r, inv)
  PROVE  PolicyOK(AddPolicies(pol, rules), inv)
BY DEF PolicyOK, IsPolicy, AddPolicies

(* Any rules may be removed. *)
LEMMA RemovePoliciesOK ==
  ASSUME NEW pol, NEW inv, PolicyOK(pol, inv), NEW rules
  PROVE  PolicyOK(RemovePolicies(pol, rules), inv)
BY DEF PolicyOK, IsPolicy, RemovePolicies

(* The rules of a new repository give rights to its owner. *)
LEMMA AddRepoOK ==
  ASSUME NEW pol, NEW inv, PolicyOK(pol, inv), NEW u \in User, NEW n, NEW d
  PROVE  PolicyOK(AddRepo(pol, u, d, <<u, n>>), inv)
<1> DEFINE path == <<u, n>>
<1>1. ASSUME NEW r \in repoPolicies(u, d, path)
      PROVE  RuleOK(r, inv)
  <2>1. path[1] = u
    OBVIOUS
  <2> HIDE DEF path
  <2>2. CASE r = <<Owner, d, path, "repo:delete">>
    BY <2>2 DEF RuleOK
  <2>3. CASE \E act \in {"repo:settings", "repo:push", "repo:owner", "repo:invite", "repo:delete"} :
               r = <<u, d, path, act>>
    BY <2>1, <2>3 DEF RuleOK
  <2>4. QED
    BY <1>1, <2>2, <2>3 DEF repoPolicies
<1>2. QED
  BY <1>1, AddPoliciesOK DEF AddRepo

(* Somebody who was invited may become a collaborator. *)
LEMMA AddCollaboratorOK ==
  ASSUME NEW pol, NEW inv, PolicyOK(pol, inv), NEW u, NEW d, NEW path, <<u, path>> \in inv
  PROVE  PolicyOK(AddCollaborator(pol, u, d, path), inv)
<1>1. ASSUME NEW r \in collaboratorPolicies(u, d, path)
      PROVE  RuleOK(r, inv)
  BY <1>1 DEF RuleOK, collaboratorPolicies
<1>2. QED
  BY <1>1, AddPoliciesOK DEF AddCollaborator

(* Only its owner may invite to a repository. *)
LEMMA InviterIsOwner ==
  ASSUME NEW pol, NEW inv, PolicyOK(pol, inv), NEW u \in User, NEW d, NEW path,
         Enforce(pol, u, d, path, "repo:invite")
  PROVE  u = path[1]
<1>1. PICK sub \in {u, Owner, Member} : <<sub, d, path, "repo:invite">> \in pol.p
  BY DEF Enforce
<1> DEFINE r == <<sub, d, path, "repo:invite">>
<1>2. r[1] = sub /\ r[3] = path /\ r[4] = "repo:invite"
  OBVIOUS
<1> HIDE DEF r
<1>3. RuleOK(r, inv)
  BY <1>1 DEF PolicyOK, r
<1>4. sub = path[1] /\ sub \in User
  BY <1>2, <1>3 DEF RuleOK
<1>5. QED
  BY <1>1, <1>4, ReposAssumption

(* The roles of the knots give no right to a repository. *)
LEMMA RoleRules ==
  ASSUME NEW k
  PROVE  /\ IsPolicy(Roles(k))
         /\ \A r \in Roles(k).p : r[4] \in {"server:invite", "repo:create"}
<1> DEFINE d == Domain(k)
           p == serverPolicies(d)
<1>1. ASSUME NEW r \in p PROVE r[4] \in {"server:invite", "repo:create"}
  BY DEF serverPolicies
<1> HIDE DEF p, d
<1> DEFINE one == [p |-> p, g |-> {}]
           two == AddGroupingPolicy(one, Owner, Member, d)
           three == AddGroupingPolicy(two, Admin, Owner, d)
<1>2. AddPolicies(NoPolicies, serverPolicies(d)) = one
  BY DEF AddPolicies, NoPolicies, p
<1>3. one.p = p /\ IsPolicy(one)
  BY DEF IsPolicy
<1> HIDE DEF one
<1>4. two.p = p /\ IsPolicy(two)
  BY <1>3, GroupingAdds DEF IsPolicy
<1> HIDE DEF two
<1>5. three.p = p /\ IsPolicy(three)
  BY <1>4, GroupingAdds DEF IsPolicy
<1>6. Roles(k) = [three EXCEPT !.g = @ \cup {<<u, Member, d>> : u \in Members}]
  BY <1>2 DEF Roles, AddServer, AddOwner, two, d
<1> HIDE DEF three
<1>7. Roles(k).p = p /\ IsPolicy(Roles(k))
  BY <1>5, <1>6 DEF IsPolicy
<1>8. QED
  BY <1>1, <1>7

LEMMA RolesOK ==
  ASSUME NEW k
  PROVE  PolicyOK(Roles(k), {})
BY RoleRules DEF PolicyOK, RuleOK

(* What was allowed stays allowed when more are invited. *)
LEMMA InvitedGrows ==
  ASSUME NEW pol, NEW inv, NEW more, inv \subseteq more, PolicyOK(pol, inv)
  PROVE  PolicyOK(pol, more)
BY DEF PolicyOK, RuleOK

----------------------------------------------------------------------------
(***************************************************************************)
(* What keeps Control.                                                     *)
(***************************************************************************)

(* No new repository and no new event: keys and events stay in order. *)
LEMMA KnownKept ==
  ASSUME Control, Known' \subseteq Known, invited \subseteq invited',
         UNCHANGED <<feed, calls, others>>
  PROVE  KeysOK' /\ FeedOK'
<1>1. KeysOK'
  BY DEF Control, KeysOK, AtUri
<1>2. FeedOK'
  BY DEF Control, FeedOK, EventOK, AtUri, PathOf
<1>3. QED
  BY <1>1, <1>2

(* A request goes on with its repository, or ends. *)
LEMMA GotoControl ==
  ASSUME Control, NEW a \in Request, NEW l \in Where, pc[a] # "idle", Goto(a, l),
         l = "grant" => <<job[a].subject, PathOf(job[a].repo)>> \in invited',
         records' = [repo |-> records'.repo, collab |-> records'.collab],
         rows' \cup records'.repo \subseteq Known, DOMAIN kpol' = Knot,
         invited \subseteq invited', UNCHANGED <<feed, calls, others>>
  PROVE  Control'
<1>1. /\ pc' = [pc EXCEPT ![a] = l]
      /\ job' = job \/ (l = "idle" /\ job' = [job EXCEPT ![a] = Idle])
  BY DEF Goto
<1>2. Known' \subseteq Known
  BY <1>1 DEF Known, Control, Types
<1>3. Types'
  BY <1>1, <1>2 DEF Control, Types
<1>4. KeysOK' /\ FeedOK'
  BY <1>2, KnownKept
<1>5. ASSUME NEW b \in Request PROVE JobOK(b)'
  <2>1. CASE b = a
    BY <2>1, <1>1 DEF Control, Types, JobOK, PathOf
  <2>2. CASE b # a
    BY <2>2, <1>1 DEF Control, Types, JobOK, PathOf
  <2>3. QED
    BY <2>1, <2>2
<1>6. QED
  BY <1>3, <1>4, <1>5 DEF Control

(* A request begins, for a repository that is known or has a new key. *)
LEMMA CallControl ==
  ASSUME Control, NEW a \in Request, NEW op \in {"create", "invite", "delete"},
         NEW u \in User, NEW r, NEW m \in User, NEW from,
         NEW l \in Where \ {"grant"}, op = "invite" => u = r.did,
         r \in Known \/ (r \in SomeRepo /\ r.rkey = calls + others + 1),
         Call(a, op, u, r, m, from, l)
  PROVE  Control'
<1> DEFINE j == [op |-> op, user |-> u, repo |-> r, subject |-> m,
                 from |-> from, rkey |-> calls + others + 1]
<1>1. /\ calls' = calls + 1 /\ pc' = [pc EXCEPT ![a] = l] /\ job' = [job EXCEPT ![a] = j]
      /\ UNCHANGED <<rows, records, kpol, feed, invited, others>>
  BY DEF Call, stores, world, hist
<1>2. /\ j.op = op /\ j.user = u /\ j.repo = r /\ j.subject = m
      /\ j.rkey = calls + others + 1
  OBVIOUS
<1> HIDE DEF j
<1>3. Known' \subseteq Known \cup {r}
  BY <1>1, <1>2 DEF Known, Control, Types
<1>4. calls' + others' = calls + others + 1 /\ calls' \in Nat /\ others' \in Nat
  <2>1. calls \in Nat /\ others \in Nat
    BY DEF Control, Types
  <2>2. calls' = calls + 1 /\ others' = others
    BY <1>1
  <2>3. QED
    BY <2>1, <2>2
<1>5. Types'
  BY <1>1, <1>3, <1>4 DEF Control, Types
<1>6. KeysOK'
  <2>1. ASSUME NEW q \in Known' PROVE q.rkey <= calls' + others'
    <3>1. CASE q \in Known
      <4>1. q.rkey <= calls + others /\ q.rkey \in Nat
        BY <3>1 DEF Control, KeysOK, Types, SomeRepo
      <4>2. QED
        BY <4>1, <1>4 DEF Control, Types
    <3>2. QED
      BY <2>1, <3>1, <1>3, <1>4 DEF Control, Types
  <2>2. ASSUME NEW q \in Known', NEW t \in Known', q.rkey = t.rkey PROVE q = t
    <3>1. q.rkey = t.rkey
      BY <2>2
    <3>2. \A x \in Known : x.rkey <= calls + others
      BY DEF Control, KeysOK
    <3>3. calls + others \in Nat
      BY DEF Control, Types
    <3>4. QED
      BY <2>2, <1>3, <3>1, <3>2, <3>3 DEF Control, KeysOK
  <2>3. QED
    BY <2>1, <2>2 DEF KeysOK
<1>7. FeedOK'
  <2> SUFFICES ASSUME NEW k \in Knot, NEW i \in 1..Len(feed[k])
               PROVE  EventOK(feed[k][i])'
    BY <1>1 DEF FeedOK
  <2> DEFINE c == feed[k][i]
  <2>1. EventOK(c) /\ c \in SomeCollab
    BY DEF Control, FeedOK, Types
  <2> HIDE DEF c
  <2>2. c.at[2] \in Nat /\ c.at[2] <= calls + others
    BY <2>1 DEF EventOK, SomeCollab
  <2>3. c.at[2] <= calls' + others'
    BY <2>2, <1>4 DEF Control, Types
  <2>4. ASSUME NEW q \in Known', AtUri(q) = c.at, c.did = q.did
        PROVE  <<c.subject, PathOf(q)>> \in invited
    <3>1. q.rkey <= calls + others
      BY <2>2, <2>4 DEF AtUri
    <3>2. q \in Known
      BY <2>4, <3>1, <1>3 DEF Control, Types
    <3>3. QED
      BY <2>1, <2>4, <3>2 DEF EventOK
  <2>5. EventOK(c)'
    BY <2>3, <2>4, <1>1 DEF EventOK, AtUri, PathOf, c
  <2>6. QED
    BY <2>5, <1>1 DEF c
<1>8. ASSUME NEW b \in Request PROVE JobOK(b)'
  <2>1. CASE b = a
    BY <2>1, <1>1, <1>2 DEF Control, Types, JobOK
  <2>2. CASE b # a
    BY <2>2, <1>1 DEF Control, Types, JobOK
  <2>3. QED
    BY <2>1, <2>2
<1>9. QED
  BY <1>5, <1>6, <1>7, <1>8 DEF Control

(* A key that was below the bound is below the bound when it grew. *)
LEMMA BoundGrows ==
  ASSUME NEW n \in Nat, NEW p \in Nat, NEW q \in Nat, NEW s \in Nat, NEW t \in Nat,
         n <= p + q, p + q <= s + t
  PROVE  n <= s + t
OBVIOUS

(* A collaborator record for a known repository is written: when its       *)
(* author owns the repository its subject is invited.                      *)
LEMMA AnnounceKept ==
  ASSUME Control, NEW c \in SomeCollab, NEW r \in Known, c.at = AtUri(r),
         Announce(c, PathOf(r)), Known' \subseteq Known, calls' \in Nat, others' \in Nat,
         calls + others <= calls' + others'
  PROVE  KeysOK' /\ FeedOK' /\ feed' \in [Knot -> Seq(SomeCollab)] /\ invited \subseteq invited'
<1>1. /\ feed' = [k \in Knot |-> Append(feed[k], c)]
      /\ invited' = invited \cup IF c.did = PathOf(r)[1] THEN {<<c.subject, PathOf(r)>>} ELSE {}
  BY DEF Announce
<1>2. calls \in Nat /\ others \in Nat /\ feed \in [Knot -> Seq(SomeCollab)]
  BY DEF Control, Types
<1>3. ASSUME NEW n \in Nat, n <= calls + others PROVE n <= calls' + others'
  BY <1>2, <1>3, BoundGrows
<1>4. KeysOK'
  <2>1. ASSUME NEW q \in Known' PROVE q.rkey <= calls' + others'
    BY <1>3 DEF Control, KeysOK, Types, SomeRepo
  <2>2. QED
    BY <2>1 DEF Control, KeysOK, AtUri
<1>5. ASSUME NEW e \in SomeCollab, EventOK(e) PROVE EventOK(e)'
  <2>1. e.at[2] \in Nat
    BY DEF SomeCollab
  <2>2. e.at[2] <= calls' + others'
    BY <2>1, <1>3, <1>5 DEF EventOK
  <2>3. QED
    BY <2>2, <1>1, <1>5 DEF EventOK, AtUri, PathOf
<1>6. EventOK(c)'
  <2>1. c.at[2] = r.rkey
    BY DEF AtUri
  <2>2. c.at[2] <= calls' + others'
    BY <2>1, <1>3 DEF Control, KeysOK, Types, SomeRepo
  <2>3. PathOf(r)[1] = r.did
    BY DEF PathOf
  <2>4. ASSUME NEW q \in Known, AtUri(q) = c.at, c.did = q.did
        PROVE  <<c.subject, PathOf(q)>> \in invited'
    <3>1. q = r
      BY <2>4 DEF Control, KeysOK, AtUri
    <3>2. QED
      BY <3>1, <2>3, <2>4, <1>1
  <2>5. QED
    BY <2>2, <2>4 DEF EventOK, AtUri, PathOf
<1>7. feed' \in [Knot -> Seq(SomeCollab)]
  BY <1>1, <1>2, AppendProperties
<1>8. FeedOK'
  <2> SUFFICES ASSUME NEW k \in Knot, NEW i \in 1..Len(feed'[k])
               PROVE  EventOK(feed[k][i])'
    BY DEF FeedOK
  <2>1. Len(feed'[k]) = Len(feed[k]) + 1 /\ feed[k] \in Seq(SomeCollab)
    BY <1>1, <1>2, AppendProperties
  <2>2. CASE i = Len(feed[k]) + 1
    <3>1. feed'[k][i] = c
      BY <2>1, <2>2, <1>1, AppendProperties
    <3>2. QED
      BY <3>1, <1>6 DEF EventOK
  <2>3. CASE i \in 1..Len(feed[k])
    <3>1. feed'[k][i] = feed[k][i] /\ feed[k][i] \in SomeCollab
      BY <2>1, <2>3, <1>1, AppendProperties
    <3>2. EventOK(feed[k][i])
      BY <2>3 DEF Control, FeedOK
    <3>3. QED
      BY <3>1, <3>2, <1>5 DEF EventOK
  <2>4. QED
    BY <2>1, <2>2, <2>3
<1>9. QED
  BY <1>1, <1>4, <1>7, <1>8

----------------------------------------------------------------------------
(***************************************************************************)
(* The actions.                                                            *)
(***************************************************************************)

(* At first there are the roles of the knots and nothing else. *)
LEMMA InitInv == Init => IInv
<1> SUFFICES ASSUME Init PROVE IInv
  OBVIOUS
<1>1. Known = {}
  BY DEF Init, Known
<1>2. Types
  BY <1>1 DEF Init, Types, Where
<1>3. KeysOK /\ FeedOK /\ \A a \in Request : JobOK(a)
  BY <1>1 DEF Init, KeysOK, FeedOK, JobOK
<1>4. PolicyOK(AllRoles, {})
  <2>1. IsPolicy(AllRoles)
    BY DEF IsPolicy, AllRoles
  <2>2. QED
    BY <2>1, RolesOK DEF PolicyOK, AllRoles
<1>5. Policies
  BY <1>4, RolesOK DEF Init, Policies
<1>6. QED
  BY <1>2, <1>3, <1>5 DEF IInv, Control

(* A request changes no policy when it begins. *)
LEMMA RequestInv ==
  ASSUME IInv, NEW a \in Request, NEW u \in User,
         \/ \E n \in Name, k \in Knot : NewRepo(a, u, n, k)
         \/ \E r \in rows :
              \/ \E n \in Name, k \in Knot : ForkRepo(a, u, r, n, k)
              \/ \E m \in User \ {u} : AddCollaboratorReq(a, u, r, m)
              \/ DeleteRepo(a, u, r)
  PROVE  IInv'
<1> DEFINE fresh(n, k) == [did |-> u, name |-> n, knot |-> k, rkey |-> calls + others + 1]
<1>1. ASSUME NEW n \in Name, NEW k \in Knot
      PROVE  fresh(n, k) \in SomeRepo /\ fresh(n, k).rkey = calls + others + 1
  BY DEF SomeRepo, IInv, Control, Types
<1>2. rows \subseteq Known
  BY DEF Known
<1>3. {"put"} \subseteq Where \ {"grant"}
  BY DEF Where
<1> HIDE DEF fresh
<1>4. Control'
  <2>1. CASE \E n \in Name, k \in Knot : NewRepo(a, u, n, k)
    BY <2>1, <1>1, <1>3, CallControl DEF NewRepo, IInv, fresh
  <2>2. CASE \E r \in rows, n \in Name, k \in Knot : ForkRepo(a, u, r, n, k)
    BY <2>2, <1>1, <1>3, CallControl DEF ForkRepo, IInv, fresh
  <2>3. ASSUME NEW r \in rows, NEW m \in User, AddCollaboratorReq(a, u, r, m)
        PROVE  Control'
    <3>1. u = PathOf(r)[1]
      BY <2>3, InviterIsOwner DEF AddCollaboratorReq, RepoPermission, IInv, Policies
    <3>2. u = r.did
      BY <3>1 DEF PathOf
    <3>3. QED
      BY <2>3, <3>2, <1>2, <1>3, CallControl DEF AddCollaboratorReq, IInv
  <2>4. CASE \E r \in rows : DeleteRepo(a, u, r)
    BY <2>4, <1>2, <1>3, CallControl DEF DeleteRepo, IInv
  <2>5. QED
    BY <2>1, <2>2, <2>3, <2>4
<1>5. UNCHANGED <<mem, disk, kpol, invited>>
  BY DEF NewRepo, ForkRepo, AddCollaboratorReq, DeleteRepo, Call, stores, world, hist
<1>6. QED
  BY <1>4, <1>5 DEF IInv, Policies

(* The repository of a request is known. *)
LEMMA JobKnown ==
  ASSUME Control, NEW a \in Request, pc[a] # "idle"
  PROVE  job[a].repo \in Known /\ job[a].repo \in SomeRepo
BY DEF Control, Types, Known

(* The record is written; that of a collaborator by the owner.             *)
LEMMA PdsWriteInv ==
  ASSUME IInv, NEW a \in Request, PdsWrite(a)
  PROVE  IInv'
<1> DEFINE r == job[a].repo
<1>1. /\ pc[a] = "put" /\ pc[a] # "idle" /\ r \in Known /\ r \in SomeRepo
      /\ UNCHANGED <<rows, mem, disk, kpol, calls, others>>
  BY JobKnown DEF PdsWrite, stores, bounds, IInv, Control
<1>2. CASE job[a].op = "invite"
  <2> DEFINE c == CollabRecord(a)
  <2>1. Announce(c, PathOf(r)) /\ Goto(a, "grant")
    BY <1>2 DEF PdsWrite
  <2>2. c \in SomeCollab /\ c.at = AtUri(r) /\ c.did = r.did /\ c.subject = job[a].subject
    BY <1>1, <1>2 DEF CollabRecord, SomeCollab, AtUri, SomeRepo, IInv, Control, JobOK
  <2>3. <<job[a].subject, PathOf(r)>> \in invited'
    BY <2>1, <2>2 DEF Announce, PathOf
  <2>4. /\ pc' = [pc EXCEPT ![a] = "grant"] /\ job' = job
        /\ records' = [records EXCEPT !.collab = @ \cup {c}]
    BY <2>1 DEF Goto, Announce
  <2> HIDE DEF c
  <2>5. Known' \subseteq Known
    BY <1>1, <2>4 DEF Known, IInv, Control, Types
  <2>6. calls' \in Nat /\ others' \in Nat /\ calls + others <= calls' + others'
    <3>1. calls \in Nat /\ others \in Nat /\ calls' = calls /\ others' = others
      BY <1>1 DEF IInv, Control, Types
    <3>2. QED
      BY <3>1
  <2>7. /\ KeysOK' /\ FeedOK' /\ feed' \in [Knot -> Seq(SomeCollab)]
        /\ invited \subseteq invited'
    BY <1>1, <2>1, <2>2, <2>5, <2>6, AnnounceKept DEF IInv
  <2>8. Types'
    BY <1>1, <2>4, <2>5, <2>6, <2>7 DEF IInv, Control, Types, Where
  <2>9. ASSUME NEW b \in Request PROVE JobOK(b)'
    BY <1>1, <2>3, <2>4, <2>7 DEF IInv, Control, Types, JobOK, PathOf
  <2>10. Policies'
    BY <1>1, <2>7, InvitedGrows DEF IInv, Policies
  <2>11. QED
    BY <2>7, <2>8, <2>9, <2>10 DEF IInv, Control
<1>3. CASE job[a].op \in {"create", "delete"}
  <2>1. Goto(a, "knot") /\ UNCHANGED <<feed, invited>>
    BY <1>3 DEF PdsWrite, hist
  <2>2. /\ records' = [repo |-> records'.repo, collab |-> records'.collab]
        /\ records'.repo \subseteq records.repo \cup {r}
    BY <1>3 DEF PdsWrite, IInv, Control, Types
  <2>3. rows' \cup records'.repo \subseteq Known
    BY <1>1, <2>2 DEF Known
  <2>4. Control'
    BY <1>1, <2>1, <2>2, <2>3, GotoControl DEF IInv, Control, Types, Where
  <2>5. QED
    BY <1>1, <2>1, <2>4 DEF IInv, Policies
<1>4. job[a].op \in {"create", "invite", "delete"}
  BY <1>1 DEF IInv, Control, JobOK
<1>5. QED
  BY <1>2, <1>3, <1>4

(* The knot's part: the owner of a new repository has rights there. *)
LEMMA KnotCallInv ==
  ASSUME IInv, NEW a \in Request, KnotCall(a)
  PROVE  IInv'
<1> DEFINE r == job[a].repo
<1>1. /\ pc[a] # "idle" /\ r \in Known /\ r \in SomeRepo
      /\ UNCHANGED <<rows, records, mem, disk, feed, invited, calls, others>>
  BY JobKnown DEF KnotCall, stores, bounds, IInv, Fail
<1>2. PICK l \in {"write", "purge", "abort", "idle"} : Goto(a, l)
  BY DEF KnotCall, Failed
<1>3. \/ kpol' = kpol
      \/ kpol' = [kpol EXCEPT ![r.knot] = AddRepo(@, r.did, Domain(r.knot), PathOf(r))]
      \/ kpol' = [kpol EXCEPT ![r.knot] = RemoveRepo(@, r.did, Domain(r.knot), PathOf(r))]
  BY DEF KnotCall, CreateRepo, RemoveFiles
<1>4. DOMAIN kpol = Knot /\ DOMAIN kpol' = Knot
  BY <1>3 DEF IInv, Control, Types
<1>5. Control'
  BY <1>1, <1>2, <1>4, GotoControl DEF IInv, Control, Types, Known, Where
<1>6. ASSUME NEW k \in Knot PROVE PolicyOK(kpol'[k], invited)
  <2>1. PolicyOK(kpol[k], invited) /\ r.did \in User
    BY <1>1 DEF IInv, Policies, SomeRepo
  <2>2. PolicyOK(AddRepo(kpol[k], r.did, Domain(r.knot), PathOf(r)), invited)
    BY <2>1, AddRepoOK DEF PathOf
  <2>3. PolicyOK(RemoveRepo(kpol[k], r.did, Domain(r.knot), PathOf(r)), invited)
    BY <2>1, RemovePoliciesOK DEF RemoveRepo
  <2>4. QED
    BY <1>3, <1>4, <2>1, <2>2, <2>3
<1>7. QED
  BY <1>1, <1>5, <1>6 DEF IInv, Policies

(* Nothing but the policies in memory changes, by a rule that is in order: *)
(* somebody who was invited, the owner of a new repository, or fewer rules.*)
LEMMA MemoryInv ==
  ASSUME IInv, NEW a \in Request, Grant(a) \/ Purge(a) \/ Write(a)
  PROVE  IInv'
<1> DEFINE r == job[a].repo
           d == Domain(r.knot)
<1>1. /\ pc[a] # "idle" /\ r \in SomeRepo
      /\ UNCHANGED <<rows, records, disk, kpol, feed, invited, calls, others>>
  BY JobKnown DEF Grant, Purge, Write, world, hist, bounds, IInv
<1>2. PICK l \in {"write", "abort", "commit"} : Goto(a, l)
  BY DEF Grant, Purge, Write
<1>3. Control'
  BY <1>1, <1>2, GotoControl DEF IInv, Control, Types, Known, Where
<1>4. PolicyOK(mem, invited) /\ r.did \in User
  BY <1>1 DEF IInv, Policies, SomeRepo
<1>5. PolicyOK(mem', invited)
  <2>1. CASE Grant(a)
    <3>1. <<job[a].subject, PathOf(r)>> \in invited
      BY <2>1 DEF Grant, IInv, Control, JobOK
    <3>2. QED
      BY <2>1, <3>1, <1>4, AddCollaboratorOK DEF Grant
  <2>2. CASE Purge(a)
    BY <2>2, <1>4, RemovePoliciesOK DEF Purge, RemoveRepo
  <2>3. CASE Write(a)
    <3>1. PolicyOK(AddRepo(mem, r.did, d, PathOf(r)), invited)
      BY <1>4, AddRepoOK DEF PathOf
    <3>2. mem' = mem \/ mem' = AddRepo(mem, r.did, d, PathOf(r))
      BY <2>3 DEF Write
    <3>3. QED
      BY <1>4, <3>1, <3>2
  <2>4. QED
    BY <2>1, <2>2, <2>3
<1>6. QED
  BY <1>1, <1>3, <1>5 DEF IInv, Policies

(* Commits, rollbacks, saves and reloads: what is in memory goes to disk,  *)
(* or the other way round, and rows are written of known repositories.     *)
LEMMA StoreInv ==
  ASSUME IInv, NEW a \in Request,
         \/ PdsError(a) \/ RollbackRecord(a) \/ Commit(a) \/ TxError(a)
         \/ SavePolicy(a) \/ SaveError(a) \/ LoadPolicy(a)
  PROVE  IInv'
<1>1. /\ pc[a] # "idle"
      /\ UNCHANGED <<kpol, feed, invited, calls, others>>
      /\ mem' \in {mem, disk} /\ disk' \in {mem, disk}
  BY DEF PdsError, RollbackRecord, Commit, TxError, SavePolicy, SaveError, LoadPolicy,
         Fail, stores, world, hist, bounds
<1>2. PICK l \in {"idle", "save", "load", "abort", "unput"} : Goto(a, l)
  BY DEF PdsError, RollbackRecord, Commit, TxError, SavePolicy, SaveError, LoadPolicy
<1>3. rows' \subseteq rows \cup {job[a].repo}
  BY DEF PdsError, RollbackRecord, Commit, TxError, SavePolicy, SaveError, LoadPolicy,
         stores, TxRows
<1>4. /\ records' = [repo |-> records'.repo, collab |-> records'.collab]
      /\ records'.repo \subseteq records.repo
  <2>1. records = [repo |-> records.repo, collab |-> records.collab]
    BY DEF IInv, Control, Types
  <2>2. \/ records' = records
        \/ records' = [records EXCEPT !.repo = @ \ {job[a].repo}]
        \/ records' = [records EXCEPT !.collab = @ \ {CollabRecord(a)}]
    BY DEF PdsError, RollbackRecord, Commit, TxError, SavePolicy, SaveError, LoadPolicy, world
  <2>3. QED
    BY <2>1, <2>2
<1>5. rows' \cup records'.repo \subseteq Known
  BY <1>1, <1>3, <1>4, JobKnown DEF Known, IInv
<1>6. Control'
  BY <1>1, <1>2, <1>4, <1>5, GotoControl DEF IInv, Control, Types, Where
<1>7. QED
  BY <1>1, <1>6 DEF IInv, Policies

(* Every step of a request keeps the invariant. *)
LEMMA StepInv ==
  ASSUME IInv, NEW a \in Request, Step(a)
  PROVE  IInv'
<1>1. CASE \/ \E u \in User, n \in Name, k \in Knot : NewRepo(a, u, n, k)
           \/ \E u \in User, r \in rows :
                \/ \E n \in Name, k \in Knot : ForkRepo(a, u, r, n, k)
                \/ \E m \in User \ {u} : AddCollaboratorReq(a, u, r, m)
                \/ DeleteRepo(a, u, r)
  BY <1>1, RequestInv
<1>2. CASE PdsWrite(a)
  BY <1>2, PdsWriteInv
<1>3. CASE KnotCall(a)
  BY <1>3, KnotCallInv
<1>4. CASE Grant(a) \/ Purge(a) \/ Write(a)
  BY <1>4, MemoryInv
<1>5. CASE \/ PdsError(a) \/ RollbackRecord(a) \/ Commit(a) \/ TxError(a)
           \/ SavePolicy(a) \/ SaveError(a) \/ LoadPolicy(a)
  BY <1>5, StoreInv
<1>6. QED
  BY <1>1, <1>2, <1>3, <1>4, <1>5 DEF Step

(* A knot takes a collaborator in whose record the owner wrote: the path   *)
(* that the record named when it was written is the one found now.         *)
LEMMA CollaboratorInv ==
  ASSUME IInv, NEW k \in Knot, processCollaborator(k)
  PROVE  IInv'
<1> DEFINE c == Head(feed[k])
           found(r) == /\ AtUri(r) = c.at
                       /\ Enforce(kpol[k], c.did, Domain(k), PathOf(r), "repo:invite")
           rs == {r \in records.repo : found(r)}
           it == CHOOSE r \in rs : TRUE
<1>1. /\ feed[k] # << >> /\ feed' = [feed EXCEPT ![k] = Tail(@)]
      /\ UNCHANGED <<rows, records, pc, job, mem, disk, invited, calls, others>>
      /\ kpol' = [kpol EXCEPT ![k] =
                    IF rs = {} THEN @
                    ELSE AddCollaborator(@, c.subject, Domain(k), PathOf(it))]
  BY DEF processCollaborator, stores, hist, bounds
<1>2. feed \in [Knot -> Seq(SomeCollab)] /\ DOMAIN kpol = Knot
  BY DEF IInv, Control, Types
<1>3. /\ feed[k] \in Seq(SomeCollab) /\ Tail(feed[k]) \in Seq(SomeCollab)
      /\ Len(Tail(feed[k])) = Len(feed[k]) - 1
      /\ \A i \in 1..Len(Tail(feed[k])) : Tail(feed[k])[i] = feed[k][i + 1]
      /\ Len(feed[k]) \in Nat \ {0} /\ c = feed[k][1] /\ c \in SomeCollab
  BY <1>1, <1>2, HeadTailProperties, LenProperties, EmptySeq
<1>4. EventOK(c)
  <2>1. 1 \in 1..Len(feed[k])
    BY <1>3
  <2>2. QED
    BY <1>3, <2>1 DEF IInv, Control, FeedOK
<1>5. ASSUME rs # {} PROVE <<c.subject, PathOf(it)>> \in invited
  <2>1. it \in rs
    BY <1>5
  <2>2. it \in Known /\ AtUri(it) = c.at
        /\ Enforce(kpol[k], c.did, Domain(k), PathOf(it), "repo:invite")
    BY <2>1 DEF Known
  <2>3. c.did \in User /\ PolicyOK(kpol[k], invited)
    BY <1>3 DEF SomeCollab, IInv, Policies
  <2> HIDE DEF c, it, rs
  <2>4. c.did = PathOf(it)[1]
    BY <2>2, <2>3, InviterIsOwner
  <2>5. c.did = it.did
    BY <2>4 DEF PathOf
  <2>6. QED
    BY <1>4, <2>2, <2>5 DEF EventOK
<1>6. Known' = Known
  BY <1>1 DEF Known
<1>7. FeedOK'
  <2> SUFFICES ASSUME NEW n \in Knot, NEW i \in 1..Len(feed'[n])
               PROVE  EventOK(feed[n][i])'
    BY DEF FeedOK
  <2>1. ASSUME NEW e, EventOK(e) PROVE EventOK(e)'
    BY <1>1, <1>6, <2>1 DEF EventOK, AtUri, PathOf
  <2>2. \E m \in 1..Len(feed[n]) : feed'[n][i] = feed[n][m]
    <3>1. CASE n = k
      <4>1. feed'[n] = Tail(feed[k])
        BY <3>1, <1>1, <1>2
      <4>2. i + 1 \in 1..Len(feed[n]) /\ feed'[n][i] = feed[n][i + 1]
        BY <3>1, <4>1, <1>3
      <4>3. QED
        BY <4>2
    <3>2. CASE n # k
      BY <3>2, <1>1, <1>2
    <3>3. QED
      BY <3>1, <3>2
  <2>3. PICK m \in 1..Len(feed[n]) : feed'[n][i] = feed[n][m]
    BY <2>2
  <2>4. EventOK(feed[n][m])
    BY DEF IInv, Control, FeedOK
  <2>5. QED
    BY <2>1, <2>3, <2>4 DEF EventOK
<1>8. Types' /\ KeysOK' /\ \A a \in Request : JobOK(a)'
  <2>1. feed' \in [Knot -> Seq(SomeCollab)] /\ DOMAIN kpol' = Knot
    BY <1>1, <1>2, <1>3
  <2>2. Types'
    BY <1>1, <1>6, <2>1 DEF IInv, Control, Types
  <2>3. KeysOK'
    BY <1>1, <1>6 DEF IInv, Control, KeysOK, AtUri
  <2>4. QED
    BY <1>1, <2>2, <2>3 DEF IInv, Control, JobOK, PathOf
<1>9. Policies'
  <2> HIDE DEF c, it, rs
  <2>1. ASSUME NEW n \in Knot PROVE PolicyOK(kpol'[n], invited)
    <3>1. PolicyOK(kpol[n], invited)
      BY DEF IInv, Policies
    <3>2. rs # {} => PolicyOK(AddCollaborator(kpol[n], c.subject, Domain(k), PathOf(it)), invited)
      BY <1>5, <3>1, AddCollaboratorOK
    <3>3. QED
      BY <1>1, <1>2, <3>1, <3>2
  <2>2. QED
    BY <1>1, <2>1 DEF IInv, Policies
<1>10. QED
  BY <1>7, <1>8, <1>9 DEF IInv, Control

(* Another client's record is an invitation if its author is the owner. *)
LEMMA OtherClientInv ==
  ASSUME IInv, NEW u \in User, NEW m \in User, NEW r \in rows, OtherClient(u, m, r)
  PROVE  IInv'
<1> DEFINE c == [did |-> u, rkey |-> calls + others + 1, subject |-> m, at |-> AtUri(r)]
<1>1. /\ Announce(c, PathOf(r)) /\ calls' = calls /\ others' = others + 1
      /\ UNCHANGED <<rows, mem, disk, kpol, pc, job>>
  BY DEF OtherClient, stores
<1>2. r \in Known /\ r \in SomeRepo /\ calls \in Nat /\ others \in Nat
  BY DEF Known, IInv, Control, Types
<1>3. calls' \in Nat /\ others' \in Nat /\ calls + others <= calls' + others'
  BY <1>1, <1>2
<1>4. c \in SomeCollab /\ c.at = AtUri(r)
  BY <1>2 DEF SomeCollab, SomeRepo, AtUri
<1> HIDE DEF c
<1>5. records' = [records EXCEPT !.collab = @ \cup {c}]
  BY <1>1 DEF Announce
<1>6. Known' \subseteq Known
  BY <1>1, <1>5 DEF Known, IInv, Control, Types
<1>7. /\ KeysOK' /\ FeedOK' /\ feed' \in [Knot -> Seq(SomeCollab)]
      /\ invited \subseteq invited'
  BY <1>1, <1>2, <1>3, <1>4, <1>6, AnnounceKept DEF IInv
<1>8. Types'
  BY <1>1, <1>3, <1>5, <1>6, <1>7 DEF IInv, Control, Types
<1>9. \A a \in Request : JobOK(a)'
  BY <1>1, <1>7 DEF IInv, Control, JobOK, PathOf
<1>10. Policies'
  BY <1>1, <1>7, InvitedGrows DEF IInv, Policies
<1>11. QED
  BY <1>7, <1>8, <1>9, <1>10 DEF IInv, Control

(* After a restart the policies are those on disk. *)
LEMMA CrashInv ==
  ASSUME IInv, Crash
  PROVE  IInv'
<1>1. /\ mem' = disk /\ disk' = disk
      /\ pc' = [a \in Request |-> "idle"] /\ job' = [a \in Request |-> Idle]
      /\ UNCHANGED <<rows, records, kpol, feed, invited, calls, others>>
  BY DEF Crash, Fail, world
<1>2. Known' \subseteq Known
  BY <1>1 DEF Known
<1>3. Types'
  BY <1>1, <1>2 DEF IInv, Control, Types, Where
<1>4. KeysOK' /\ FeedOK'
  BY <1>1, <1>2, KnownKept DEF IInv
<1>5. \A a \in Request : JobOK(a)'
  BY <1>1 DEF JobOK
<1>6. QED
  BY <1>1, <1>3, <1>4, <1>5 DEF IInv, Control, Policies

(* The invariant is inductive. *)
LEMMA NextInv == IInv /\ [Next]_vars => IInv'
<1> SUFFICES ASSUME IInv, [Next]_vars PROVE IInv'
  OBVIOUS
<1>1. CASE UNCHANGED vars
  <2>1. UNCHANGED <<rows, records, mem, disk, kpol, feed, pc, job, invited, calls, others>>
    BY <1>1 DEF vars, stores, world, hist, bounds
  <2>2. Known' \subseteq Known
    BY <2>1 DEF Known
  <2>3. Types'
    BY <2>1, <2>2 DEF IInv, Control, Types
  <2>4. KeysOK' /\ FeedOK'
    BY <2>1, <2>2, KnownKept DEF IInv
  <2>5. (\A a \in Request : JobOK(a)') /\ Policies'
    BY <2>1 DEF IInv, Control, JobOK, PathOf, Policies
  <2>6. QED
    BY <2>3, <2>4, <2>5 DEF IInv, Control
<1>2. CASE \E a \in Request : Step(a)
  BY <1>2, StepInv
<1>3. CASE \E k \in Knot : processCollaborator(k)
  BY <1>3, CollaboratorInv
<1>4. CASE \E u, m \in User, r \in rows : OtherClient(u, m, r)
  BY <1>4, OtherClientInv
<1>5. CASE Crash
  BY <1>5, CrashInv
<1>6. QED
  BY <1>1, <1>2, <1>3, <1>4, <1>5 DEF Next

(***************************************************************************)
(* For any accounts, knots, names, requests, faults and bounds, in the     *)
(* appview's memory, on its disk and on every knot: the rule that lets     *)
(* somebody push to a repository is its owner's or that of somebody a      *)
(* collaborator record of the owner named.                                 *)
(***************************************************************************)
THEOREM PushersWereInvited == Spec => []PushWasInvited
<1>1. IInv => PushWasInvited
  BY DEF IInv, Policies, PolicyOK, RuleOK, PushWasInvited
<1>2. QED
  BY InitInv, NextInv, <1>1, PTL DEF Spec

----------------------------------------------------------------------------
(***************************************************************************)
(* The rules of the owner of a path.  A batch is added or removed as a     *)
(* whole, so that either all of them are there or none.                    *)
(***************************************************************************)
OwnerRules(path, k) == repoPolicies(path[1], Domain(k), path)

Owned(pol, path, k) == OwnerRules(path, k) \subseteq pol.p

Whole(pol) ==
  \A path \in Path, k \in Knot : Owned(pol, path, k) \/ OwnerRules(path, k) \cap pol.p = {}

(* new and pol agree on the owner's rules for every other path and knot. *)
Elsewhere(pol, new, path, k) ==
  \A q \in Path, n \in Knot : q # path \/ n # k => (Owned(new, q, n) <=> Owned(pol, q, n))

(* A rule of an owner tells its path and knot. *)
LEMMA RuleShape ==
  ASSUME NEW path, NEW k, NEW x \in OwnerRules(path, k)
  PROVE  x[2] = Domain(k) /\ x[3] = path /\ x[1] \in {path[1], Owner}
BY DEF OwnerRules, repoPolicies

LEMMA RulesApart ==
  ASSUME NEW path, NEW k, NEW q, NEW n, q # path \/ n # k
  PROVE  OwnerRules(path, k) \cap OwnerRules(q, n) = {}
<1>1. Domain(k) = Domain(n) => k = n
  BY DEF Domain
<1>2. QED
  BY <1>1, RuleShape

(* "repo:owner" stands for all of them. *)
LEMMA OwnerRule ==
  ASSUME NEW pol, Whole(pol), NEW path \in Path, NEW k \in Knot
  PROVE  /\ Has(pol, path[1], k, path, "repo:owner") <=> Owned(pol, path, k)
         /\ Has(pol, path[1], k, path, "repo:invite") <=> Owned(pol, path, k)
         /\ OwnerRules(path, k) \cap pol.p # {} <=> Owned(pol, path, k)
<1>1. <<path[1], Domain(k), path, "repo:owner">> \in OwnerRules(path, k)
      /\ <<path[1], Domain(k), path, "repo:invite">> \in OwnerRules(path, k)
  BY DEF OwnerRules, repoPolicies
<1>2. QED
  BY <1>1 DEF Whole, Owned, Has

LEMMA AddRepoRules ==
  ASSUME NEW pol, IsPolicy(pol), Whole(pol), NEW path \in Path, NEW k \in Knot
  PROVE  LET new == AddRepo(pol, path[1], Domain(k), path)
         IN  Whole(new) /\ Owned(new, path, k) /\ Elsewhere(pol, new, path, k)
<1> DEFINE new == AddRepo(pol, path[1], Domain(k), path)
           b == OwnerRules(path, k)
<1>1. new = IF b \cap pol.p = {} THEN [pol EXCEPT !.p = @ \cup b] ELSE pol
  BY DEF AddRepo, AddPolicies, OwnerRules
<1>2. new.p = pol.p \cup b
  <2>1. CASE b \cap pol.p = {}
    BY <2>1, <1>1 DEF IsPolicy
  <2>2. CASE b \cap pol.p # {}
    BY <2>2, <1>1, OwnerRule DEF Owned
  <2>3. QED
    BY <2>1, <2>2
<1>3. Owned(new, path, k)
  BY <1>2 DEF Owned
<1>4. ASSUME NEW q \in Path, NEW n \in Knot, q # path \/ n # k
      PROVE  /\ Owned(new, q, n) <=> Owned(pol, q, n)
             /\ Owned(pol, q, n) \/ OwnerRules(q, n) \cap new.p = {}
  <2>1. b \cap OwnerRules(q, n) = {}
    BY <1>4, RulesApart
  <2>2. QED
    BY <1>2, <2>1 DEF Owned, Whole
<1> HIDE DEF new, b
<1>5. QED
  BY <1>3, <1>4 DEF Whole, Elsewhere, new

LEMMA RemovedRules ==
  ASSUME NEW pol, Whole(pol), NEW new, NEW path \in Path, NEW k \in Knot,
         NEW gone, OwnerRules(path, k) \subseteq gone, new.p = pol.p \ gone,
         \A x \in gone : x[2] = Domain(k) /\ x[3] = path
  PROVE  Whole(new) /\ ~Owned(new, path, k) /\ Elsewhere(pol, new, path, k)
<1>1. <<path[1], Domain(k), path, "repo:owner">> \in OwnerRules(path, k)
  BY DEF OwnerRules, repoPolicies
<1>2. ~Owned(new, path, k) /\ OwnerRules(path, k) \cap new.p = {}
  BY <1>1 DEF Owned
<1>3. ASSUME NEW q \in Path, NEW n \in Knot, q # path \/ n # k
      PROVE  /\ Owned(new, q, n) <=> Owned(pol, q, n)
             /\ Owned(pol, q, n) \/ OwnerRules(q, n) \cap new.p = {}
  <2>1. Domain(k) = Domain(n) => k = n
    BY DEF Domain
  <2>2. gone \cap OwnerRules(q, n) = {}
    BY <1>3, <2>1, RuleShape
  <2>3. QED
    BY <2>2 DEF Owned, Whole
<1>4. QED
  BY <1>2, <1>3 DEF Whole, Elsewhere

LEMMA RemoveRepoRules ==
  ASSUME NEW pol, IsPolicy(pol), Whole(pol), NEW path \in Path, NEW k \in Knot
  PROVE  LET new == RemoveRepo(pol, path[1], Domain(k), path)
         IN  Whole(new) /\ ~Owned(new, path, k) /\ Elsewhere(pol, new, path, k)
<1> DEFINE new == RemoveRepo(pol, path[1], Domain(k), path)
<1>1. new.p = pol.p \ OwnerRules(path, k)
  BY DEF RemoveRepo, RemovePolicies, IsPolicy, OwnerRules
<1> HIDE DEF new
<1>2. QED
  BY <1>1, RuleShape, RemovedRules DEF new

LEMMA PurgeRules ==
  ASSUME NEW pol, IsPolicy(pol), Whole(pol), NEW path \in Path, NEW k \in Knot
  PROVE  LET theirs == UNION {collaboratorPolicies(u, Domain(k), path) : u \in User}
             new == RemoveRepo(RemovePolicies(pol, theirs), path[1], Domain(k), path)
         IN  /\ Whole(new) /\ ~Owned(new, path, k) /\ Elsewhere(pol, new, path, k)
             /\ new.p = pol.p \ (OwnerRules(path, k) \cup theirs)
<1> DEFINE theirs == UNION {collaboratorPolicies(u, Domain(k), path) : u \in User}
           new == RemoveRepo(RemovePolicies(pol, theirs), path[1], Domain(k), path)
<1>1. new.p = pol.p \ (OwnerRules(path, k) \cup theirs)
  BY DEF RemoveRepo, RemovePolicies, IsPolicy, OwnerRules
<1>2. \A x \in theirs : x[2] = Domain(k) /\ x[3] = path
  BY DEF collaboratorPolicies
<1> HIDE DEF new, theirs
<1>3. \A x \in OwnerRules(path, k) \cup theirs : x[2] = Domain(k) /\ x[3] = path
  BY <1>2, RuleShape
<1> DEFINE gone == OwnerRules(path, k) \cup theirs
<1>4. OwnerRules(path, k) \subseteq gone /\ new.p = pol.p \ gone
  BY <1>1
<1> HIDE DEF gone
<1>5. Whole(new) /\ ~Owned(new, path, k) /\ Elsewhere(pol, new, path, k)
  <2>1. \A x \in gone : x[2] = Domain(k) /\ x[3] = path
    BY <1>3 DEF gone
  <2>2. QED
    BY <1>4, <2>1, RemovedRules
<1>6. QED
  BY <1>1, <1>5 DEF new, theirs

(* A collaborator other than the owner changes no rule of an owner. *)
LEMMA CollaboratorRules ==
  ASSUME NEW pol, IsPolicy(pol), NEW path \in Path, NEW k \in Knot, NEW u \in User,
         u # path[1]
  PROVE  LET new == AddCollaborator(pol, u, Domain(k), path)
         IN  \A q \in Path, n \in Knot : OwnerRules(q, n) \cap new.p = OwnerRules(q, n) \cap pol.p
<1> DEFINE new == AddCollaborator(pol, u, Domain(k), path)
           b == collaboratorPolicies(u, Domain(k), path)
<1>1. \A x \in b : x[1] = u /\ x[3] = path
  BY DEF collaboratorPolicies
<1>2. new.p = pol.p \cup b \/ new.p = pol.p
  BY DEF AddCollaborator, AddPolicies, IsPolicy
<1> HIDE DEF new, b
<1>3. ASSUME NEW q \in Path, NEW n \in Knot, NEW x \in OwnerRules(q, n) PROVE x \notin b
  <2>1. x[3] = q /\ x[1] \in {q[1], Owner}
    BY RuleShape
  <2>2. Owner # u
    BY ReposAssumption
  <2>3. QED
    BY <1>1, <2>1, <2>2
<1>4. QED
  BY <1>2, <1>3 DEF new

(* Policies that agree on the rules of the owners agree on who owns what. *)
LEMMA SameOwners ==
  ASSUME NEW pol, NEW new,
         \A q \in Path, n \in Knot : OwnerRules(q, n) \cap new.p = OwnerRules(q, n) \cap pol.p
  PROVE  /\ \A q \in Path, n \in Knot : Owned(new, q, n) <=> Owned(pol, q, n)
         /\ Whole(pol) => Whole(new)
BY DEF Owned, Whole

(* The owner's rules keep the owner from becoming a collaborator. *)
LEMMA OwnerStaysOwner ==
  ASSUME NEW pol, NEW path, NEW k, Owned(pol, path, k)
  PROVE  AddCollaborator(pol, path[1], Domain(k), path) = pol
<1>1. <<path[1], Domain(k), path, "repo:push">> \in OwnerRules(path, k)
  BY DEF OwnerRules, repoPolicies
<1>2. <<path[1], Domain(k), path, "repo:push">> \in collaboratorPolicies(path[1], Domain(k), path)
  BY DEF collaboratorPolicies
<1>3. QED
  BY <1>1, <1>2 DEF AddCollaborator, AddPolicies, Owned

----------------------------------------------------------------------------
(***************************************************************************)
(* What a request is doing tells about its repository.                     *)
(***************************************************************************)

(* Where each kind of request may be; whoever commits holds the lock. *)
Stage(a) ==
  /\ pc[a] = "knot" => job[a].op \in {"create", "delete"}
  /\ pc[a] = "grant" => job[a].op = "invite"
  /\ pc[a] = "purge" => job[a].op = "delete"
  /\ pc[a] \in {"abort", "unput"} => job[a].op \in {"create", "invite"}
  /\ pc[a] = "commit" => lock = a
  /\ pc[a] # "idle" /\ job[a].op = "invite" => job[a].subject # job[a].repo.did

(* A repository that is being created is new: it has no row, and no other  *)
(* request knows it.                                                       *)
Inventing(a) == job[a].op = "create" /\ pc[a] \in {"put", "knot", "write", "commit"}

Fresh(a) ==
  Inventing(a) =>
    /\ job[a].repo \notin rows
    /\ \A b \in Request \ {a} : pc[b] # "idle" => job[b].repo # job[a].repo

Stages == \A a \in Request : Stage(a) /\ Fresh(a)

(* What the others see when a request moves. *)
LEMMA GotoJob ==
  ASSUME IInv, NEW a \in Request, NEW l, pc[a] # "idle", Goto(a, l)
  PROVE  /\ pc'[a] = l /\ (l # "idle" => job'[a] = job[a])
         /\ l = "idle" => job'[a] = Idle
         /\ \A b \in Request \ {a} : pc'[b] = pc[b] /\ job'[b] = job[b]
         /\ DOMAIN pc' = Request /\ DOMAIN job' = Request
BY DEF Goto, IInv, Control, Types

LEMMA GotoStages ==
  ASSUME IInv, Stages, NEW a \in Request, NEW l, pc[a] # "idle", Goto(a, l),
         rows' \subseteq rows \cup {job[a].repo},
         job[a].repo \in rows' => job[a].repo \in rows \/ Inventing(a),
         \A b \in Request \ {a} : lock = b => lock' = b,
         l = "knot" => job[a].op \in {"create", "delete"},
         l = "grant" => job[a].op = "invite",
         l = "purge" => job[a].op = "delete",
         l \in {"abort", "unput"} => job[a].op \in {"create", "invite"},
         l = "commit" => lock' = a,
         job[a].op = "create" /\ l \in {"put", "knot", "write", "commit"} =>
           pc[a] \in {"put", "knot", "write", "commit"} /\ rows' = rows
  PROVE  Stages'
<1>1. /\ pc'[a] = l /\ (l # "idle" => job'[a] = job[a])
      /\ l = "idle" => job'[a] = Idle
      /\ \A b \in Request \ {a} : pc'[b] = pc[b] /\ job'[b] = job[b]
  BY GotoJob
<1>2. Stage(a)'
  BY <1>1 DEF Stages, Stage
<1>3. Fresh(a)'
  BY <1>1 DEF Stages, Fresh, Inventing
<1>4. ASSUME NEW b \in Request \ {a} PROVE Stage(b)'
  BY <1>1 DEF Stages, Stage
<1>5. ASSUME NEW b \in Request \ {a} PROVE Fresh(b)'
  <2>1. Inventing(b)' => Inventing(b) /\ job'[b] = job[b]
    BY <1>1 DEF Inventing
  <2>2. Inventing(b) => job[b].repo # job[a].repo /\ job[b].repo \notin rows
    BY DEF Stages, Fresh
  <2>3. \A c \in Request : pc'[c] # "idle" => pc[c] # "idle" /\ job'[c] = job[c]
    BY <1>1
  <2>4. QED
    BY <2>1, <2>2, <2>3 DEF Stages, Fresh
<1>6. QED
  BY <1>2, <1>3, <1>4, <1>5 DEF Stages

(* A request begins; one that creates has a new key. *)
LEMMA CallStages ==
  ASSUME IInv, Stages, NEW a \in Request, NEW op \in {"create", "invite", "delete"}, NEW u,
         NEW r, NEW m, NEW from, op = "invite" => m # r.did,
         \/ op = "create" /\ r.rkey = calls + others + 1
         \/ op # "create" /\ r \in rows,
         Call(a, op, u, r, m, from, "put")
  PROVE  Stages'
<1> DEFINE j == [op |-> op, user |-> u, repo |-> r, subject |-> m,
                 from |-> from, rkey |-> calls + others + 1]
<1>1. /\ pc[a] = "idle" /\ pc' = [pc EXCEPT ![a] = "put"] /\ job' = [job EXCEPT ![a] = j]
      /\ UNCHANGED <<rows, lock>>
  BY DEF Call, stores
<1>2. j.op = op /\ j.repo = r /\ j.subject = m
  OBVIOUS
<1> HIDE DEF j
<1>3. /\ pc'[a] = "put" /\ job'[a] = j
      /\ \A b \in Request \ {a} : pc'[b] = pc[b] /\ job'[b] = job[b]
  BY <1>1 DEF IInv, Control, Types
<1>4. ASSUME NEW q \in Known PROVE q.rkey # calls + others + 1
  <2>1. q.rkey <= calls + others /\ q.rkey \in Nat /\ calls \in Nat /\ others \in Nat
    BY DEF IInv, Control, KeysOK, Types, SomeRepo
  <2>2. QED
    BY <2>1
<1>5. Stage(a)'
  BY <1>2, <1>3 DEF Stage
<1>6. Fresh(a)'
  <2>1. CASE op = "create"
    <3>1. r \notin Known
      BY <2>1, <1>4
    <3>2. QED
      BY <3>1, <1>1, <1>2, <1>3 DEF Fresh, Known
  <2>2. QED
    BY <2>1, <1>2, <1>3 DEF Fresh, Inventing
<1>7. ASSUME NEW b \in Request \ {a} PROVE Stage(b)'
  BY <1>1, <1>3 DEF Stages, Stage
<1>8. ASSUME NEW b \in Request \ {a} PROVE Fresh(b)'
  <2>1. Inventing(b)' => Inventing(b) /\ job'[b] = job[b]
    BY <1>3 DEF Inventing
  <2>2. Inventing(b) => r # job[b].repo
    <3>1. Inventing(b) => job[b].repo \in Known /\ job[b].repo \notin rows
      BY DEF Inventing, Known, Stages, Fresh
    <3>2. QED
      BY <3>1, <1>4
  <2>3. QED
    BY <2>1, <2>2, <1>1, <1>2, <1>3 DEF Stages, Fresh
<1>9. QED
  BY <1>5, <1>6, <1>7, <1>8 DEF Stages

(* Steps of a request that touch neither rows nor lock. *)
LEMMA CallsStages ==
  ASSUME IInv, Stages, NEW a \in Request,
         \/ PdsWrite(a) \/ PdsError(a) \/ RollbackRecord(a) \/ KnotCall(a)
         \/ Grant(a) \/ Purge(a) \/ SavePolicy(a) \/ SaveError(a) \/ LoadPolicy(a)
  PROVE  Stages'
<1>1. pc[a] # "idle" /\ rows' = rows /\ lock' = lock
  BY DEF PdsWrite, PdsError, RollbackRecord, KnotCall, Grant, Purge, SavePolicy, SaveError,
         LoadPolicy, stores
<1>2. Stage(a) /\ job[a].op \in {"create", "invite", "delete"}
  BY <1>1 DEF Stages, IInv, Control, JobOK
<1>3. CASE PdsWrite(a)
  <2>1. CASE job[a].op = "invite"
    <3>1. Goto(a, "grant")
      BY <1>3, <2>1 DEF PdsWrite
    <3>2. QED
      BY <1>1, <2>1, <3>1, GotoStages
  <2>2. CASE job[a].op # "invite"
    <3>1. Goto(a, "knot") /\ pc[a] = "put"
      BY <1>2, <1>3, <2>2 DEF PdsWrite
    <3>2. QED
      BY <1>1, <1>2, <2>2, <3>1, GotoStages
  <2>3. QED
    BY <2>1, <2>2
<1>4. CASE PdsError(a) \/ RollbackRecord(a)
  <2>1. Goto(a, "idle")
    BY <1>4 DEF PdsError, RollbackRecord
  <2>2. QED
    BY <1>1, <2>1, GotoStages
<1>5. CASE KnotCall(a)
  <2>1. CASE job[a].op = "create"
    <3>1. pc[a] = "knot" /\ (Goto(a, "write") \/ Goto(a, "abort"))
      BY <1>5, <2>1 DEF KnotCall, Failed
    <3>2. QED
      BY <1>1, <2>1, <3>1, GotoStages
  <2>2. CASE job[a].op = "delete"
    <3>1. pc[a] = "knot" /\ (Goto(a, "purge") \/ Goto(a, "idle"))
      BY <1>5, <2>2 DEF KnotCall, Failed
    <3>2. QED
      BY <1>1, <2>2, <3>1, GotoStages
  <2>3. QED
    BY <1>2, <1>5, <2>1, <2>2 DEF Stage, KnotCall
<1>6. CASE Grant(a) \/ Purge(a)
  <2>1. Goto(a, "write") /\ job[a].op # "create"
    BY <1>2, <1>6 DEF Grant, Purge, Stage
  <2>2. QED
    BY <1>1, <2>1, GotoStages
<1>7. CASE SavePolicy(a)
  <2>1. Goto(a, "load")
    BY <1>7 DEF SavePolicy
  <2>2. QED
    BY <1>1, <2>1, GotoStages
<1>8. CASE SaveError(a)
  <2>1. Goto(a, "load") \/ (Goto(a, "abort") /\ job[a].op # "delete")
    BY <1>8 DEF SaveError
  <2>2. QED
    BY <1>1, <1>2, <2>1, GotoStages
<1>9. CASE LoadPolicy(a)
  <2>1. \/ Goto(a, "idle")
        \/ Goto(a, "unput") /\ pc[a] = "abort"
    BY <1>9 DEF LoadPolicy
  <2>2. QED
    BY <1>1, <1>2, <2>1, GotoStages DEF Stage
<1>10. QED
  BY <1>3, <1>4, <1>5, <1>6, <1>7, <1>8, <1>9

(* Steps of the transaction. *)
LEMMA TxStages ==
  ASSUME IInv, Stages, NEW a \in Request, Write(a) \/ Commit(a) \/ TxError(a)
  PROVE  Stages'
<1>1. pc[a] # "idle"
  BY DEF Write, Commit, TxError
<1>2. Stage(a) /\ job[a].op \in {"create", "invite", "delete"}
  BY <1>1 DEF Stages, IInv, Control, JobOK
<1>3. CASE Write(a)
  <2>1. pc[a] = "write" /\ lock = Nobody /\ rows' = rows
    BY <1>3 DEF Write
  <2>2. \A b \in Request : lock # b
    BY <2>1, ReposAssumption
  <2>3. \/ Goto(a, "abort") /\ job[a].op = "invite"
        \/ Goto(a, "commit") /\ lock' = a
    BY <1>3 DEF Write
  <2>4. QED
    BY <1>1, <2>1, <2>2, <2>3, GotoStages
<1>4. CASE Commit(a)
  <2>1. pc[a] = "commit" /\ lock = a /\ Goto(a, "save") /\ rows' = TxRows(a)
    BY <1>2, <1>4 DEF Commit, Stage
  <2>2. rows' \subseteq rows \cup {job[a].repo}
    BY <2>1, <1>2 DEF TxRows
  <2>3. job[a].repo \in rows' => job[a].repo \in rows \/ Inventing(a)
    BY <2>1, <1>2 DEF TxRows, Inventing
  <2>4. QED
    BY <1>1, <2>1, <2>2, <2>3, GotoStages
<1>5. CASE TxError(a)
  <2>1. pc[a] = "commit" /\ lock = a /\ rows' = rows
    BY <1>2, <1>5 DEF TxError, Stage
  <2>2. Goto(a, "load") \/ (Goto(a, "abort") /\ job[a].op # "delete")
    BY <1>5 DEF TxError
  <2>3. QED
    BY <1>1, <1>2, <2>1, <2>2, GotoStages
<1>6. QED
  BY <1>3, <1>4, <1>5

LEMMA RequestStages ==
  ASSUME IInv, Stages, NEW a \in Request, NEW u \in User,
         \/ \E n \in Name, k \in Knot : NewRepo(a, u, n, k)
         \/ \E r \in rows :
              \/ \E n \in Name, k \in Knot : ForkRepo(a, u, r, n, k)
              \/ \E m \in User \ {u} : AddCollaboratorReq(a, u, r, m)
              \/ DeleteRepo(a, u, r)
  PROVE  Stages'
<1> DEFINE fresh(n, k) == [did |-> u, name |-> n, knot |-> k, rkey |-> calls + others + 1]
<1>1. \A n, k : fresh(n, k).rkey = calls + others + 1
  OBVIOUS
<1> HIDE DEF fresh
<1>2. CASE \E n \in Name, k \in Knot : NewRepo(a, u, n, k)
  BY <1>1, <1>2, CallStages DEF NewRepo, fresh
<1>3. CASE \E r \in rows, n \in Name, k \in Knot : ForkRepo(a, u, r, n, k)
  BY <1>1, <1>3, CallStages DEF ForkRepo, fresh
<1>4. ASSUME NEW r \in rows, NEW m \in User \ {u}, AddCollaboratorReq(a, u, r, m)
      PROVE  Stages'
  <2>1. u = PathOf(r)[1]
    BY <1>4, InviterIsOwner DEF AddCollaboratorReq, RepoPermission, IInv, Policies
  <2>2. m # r.did
    BY <2>1 DEF PathOf
  <2>3. QED
    BY <1>4, <2>2, CallStages DEF AddCollaboratorReq
<1>5. CASE \E r \in rows : DeleteRepo(a, u, r)
  BY <1>5, CallStages DEF DeleteRepo
<1>6. QED
  BY <1>2, <1>3, <1>4, <1>5

(* The others leave requests, rows and lock alone. *)
LEMMA NextStages ==
  ASSUME IInv, Stages, [Next]_vars
  PROVE  Stages'
<1>1. ASSUME NEW a \in Request, Step(a) PROVE Stages'
  BY <1>1, RequestStages, CallsStages, TxStages DEF Step
<1>2. CASE UNCHANGED <<rows, lock, pc, job>>
  BY <1>2 DEF Stages, Stage, Fresh, Inventing
<1>3. CASE Crash
  BY <1>3 DEF Crash, Stages, Stage, Fresh, Inventing, Idle
<1>4. CASE \/ UNCHANGED vars
           \/ \E k \in Knot : processCollaborator(k)
           \/ \E u, m \in User, r \in rows : OtherClient(u, m, r)
  BY <1>2, <1>4 DEF vars, stores, processCollaborator, OtherClient
<1>5. QED
  BY <1>1, <1>3, <1>4 DEF Next

----------------------------------------------------------------------------
(***************************************************************************)
(* Rows and records of a repository.                                       *)
(***************************************************************************)
Recorded(a)   == job[a].op = "create" /\ pc[a] \in {"knot", "write", "commit"}
Undoing(a)    == job[a].op = "create" /\ pc[a] \in {"abort", "unput"}
Unrecorded(a) == job[a].op = "delete" /\ pc[a] \in {"knot", "purge", "write", "commit"}

Scarred(r) == PathOf(r) \in scarred

(* What a request knows of the record and the row of its repository. *)
RecordOf(a) ==
  LET r == job[a].repo IN
  /\ Recorded(a)   => r \in records.repo
  /\ Undoing(a)    => r \notin rows \/ Scarred(r)
  /\ Unrecorded(a) => r \notin records.repo \/ Scarred(r)

(* One without the other is the work of a request. *)
RowRecord(r) ==
  /\ r \in records.repo =>
       \/ r \in rows \/ Scarred(r)
       \/ \E a \in Request : (Recorded(a) \/ Undoing(a)) /\ job[a].repo = r
  /\ r \in rows =>
       \/ r \in records.repo \/ Scarred(r)
       \/ \E a \in Request : Unrecorded(a) /\ job[a].repo = r

RecordsKept ==
  /\ \A a \in Request : RecordOf(a)
  /\ \A r \in rows \cup records.repo : RowRecord(r)

LEMMA GotoRecords ==
  ASSUME IInv, Stages, RecordsKept, NEW a \in Request, NEW l, pc[a] # "idle", Goto(a, l),
         NEW own, own = job[a].repo,
         scarred \subseteq scarred',
         \A r \in Known : r # own =>
           /\ r \in records'.repo <=> r \in records.repo
           /\ (r \in rows' <=> r \in rows) \/ Scarred(r)',
         rows' \cup records'.repo \subseteq Known,
         own \in records'.repo => own \in records.repo \/ Inventing(a),
         rows' \subseteq rows \cup {own},
         own \in rows' => own \in rows \/ Inventing(a),
         RecordOf(a)', RowRecord(own)'
  PROVE  RecordsKept'
<1>1. /\ pc'[a] = l
      /\ \A b \in Request \ {a} : pc'[b] = pc[b] /\ job'[b] = job[b]
  BY GotoJob
<1>2. ASSUME NEW b \in Request \ {a} PROVE RecordOf(b)'
  <2>1. RecordOf(b) /\ Fresh(a) /\ Fresh(b) /\ pc'[b] = pc[b] /\ job'[b] = job[b]
    BY <1>1 DEF RecordsKept, Stages
  <2>2. pc[b] # "idle" => job[b].repo \in Known
    BY DEF Known
  <2>3. CASE Recorded(b)
    <3>1. job[b].repo # own
      BY <2>1, <2>3 DEF Recorded, Inventing, Fresh
    <3>2. job[b].repo \in Known
      BY <2>2, <2>3 DEF Recorded
    <3>3. QED
      BY <2>1, <2>3, <3>1, <3>2 DEF RecordOf, Recorded, Undoing, Unrecorded
  <2>4. CASE Undoing(b)
    <3>1. Inventing(a) => job[b].repo # own
      BY <2>1, <2>4 DEF Undoing, Fresh
    <3>2. job[b].repo \in rows' => job[b].repo \in rows
      BY <3>1
    <3>3. QED
      BY <2>1, <2>4, <3>2 DEF RecordOf, Recorded, Undoing, Unrecorded, Scarred, PathOf
  <2>5. CASE Unrecorded(b)
    <3>1. Inventing(a) => job[b].repo # own
      BY <2>1, <2>5 DEF Unrecorded, Fresh
    <3>2. job[b].repo \in Known
      BY <2>2, <2>5 DEF Unrecorded
    <3>3. job[b].repo \in records'.repo => job[b].repo \in records.repo
      BY <3>1, <3>2
    <3>4. QED
      BY <2>1, <2>5, <3>3 DEF RecordOf, Recorded, Undoing, Unrecorded, Scarred, PathOf
  <2>6. QED
    BY <2>1, <2>3, <2>4, <2>5 DEF RecordOf, Recorded, Undoing, Unrecorded
<1>3. ASSUME NEW r \in rows' \cup records'.repo PROVE RowRecord(r)'
  <2>1. CASE r = own
    BY <2>1 DEF RowRecord
  <2>2. CASE r # own
    <3>1. r \in Known /\ (r \in records'.repo <=> r \in records.repo)
          /\ ((r \in rows' <=> r \in rows) \/ Scarred(r)')
      BY <2>2
    <3>2. CASE Scarred(r)'
      BY <3>2 DEF RowRecord, Scarred
    <3>3. CASE r \in rows' <=> r \in rows
      <4>1. RowRecord(r)
        BY <3>1, <3>3 DEF RecordsKept
      <4>2. \A b \in Request : job[b].repo = r =>
              /\ Recorded(b) => Recorded(b)' /\ job'[b].repo = r
              /\ Undoing(b) => Undoing(b)' /\ job'[b].repo = r
              /\ Unrecorded(b) => Unrecorded(b)' /\ job'[b].repo = r
        BY <1>1, <2>2 DEF Recorded, Undoing, Unrecorded
      <4>3. QED
        BY <3>1, <3>3, <4>1, <4>2 DEF RowRecord, Scarred, PathOf
    <3>4. QED
      BY <3>1, <3>2, <3>3
  <2>3. QED
    BY <2>1, <2>2
<1>4. RecordOf(a)'
  OBVIOUS
<1>5. QED
  BY <1>2, <1>3, <1>4 DEF RecordsKept

(* A request that goes on, or gives up and leaves a scar. *)
LEMMA SteadyRecords ==
  ASSUME IInv, Stages, RecordsKept, NEW a \in Request, NEW l, pc[a] # "idle", Goto(a, l),
         NEW own, own = job[a].repo,
         scarred \subseteq scarred', rows' = rows, records'.repo = records.repo,
         \/ PathOf(own) \in scarred'
            /\ (job[a].op = "create" => l \notin {"knot", "write", "commit"})
         \/ /\ Recorded(a) /\ job[a].op = "create" => l \in {"write", "commit", "abort"}
            /\ Undoing(a) => l \in {"abort", "unput"}
            /\ Unrecorded(a) => l \in {"purge", "write", "commit"}
            /\ job[a].op = "create" => l # "knot"
            /\ job[a].op = "create" /\ l \in {"write", "commit"} => Recorded(a)
            /\ job[a].op = "create" /\ l \in {"abort", "unput"} => Recorded(a) \/ Undoing(a)
            /\ job[a].op = "delete" /\ l \in {"knot", "purge", "write", "commit"} => Unrecorded(a)
  PROVE  RecordsKept'
<1>1. /\ pc'[a] = l /\ (l # "idle" => job'[a] = job[a]) /\ (l = "idle" => job'[a] = Idle)
      /\ \A b \in Request \ {a} : pc'[b] = pc[b] /\ job'[b] = job[b]
  BY GotoJob
<1>2. own \in Known /\ rows \cup records.repo \subseteq Known
  BY DEF Known
<1>3. RecordOf(a) /\ Fresh(a) /\ (own \in rows \cup records.repo => RowRecord(own))
  BY DEF RecordsKept, Stages
<1>4. CASE PathOf(own) \in scarred' /\ (job[a].op = "create" => l \notin {"knot", "write", "commit"})
  <2>1. RecordOf(a)'
    BY <1>1, <1>4 DEF RecordOf, Recorded, Undoing, Unrecorded, Scarred, PathOf
  <2>2. RowRecord(own)'
    BY <1>4 DEF RowRecord, Scarred, PathOf
  <2>3. QED
    BY <1>2, <2>1, <2>2, GotoRecords
<1>5. CASE /\ Recorded(a) /\ job[a].op = "create" => l \in {"write", "commit", "abort"}
           /\ Undoing(a) => l \in {"abort", "unput"}
           /\ Unrecorded(a) => l \in {"purge", "write", "commit"}
           /\ job[a].op = "create" => l # "knot"
           /\ job[a].op = "create" /\ l \in {"write", "commit"} => Recorded(a)
           /\ job[a].op = "create" /\ l \in {"abort", "unput"} => Recorded(a) \/ Undoing(a)
           /\ job[a].op = "delete" /\ l \in {"knot", "purge", "write", "commit"} => Unrecorded(a)
  <2>1. RecordOf(a)'
    <3>1. Recorded(a)' => own \in records'.repo
      BY <1>1, <1>3, <1>5 DEF RecordOf, Recorded
    <3>2. Undoing(a)' => own \notin rows' \/ Scarred(own)'
      BY <1>1, <1>3, <1>5 DEF RecordOf, Recorded, Undoing, Fresh, Inventing, Scarred, PathOf
    <3>3. Unrecorded(a)' => own \notin records'.repo \/ Scarred(own)'
      BY <1>1, <1>3, <1>5 DEF RecordOf, Unrecorded, Scarred, PathOf
    <3>4. Recorded(a)' \/ Undoing(a)' \/ Unrecorded(a)' => job'[a].repo = own
      BY <1>1 DEF Recorded, Undoing, Unrecorded
    <3>5. QED
      BY <3>1, <3>2, <3>3, <3>4 DEF RecordOf, Scarred
  <2>2. RowRecord(own)'
    <3>1. \A b \in Request : 
            /\ Recorded(b) => (Recorded(b)' \/ Undoing(b)') /\ job'[b].repo = job[b].repo
            /\ Undoing(b) => Undoing(b)' /\ job'[b].repo = job[b].repo
            /\ Unrecorded(b) => Unrecorded(b)' /\ job'[b].repo = job[b].repo
      BY <1>1, <1>5 DEF Recorded, Undoing, Unrecorded
    <3>2. QED
      BY <1>3, <3>1 DEF RowRecord, Scarred, PathOf
  <2>3. QED
    BY <1>2, <2>1, <2>2, GotoRecords
<1>6. QED
  BY <1>4, <1>5

LEMMA PdsWriteRecords ==
  ASSUME IInv, Stages, RecordsKept, NEW a \in Request, PdsWrite(a)
  PROVE  RecordsKept'
<1> DEFINE own == job[a].repo
<1>1. /\ pc[a] = "put" /\ own \in Known /\ own \in SomeRepo
      /\ rows' = rows /\ rows \cup records.repo \subseteq Known
  BY JobKnown DEF PdsWrite, IInv, stores, Known
<1>2. records = [repo |-> records.repo, collab |-> records.collab]
  BY DEF IInv, Control, Types
<1>3. Fresh(a) /\ job[a].op \in {"create", "invite", "delete"}
  BY <1>1 DEF Stages, IInv, Control, JobOK
<1>4. CASE job[a].op = "create"
  <2>1. /\ Goto(a, "knot") /\ scarred' = scarred
        /\ records'.repo = records.repo \cup {own}
    BY <1>2, <1>4 DEF PdsWrite, hist
  <2>2. pc'[a] = "knot" /\ job'[a] = job[a] /\ job' = job
    BY <1>1, <2>1, GotoJob DEF Goto
  <2>3. PICK r : r = own
    OBVIOUS
  <2>4. r \notin rows
    BY <1>1, <1>3, <1>4, <2>3 DEF Fresh, Inventing
  <2>5. RecordOf(a)' /\ RowRecord(r)'
    BY <1>1, <1>4, <2>1, <2>2, <2>3, <2>4 DEF RecordOf, RowRecord, Recorded, Undoing, Unrecorded
  <2>6. Inventing(a)
    BY <1>1, <1>4 DEF Inventing
  <2>7. QED
    BY <1>1, <2>1, <2>3, <2>5, <2>6, GotoRecords
<1>5. CASE job[a].op = "invite"
  <2>1. /\ Goto(a, "grant") /\ scarred' = scarred /\ records'.repo = records.repo
    BY <1>2, <1>5 DEF PdsWrite, Announce
  <2>2. QED
    BY <1>1, <1>5, <2>1, SteadyRecords DEF Recorded, Undoing, Unrecorded
<1>6. CASE job[a].op = "delete"
  <2> DEFINE gone == {r \in records.repo : AtUri(r) = <<job[a].user, own.rkey>>}
  <2>1. /\ Goto(a, "knot") /\ records'.repo = records.repo \ gone
        /\ scarred' = IF job[a].user = own.did THEN scarred ELSE scarred \cup {PathOf(own)}
    BY <1>2, <1>6 DEF PdsWrite, Scar
  <2>2. \A r \in gone : r = own
    BY <1>1 DEF AtUri, IInv, Control, KeysOK
  <2>3. job[a].user = own.did => own \notin records'.repo
    BY <2>1 DEF AtUri
  <2>4. pc'[a] = "knot" /\ job'[a] = job[a]
    BY <1>1, <2>1, GotoJob
  <2> HIDE DEF gone
  <2>5. PICK r : r = own
    OBVIOUS
  <2>6. r \notin records'.repo \/ PathOf(r) \in scarred'
    BY <2>1, <2>3, <2>5
  <2>7. RecordOf(a)'
    BY <1>6, <2>4, <2>5, <2>6 DEF RecordOf, Recorded, Undoing, Unrecorded, Scarred, PathOf
  <2>8. RowRecord(r)'
    <3>1. Unrecorded(a)' /\ job'[a].repo = r
      BY <1>6, <2>4, <2>5 DEF Unrecorded
    <3>2. QED
      BY <2>6, <3>1 DEF RowRecord, Scarred, PathOf
  <2>9. /\ scarred \subseteq scarred' /\ rows' \cup records'.repo \subseteq Known
        /\ \A q \in Known : q # r => (q \in records'.repo <=> q \in records.repo)
        /\ r \in records'.repo => r \in records.repo
    BY <1>1, <2>1, <2>2, <2>5
  <2>10. QED
    BY <1>1, <2>1, <2>5, <2>7, <2>8, <2>9, GotoRecords
<1>7. QED
  BY <1>3, <1>4, <1>5, <1>6

LEMMA RollbackRecords ==
  ASSUME IInv, Stages, RecordsKept, NEW a \in Request, RollbackRecord(a)
  PROVE  RecordsKept'
<1> DEFINE own == job[a].repo
<1>1. /\ pc[a] = "unput" /\ own \in Known /\ rows' = rows /\ Goto(a, "idle")
      /\ rows \cup records.repo \subseteq Known
  BY JobKnown DEF RollbackRecord, IInv, stores, Known
<1>2. records = [repo |-> records.repo, collab |-> records.collab]
  BY DEF IInv, Control, Types
<1>3. RecordOf(a) /\ Stage(a)
  BY DEF RecordsKept, Stages
<1>4. CASE Scar(a) /\ records' = records
  BY <1>1, <1>4, SteadyRecords DEF Scar
<1>5. CASE records' = [records EXCEPT !.collab = @ \ {CollabRecord(a)}] /\ scarred' = scarred
           /\ job[a].op # "create"
  <2>1. records'.repo = records.repo
    BY <1>2, <1>5
  <2>2. QED
    BY <1>1, <1>5, <2>1, SteadyRecords DEF Recorded, Undoing, Unrecorded
<1>6. CASE records' = [records EXCEPT !.repo = @ \ {job[a].repo}] /\ scarred' = scarred
           /\ job[a].op = "create"
  <2>1. records'.repo = records.repo \ {own}
    BY <1>2, <1>6
  <2>2. PICK r : r = own
    OBVIOUS
  <2>3. r \notin rows \/ PathOf(r) \in scarred'
    BY <1>1, <1>3, <1>6, <2>2 DEF RecordOf, Undoing, Scarred
  <2>4. RowRecord(r)'
    BY <1>1, <2>1, <2>2, <2>3 DEF RowRecord, Scarred, PathOf
  <2>5. RecordOf(a)'
    <3>1. pc'[a] = "idle"
      BY <1>1, GotoJob
    <3>2. QED
      BY <3>1 DEF RecordOf, Recorded, Undoing, Unrecorded
  <2>6. QED
    BY <1>1, <1>6, <2>1, <2>2, <2>4, <2>5, GotoRecords
<1>7. QED
  BY <1>4, <1>5, <1>6 DEF RollbackRecord, hist

(* A deletion that finds other rows of the path leaves a scar. *)
LEMMA CommitRecords ==
  ASSUME IInv, Stages, RecordsKept, NEW a \in Request, Commit(a)
  PROVE  RecordsKept'
<1> DEFINE own == job[a].repo
<1>1. /\ pc[a] = "commit" /\ own \in Known /\ Goto(a, "save") /\ records' = records
      /\ rows' = TxRows(a) /\ rows \cup records.repo \subseteq Known
      /\ IF job[a].op = "delete" /\ Gone(a) # {job[a].repo} THEN Scar(a) ELSE UNCHANGED scarred
  BY JobKnown DEF Commit, IInv, world, Known
<1>2. RecordOf(a) /\ job[a].op \in {"create", "invite", "delete"}
  BY <1>1 DEF RecordsKept, IInv, Control, JobOK
<1>3. pc'[a] = "save"
  BY <1>1, GotoJob
<1>4. RecordOf(a)'
  BY <1>3 DEF RecordOf, Recorded, Undoing, Unrecorded
<1>5. PICK r : r = own
  OBVIOUS
<1>6. CASE job[a].op = "create"
  <2>1. rows' = rows \cup {own} /\ scarred' = scarred /\ Recorded(a) /\ Inventing(a)
    BY <1>1, <1>6 DEF TxRows, Recorded, Inventing
  <2>2. RowRecord(r)'
    BY <1>1, <1>2, <1>5, <2>1 DEF RecordOf, RowRecord
  <2>3. QED
    BY <1>1, <1>4, <1>5, <2>1, <2>2, GotoRecords
<1>7. CASE job[a].op = "invite"
  <2>1. rows' = rows /\ scarred' = scarred
    BY <1>1, <1>7 DEF TxRows
  <2>2. QED
    BY <1>1, <1>7, <2>1, SteadyRecords DEF Recorded, Undoing, Unrecorded
<1>8. CASE job[a].op = "delete"
  <2>1. rows' = rows \ Gone(a) /\ Unrecorded(a) /\ (\A q \in Gone(a) : q \in rows)
    BY <1>1, <1>8 DEF TxRows, Unrecorded, Gone
  <2>2. PathOf(r) \in scarred' \/ (scarred' = scarred /\ Gone(a) = {r})
    BY <1>1, <1>5, <1>8 DEF Scar
  <2>3. scarred \subseteq scarred'
    BY <1>1, <1>8 DEF Scar
  <2>4. RowRecord(r)'
    BY <1>1, <1>2, <1>5, <2>1, <2>2 DEF RowRecord, RecordOf, Scarred, PathOf
  <2>5. ASSUME NEW q \in Known, q # r
        PROVE  (q \in rows' <=> q \in rows) \/ Scarred(q)'
    BY <2>1, <2>2, <2>5, <1>5 DEF Gone, Scarred, PathOf
  <2>6. QED
    BY <1>1, <1>4, <1>5, <2>1, <2>3, <2>4, <2>5, GotoRecords
<1>9. QED
  BY <1>2, <1>6, <1>7, <1>8

LEMMA RequestRecords ==
  ASSUME IInv, Stages, RecordsKept, NEW a \in Request,
         \/ PdsError(a) \/ KnotCall(a) \/ Grant(a) \/ Purge(a) \/ Write(a) \/ TxError(a)
         \/ SavePolicy(a) \/ SaveError(a) \/ LoadPolicy(a)
  PROVE  RecordsKept'
<1>1. pc[a] # "idle" /\ rows' = rows /\ records' = records /\ scarred \subseteq scarred'
  BY DEF PdsError, KnotCall, Grant, Purge, Write, TxError, SavePolicy, SaveError, LoadPolicy,
         stores, world, hist, Scar
<1>2. Stage(a) /\ job[a].op \in {"create", "invite", "delete"}
  BY <1>1 DEF Stages, IInv, Control, JobOK
<1>3. PICK r : r = job[a].repo
  OBVIOUS
<1>4. CASE PdsError(a)
  BY <1>1, <1>3, <1>4, SteadyRecords DEF PdsError, Recorded, Undoing, Unrecorded
<1>5. CASE KnotCall(a)
  <2>1. CASE job[a].op = "create"
    <3>1. pc[a] = "knot" /\ (Goto(a, "write") \/ Goto(a, "abort"))
      BY <1>5, <2>1 DEF KnotCall, Failed
    <3>2. QED
      BY <1>1, <1>3, <2>1, <3>1, SteadyRecords DEF Recorded, Undoing, Unrecorded
  <2>2. CASE job[a].op = "delete"
    <3>1. pc[a] = "knot" /\ (Goto(a, "purge") \/ (Goto(a, "idle") /\ Scar(a)))
      BY <1>5, <2>2 DEF KnotCall, Failed
    <3>2. CASE Goto(a, "purge")
      BY <1>1, <1>3, <2>2, <3>1, <3>2, SteadyRecords DEF Recorded, Undoing, Unrecorded
    <3>3. CASE Goto(a, "idle") /\ Scar(a)
      BY <1>1, <1>3, <2>2, <3>3, SteadyRecords DEF Scar
    <3>4. QED
      BY <3>1, <3>2, <3>3
  <2>3. QED
    BY <1>2, <1>5, <2>1, <2>2 DEF Stage, KnotCall
<1>6. CASE Grant(a) \/ Purge(a) \/ Write(a)
  <2>1. CASE Write(a)
    <3>1. pc[a] = "write" /\ (Goto(a, "commit") \/ (Goto(a, "abort") /\ job[a].op = "invite"))
      BY <2>1 DEF Write
    <3>2. QED
      BY <1>1, <1>3, <3>1, SteadyRecords DEF Recorded, Undoing, Unrecorded
  <2>2. CASE Grant(a)
    <3>1. pc[a] = "grant" /\ Goto(a, "write") /\ job[a].op = "invite"
      BY <1>2, <2>2 DEF Grant, Stage
    <3>2. QED
      BY <1>1, <1>3, <3>1, SteadyRecords DEF Recorded, Undoing, Unrecorded
  <2>3. CASE Purge(a)
    <3>1. pc[a] = "purge" /\ Goto(a, "write") /\ job[a].op = "delete"
      BY <1>2, <2>3 DEF Purge, Stage
    <3>2. QED
      BY <1>1, <1>3, <3>1, SteadyRecords DEF Recorded, Undoing, Unrecorded
  <2>4. QED
    BY <1>6, <2>1, <2>2, <2>3
<1>7. CASE TxError(a)
  <2>1. pc[a] = "commit" /\ Goto(a, IF job[a].op = "delete" THEN "load" ELSE "abort")
    BY <1>7 DEF TxError
  <2>2. CASE job[a].op = "invite"
    BY <1>1, <1>3, <2>1, <2>2, SteadyRecords DEF Recorded, Undoing, Unrecorded
  <2>3. CASE job[a].op # "invite"
    <3>1. PathOf(r) \in scarred'
      BY <1>3, <1>7, <2>3 DEF TxError, Scar
    <3>2. QED
      BY <1>1, <1>3, <2>1, <3>1, SteadyRecords
  <2>4. QED
    BY <2>2, <2>3
<1>8. CASE SavePolicy(a)
  <2>1. pc[a] = "save" /\ Goto(a, "load")
    BY <1>8 DEF SavePolicy
  <2>2. QED
    BY <1>1, <1>3, <2>1, SteadyRecords DEF Recorded, Undoing, Unrecorded
<1>9. CASE SaveError(a)
  <2>1. PathOf(r) \in scarred' /\ Goto(a, IF job[a].op = "delete" THEN "load" ELSE "abort")
    BY <1>3, <1>9 DEF SaveError, Scar
  <2>2. QED
    BY <1>1, <1>3, <2>1, SteadyRecords
<1>10. CASE LoadPolicy(a)
  <2>1. \/ pc[a] = "load" /\ Goto(a, "idle")
        \/ pc[a] = "abort" /\ Goto(a, "unput")
    BY <1>10 DEF LoadPolicy
  <2>2. QED
    BY <1>1, <1>2, <1>3, <2>1, SteadyRecords DEF Recorded, Undoing, Unrecorded, Stage
<1>11. QED
  BY <1>4, <1>5, <1>6, <1>7, <1>8, <1>9, <1>10

(* A request begins: no row and no record changes. *)
LEMMA BeginRecords ==
  ASSUME RecordsKept, NEW a \in Request, pc[a] = "idle", pc' = [pc EXCEPT ![a] = "put"],
         NEW j, job' = [job EXCEPT ![a] = j], DOMAIN pc = Request, DOMAIN job = Request,
         UNCHANGED <<rows, records, scarred>>
  PROVE  RecordsKept'
<1>1. /\ pc'[a] = "put"
      /\ \A b \in Request \ {a} : pc'[b] = pc[b] /\ job'[b] = job[b]
  OBVIOUS
<1>2. ASSUME NEW b \in Request PROVE RecordOf(b)'
  <2>1. CASE b = a
    BY <1>1, <2>1 DEF RecordOf, Recorded, Undoing, Unrecorded
  <2>2. CASE b # a
    BY <1>1, <2>2 DEF RecordsKept, RecordOf, Recorded, Undoing, Unrecorded, Scarred, PathOf
  <2>3. QED
    BY <2>1, <2>2
<1>3. ASSUME NEW r \in rows \cup records.repo PROVE RowRecord(r)'
  <2>1. RowRecord(r)
    BY DEF RecordsKept
  <2>2. \A b \in Request :
          /\ Recorded(b) => Recorded(b)' /\ job'[b].repo = job[b].repo
          /\ Undoing(b) => Undoing(b)' /\ job'[b].repo = job[b].repo
          /\ Unrecorded(b) => Unrecorded(b)' /\ job'[b].repo = job[b].repo
    BY <1>1 DEF Recorded, Undoing, Unrecorded
  <2>3. QED
    BY <2>1, <2>2 DEF RowRecord, Scarred, PathOf
<1>4. QED
  BY <1>2, <1>3 DEF RecordsKept

(* A crash leaves a scar for every request it cuts short. *)
LEMMA CrashRecords ==
  ASSUME RecordsKept, Crash
  PROVE  RecordsKept'
<1>1. /\ \A a \in Request : pc'[a] = "idle"
      /\ UNCHANGED <<rows, records>>
      /\ scarred' = scarred \cup {PathOf(job[a].repo) : a \in {b \in Request : pc[b] # "idle"}}
  BY DEF Crash, world
<1>2. ASSUME NEW b \in Request PROVE RecordOf(b)'
  BY <1>1 DEF RecordOf, Recorded, Undoing, Unrecorded
<1>3. ASSUME NEW r \in rows \cup records.repo PROVE RowRecord(r)'
  <2>1. RowRecord(r)
    BY DEF RecordsKept
  <2>2. \A b \in Request : (Recorded(b) \/ Undoing(b) \/ Unrecorded(b)) /\ job[b].repo = r
          => PathOf(r) \in scarred'
    BY <1>1 DEF Recorded, Undoing, Unrecorded
  <2>3. scarred \subseteq scarred'
    BY <1>1
  <2>4. QED
    BY <1>1, <2>1, <2>2, <2>3 DEF RowRecord, Scarred, PathOf
<1>4. QED
  BY <1>1, <1>2, <1>3 DEF RecordsKept

LEMMA NextRecords ==
  ASSUME IInv, Stages, RecordsKept, [Next]_vars
  PROVE  RecordsKept'
<1>1. ASSUME NEW a \in Request, NEW op, NEW u, NEW r, NEW m, NEW from,
             Call(a, op, u, r, m, from, "put")
      PROVE  RecordsKept'
  <2>1. /\ pc[a] = "idle" /\ pc' = [pc EXCEPT ![a] = "put"]
        /\ UNCHANGED <<rows, records, scarred>>
    BY <1>1 DEF Call, stores, world, hist
  <2>2. PICK j : job' = [job EXCEPT ![a] = j]
    BY <1>1 DEF Call
  <2>3. QED
    BY <2>1, <2>2, BeginRecords DEF IInv, Control, Types
<1>2. ASSUME NEW a \in Request, Step(a) PROVE RecordsKept'
  BY <1>1, <1>2, PdsWriteRecords, RollbackRecords, CommitRecords, RequestRecords
     DEF Step, NewRepo, ForkRepo, AddCollaboratorReq, DeleteRepo
<1>3. CASE UNCHANGED <<rows, records.repo, pc, job, scarred>>
  BY <1>3 DEF RecordsKept, RecordOf, RowRecord, Recorded, Undoing, Unrecorded, Scarred, PathOf
<1>4. ASSUME NEW u, NEW m, NEW r, OtherClient(u, m, r) PROVE RecordsKept'
  <2>1. records'.repo = records.repo
    BY <1>4 DEF OtherClient, Announce, IInv, Control, Types
  <2>2. QED
    BY <1>3, <1>4, <2>1 DEF OtherClient, stores
<1>5. CASE \/ UNCHANGED vars
           \/ \E k \in Knot : processCollaborator(k)
  BY <1>3, <1>5 DEF vars, stores, world, hist, processCollaborator
<1>6. QED
  BY <1>2, <1>4, <1>5, CrashRecords DEF Next

----------------------------------------------------------------------------
(***************************************************************************)
(* The rules of the owners: in each store they are whole, and on a knot    *)
(* they go with the files.                                                 *)
(***************************************************************************)
OwnersOK ==
  /\ files \in [Knot -> SUBSET Path]
  /\ Whole(mem) /\ Whole(disk) /\ \A k \in Knot : Whole(kpol[k])
  /\ \A path \in Path, k \in Knot : Owned(kpol[k], path, k) <=> path \in files[k]

(* The repository of a request has a path and a knot. *)
LEMMA JobPath ==
  ASSUME IInv, NEW a \in Request, pc[a] # "idle"
  PROVE  /\ PathOf(job[a].repo) \in Path /\ job[a].repo.knot \in Knot
         /\ PathOf(job[a].repo)[1] = job[a].repo.did
         /\ job[a].repo.did \in User
<1>1. job[a].repo \in SomeRepo
  BY JobKnown DEF IInv
<1>2. QED
  BY <1>1 DEF SomeRepo, PathOf, Path

LEMMA InitOwners == Init => OwnersOK /\ (\A k \in Knot, path \in Path : ~Owned(AllRoles, path, k))
<1> SUFFICES ASSUME Init
             PROVE  OwnersOK /\ (\A k \in Knot, path \in Path : ~Owned(AllRoles, path, k))
  OBVIOUS
<1>1. ASSUME NEW pol, \A r \in pol.p : r[4] \in {"server:invite", "repo:create"},
             NEW path \in Path, NEW k \in Knot
      PROVE  OwnerRules(path, k) \cap pol.p = {} /\ ~Owned(pol, path, k)
  <2>1. \A x \in OwnerRules(path, k) :
          x[4] \in {"repo:settings", "repo:push", "repo:owner", "repo:invite", "repo:delete"}
    BY DEF OwnerRules, repoPolicies
  <2>2. <<path[1], Domain(k), path, "repo:owner">> \in OwnerRules(path, k)
    BY DEF OwnerRules, repoPolicies
  <2>3. \A x : x[4] \in {"repo:settings", "repo:push", "repo:owner", "repo:invite", "repo:delete"}
               => x[4] \notin {"server:invite", "repo:create"}
    OBVIOUS
  <2>4. QED
    BY <1>1, <2>1, <2>2, <2>3 DEF Owned
<1>2. \A r \in AllRoles.p : r[4] \in {"server:invite", "repo:create"}
  BY RoleRules DEF AllRoles
<1>3. Whole(AllRoles) /\ (\A k \in Knot, path \in Path : ~Owned(AllRoles, path, k))
  BY <1>1, <1>2 DEF Whole
<1>4. ASSUME NEW k \in Knot PROVE Whole(Roles(k)) /\ (\A path \in Path : ~Owned(Roles(k), path, k))
  BY <1>1, RoleRules DEF Whole
<1>5. QED
  BY <1>3, <1>4 DEF Init, OwnersOK

LEMMA GrantOwners ==
  ASSUME IInv, Stages, OwnersOK, NEW a \in Request, Grant(a)
  PROVE  Whole(mem') /\ \A q \in Path, n \in Knot : Owned(mem', q, n) <=> Owned(mem, q, n)
<1> DEFINE r == job[a].repo
<1>1. /\ mem' = AddCollaborator(mem, job[a].subject, Domain(r.knot), PathOf(r))
      /\ pc[a] = "grant"
  BY DEF Grant
<1>2. job[a].subject \in User /\ job[a].subject # r.did
  BY <1>1 DEF IInv, Control, JobOK, Stages, Stage
<1>3. PathOf(r) \in Path /\ r.knot \in Knot /\ PathOf(r)[1] = r.did
  BY <1>1, JobPath
<1>4. IsPolicy(mem) /\ Whole(mem)
  BY DEF IInv, Policies, PolicyOK, OwnersOK
<1> HIDE DEF r
<1>5. \A q \in Path, n \in Knot : OwnerRules(q, n) \cap mem'.p = OwnerRules(q, n) \cap mem.p
  BY <1>1, <1>2, <1>3, <1>4, CollaboratorRules
<1>6. QED
  BY <1>4, <1>5, SameOwners

LEMMA PurgeOwners ==
  ASSUME IInv, OwnersOK, NEW a \in Request, Purge(a)
  PROVE  LET r == job[a].repo
         IN  /\ Whole(mem') /\ ~Owned(mem', PathOf(r), r.knot)
             /\ Elsewhere(mem, mem', PathOf(r), r.knot)
<1> DEFINE r == job[a].repo
<1>1. pc[a] = "purge"
  BY DEF Purge
<1>2. PathOf(r) \in Path /\ r.knot \in Knot /\ PathOf(r)[1] = r.did
  BY <1>1, JobPath
<1>3. IsPolicy(mem) /\ Whole(mem)
  BY DEF IInv, Policies, PolicyOK, OwnersOK
<1>4. mem' = RemoveRepo(RemovePolicies(mem,
                UNION {collaboratorPolicies(u, Domain(r.knot), PathOf(r)) : u \in User}),
                PathOf(r)[1], Domain(r.knot), PathOf(r))
  BY <1>2 DEF Purge
<1> HIDE DEF r
<1>5. /\ Whole(mem') /\ ~Owned(mem', PathOf(r), r.knot)
      /\ Elsewhere(mem, mem', PathOf(r), r.knot)
  BY <1>2, <1>3, <1>4, PurgeRules
<1>6. QED
  BY <1>5 DEF r

LEMMA WriteOwners ==
  ASSUME IInv, OwnersOK, NEW a \in Request, Write(a)
  PROVE  LET r == job[a].repo
         IN  /\ Whole(mem')
             /\ \/ Goto(a, "commit") /\ job[a].op = "create"
                   /\ Owned(mem', PathOf(r), r.knot) /\ Elsewhere(mem, mem', PathOf(r), r.knot)
                \/ Goto(a, "commit") /\ job[a].op # "create" /\ mem' = mem
                \/ Goto(a, "abort") /\ job[a].op = "invite" /\ mem' = mem
<1> DEFINE r == job[a].repo
<1>1. pc[a] = "write"
  BY DEF Write
<1>2. PathOf(r) \in Path /\ r.knot \in Knot /\ PathOf(r)[1] = r.did
  BY <1>1, JobPath
<1>3. IsPolicy(mem) /\ Whole(mem)
  BY DEF IInv, Policies, PolicyOK, OwnersOK
<1>4. \/ Goto(a, "commit") /\ job[a].op = "create"
         /\ mem' = AddRepo(mem, PathOf(r)[1], Domain(r.knot), PathOf(r))
      \/ Goto(a, "commit") /\ job[a].op # "create" /\ mem' = mem
      \/ Goto(a, "abort") /\ job[a].op = "invite" /\ mem' = mem
  BY <1>2 DEF Write
<1> HIDE DEF r
<1>5. /\ Whole(mem')
      /\ \/ Goto(a, "commit") /\ job[a].op = "create"
            /\ Owned(mem', PathOf(r), r.knot) /\ Elsewhere(mem, mem', PathOf(r), r.knot)
         \/ Goto(a, "commit") /\ job[a].op # "create" /\ mem' = mem
         \/ Goto(a, "abort") /\ job[a].op = "invite" /\ mem' = mem
  BY <1>2, <1>3, <1>4, AddRepoRules
<1>6. QED
  BY <1>5 DEF r

(* Files and rules come and go together. *)
LEMMA KnotOwners ==
  ASSUME IInv, OwnersOK, NEW a \in Request, KnotCall(a)
  PROVE  OwnersOK'
<1> DEFINE r == job[a].repo
<1>1. pc[a] = "knot" /\ UNCHANGED <<mem, disk>>
  BY DEF KnotCall, stores
<1>2. PathOf(r) \in Path /\ r.knot \in Knot /\ PathOf(r)[1] = r.did
  BY <1>1, JobPath
<1>3. IsPolicy(kpol[r.knot]) /\ Whole(kpol[r.knot]) /\ DOMAIN kpol = Knot
  BY <1>2 DEF IInv, Control, Types, Policies, PolicyOK, OwnersOK
<1>4. \/ UNCHANGED <<files, kpol>>
      \/ /\ files' = [files EXCEPT ![r.knot] = @ \cup {PathOf(r)}]
         /\ kpol' = [kpol EXCEPT ![r.knot] =
                       AddRepo(@, PathOf(r)[1], Domain(r.knot), PathOf(r))]
      \/ /\ files' = [files EXCEPT ![r.knot] = @ \ {PathOf(r)}]
         /\ kpol' = [kpol EXCEPT ![r.knot] =
                       RemoveRepo(@, PathOf(r)[1], Domain(r.knot), PathOf(r))]
  BY <1>2 DEF KnotCall, CreateRepo, RemoveFiles
<1> HIDE DEF r
<1>5. CASE UNCHANGED <<files, kpol>>
  BY <1>1, <1>5 DEF OwnersOK
<1>6. ASSUME files' = [files EXCEPT ![r.knot] = @ \cup {PathOf(r)}],
             kpol' = [kpol EXCEPT ![r.knot] =
                        AddRepo(@, PathOf(r)[1], Domain(r.knot), PathOf(r))]
      PROVE  OwnersOK'
  <2> DEFINE new == AddRepo(kpol[r.knot], PathOf(r)[1], Domain(r.knot), PathOf(r))
  <2>1. /\ Whole(new) /\ Owned(new, PathOf(r), r.knot)
        /\ Elsewhere(kpol[r.knot], new, PathOf(r), r.knot)
    BY <1>2, <1>3, AddRepoRules
  <2>2. kpol'[r.knot] = new /\ \A n \in Knot \ {r.knot} : kpol'[n] = kpol[n]
    BY <1>2, <1>3, <1>6
  <2>3. /\ files' \in [Knot -> SUBSET Path]
        /\ files'[r.knot] = files[r.knot] \cup {PathOf(r)}
        /\ \A n \in Knot \ {r.knot} : files'[n] = files[n]
    BY <1>2, <1>6 DEF OwnersOK
  <2> HIDE DEF new
  <2>4. ASSUME NEW n \in Knot
        PROVE  Whole(kpol'[n]) /\ \A q \in Path : Owned(kpol'[n], q, n) <=> q \in files'[n]
    <3>1. CASE n = r.knot
      BY <2>1, <2>2, <2>3, <3>1 DEF Elsewhere, OwnersOK
    <3>2. CASE n # r.knot
      BY <2>2, <2>3, <3>2 DEF OwnersOK
    <3>3. QED
      BY <3>1, <3>2
  <2>5. QED
    BY <1>1, <2>3, <2>4 DEF OwnersOK
<1>7. ASSUME files' = [files EXCEPT ![r.knot] = @ \ {PathOf(r)}],
             kpol' = [kpol EXCEPT ![r.knot] =
                        RemoveRepo(@, PathOf(r)[1], Domain(r.knot), PathOf(r))]
      PROVE  OwnersOK'
  <2> DEFINE new == RemoveRepo(kpol[r.knot], PathOf(r)[1], Domain(r.knot), PathOf(r))
  <2>1. /\ Whole(new) /\ ~Owned(new, PathOf(r), r.knot)
        /\ Elsewhere(kpol[r.knot], new, PathOf(r), r.knot)
    BY <1>2, <1>3, RemoveRepoRules
  <2>2. kpol'[r.knot] = new /\ \A n \in Knot \ {r.knot} : kpol'[n] = kpol[n]
    BY <1>2, <1>3, <1>7
  <2>3. /\ files' \in [Knot -> SUBSET Path]
        /\ files'[r.knot] = files[r.knot] \ {PathOf(r)}
        /\ \A n \in Knot \ {r.knot} : files'[n] = files[n]
    BY <1>2, <1>7 DEF OwnersOK
  <2> HIDE DEF new
  <2>4. ASSUME NEW n \in Knot
        PROVE  Whole(kpol'[n]) /\ \A q \in Path : Owned(kpol'[n], q, n) <=> q \in files'[n]
    <3>1. CASE n = r.knot
      BY <2>1, <2>2, <2>3, <3>1 DEF Elsewhere, OwnersOK
    <3>2. CASE n # r.knot
      BY <2>2, <2>3, <3>2 DEF OwnersOK
    <3>3. QED
      BY <3>1, <3>2
  <2>5. QED
    BY <1>1, <2>3, <2>4 DEF OwnersOK
<1>8. QED
  BY <1>4, <1>5, <1>6, <1>7

(* Only an owner invites on a knot, and no owner becomes a collaborator. *)
LEMMA CollaboratorOwners ==
  ASSUME IInv, OwnersOK, NEW k \in Knot, processCollaborator(k)
  PROVE  OwnersOK'
<1> DEFINE c == Head(feed[k])
           found(r) == /\ AtUri(r) = c.at
                       /\ Enforce(kpol[k], c.did, Domain(k), PathOf(r), "repo:invite")
           rs == {r \in records.repo : found(r)}
           it == CHOOSE r \in rs : TRUE
<1>1. /\ feed[k] # << >>
      /\ UNCHANGED <<files, mem, disk>>
      /\ kpol' = [kpol EXCEPT ![k] =
                    IF rs = {} THEN @
                    ELSE AddCollaborator(@, c.subject, Domain(k), PathOf(it))]
  BY DEF processCollaborator, stores
<1>2. c \in SomeCollab /\ DOMAIN kpol = Knot
  BY <1>1, HeadTailProperties DEF IInv, Control, Types
<1>3. rs # {} => it \in records.repo /\ Enforce(kpol[k], c.did, Domain(k), PathOf(it), "repo:invite")
  OBVIOUS
<1>4. c.did \in User /\ c.subject \in User
  BY <1>2 DEF SomeCollab
<1> HIDE DEF c, rs, it
<1>5. /\ IsPolicy(kpol[k]) /\ Whole(kpol[k])
      /\ PolicyOK(kpol[k], invited)
  BY DEF IInv, Policies, PolicyOK, OwnersOK
<1>6. ASSUME rs # {}
      PROVE  LET new == AddCollaborator(kpol[k], c.subject, Domain(k), PathOf(it))
             IN  Whole(new) /\ \A q \in Path, n \in Knot : Owned(new, q, n) <=> Owned(kpol[k], q, n)
  <2>1. it \in SomeRepo
    BY <1>3, <1>6 DEF IInv, Control, Types, Known
  <2>2. PathOf(it) \in Path
    BY <2>1 DEF SomeRepo, PathOf, Path
  <2>3. c.did = PathOf(it)[1]
    BY <1>3, <1>4, <1>5, <1>6, InviterIsOwner
  <2>4. CASE c.subject # PathOf(it)[1]
    <3> DEFINE new == AddCollaborator(kpol[k], c.subject, Domain(k), PathOf(it))
    <3>1. \A q \in Path, n \in Knot :
            OwnerRules(q, n) \cap new.p = OwnerRules(q, n) \cap kpol[k].p
      BY <1>4, <1>5, <2>2, <2>4, CollaboratorRules
    <3> HIDE DEF new
    <3>2. Whole(new) /\ \A q \in Path, n \in Knot : Owned(new, q, n) <=> Owned(kpol[k], q, n)
      BY <1>5, <3>1, SameOwners
    <3>3. QED
      BY <3>2 DEF new
  <2>5. CASE c.subject = PathOf(it)[1]
    <3> DEFINE d == Domain(k)
               path == PathOf(it)
    <3>1. PICK sub \in {c.did, Owner, Member} :
            <<sub, d, path, "repo:invite">> \in kpol[k].p
      BY <1>3, <1>6 DEF Enforce
    <3> DEFINE x == <<sub, d, path, "repo:invite">>
    <3>2. x[1] = sub /\ x[3] = path /\ x[4] = "repo:invite"
      OBVIOUS
    <3> HIDE DEF x
    <3>3. sub = path[1]
      BY <1>5, <3>1, <3>2 DEF PolicyOK, RuleOK, x
    <3>4. Has(kpol[k], path[1], k, path, "repo:invite")
      BY <3>1, <3>3 DEF Has
    <3>5. Owned(kpol[k], path, k)
      BY <1>5, <2>2, <3>4, OwnerRule
    <3>6. AddCollaborator(kpol[k], c.subject, d, path) = kpol[k]
      BY <2>5, <3>5, OwnerStaysOwner
    <3>7. QED
      BY <1>5, <3>6
  <2>6. QED
    BY <2>4, <2>5
<1>7. /\ Whole(kpol'[k]) /\ \A q \in Path, n \in Knot : Owned(kpol'[k], q, n) <=> Owned(kpol[k], q, n)
      /\ \A n \in Knot \ {k} : kpol'[n] = kpol[n]
  BY <1>1, <1>2, <1>5, <1>6
<1>8. QED
  BY <1>1, <1>7 DEF OwnersOK

LEMMA NextOwners ==
  ASSUME IInv, Stages, OwnersOK, [Next]_vars
  PROVE  OwnersOK'
<1>1. CASE UNCHANGED <<files, mem, disk, kpol>>
  BY <1>1 DEF OwnersOK
<1>2. CASE UNCHANGED <<files, kpol>> /\ mem' \in {mem, disk} /\ disk' \in {mem, disk}
  BY <1>2 DEF OwnersOK
<1>3. ASSUME NEW a \in Request, Step(a) PROVE OwnersOK'
  <2>1. CASE Grant(a) \/ Purge(a) \/ Write(a)
    <3>1. UNCHANGED <<files, kpol, disk>>
      BY <2>1 DEF Grant, Purge, Write, world
    <3>2. Whole(mem')
      BY <2>1, GrantOwners, PurgeOwners, WriteOwners
    <3>3. QED
      BY <3>1, <3>2 DEF OwnersOK
  <2>2. CASE KnotCall(a)
    BY <2>2, KnotOwners
  <2>3. CASE Commit(a) \/ TxError(a) \/ SavePolicy(a) \/ SaveError(a) \/ LoadPolicy(a)
             \/ PdsError(a) \/ RollbackRecord(a)
    BY <1>2, <2>3 DEF Commit, TxError, SavePolicy, SaveError, LoadPolicy, PdsError,
       RollbackRecord, stores, world
  <2>4. CASE PdsWrite(a)
    BY <1>1, <2>4 DEF PdsWrite, stores
  <2>5. ASSUME NEW op, NEW u, NEW r, NEW m, NEW from, NEW l, Call(a, op, u, r, m, from, l)
        PROVE  OwnersOK'
    BY <1>1, <2>5 DEF Call, stores, world
  <2>6. QED
    BY <1>3, <2>1, <2>2, <2>3, <2>4, <2>5
       DEF Step, NewRepo, ForkRepo, AddCollaboratorReq, DeleteRepo
<1>4. CASE Crash
  BY <1>2, <1>4 DEF Crash, world
<1>5. CASE UNCHANGED vars \/ \E u, m \in User, r \in rows : OtherClient(u, m, r)
  BY <1>1, <1>5 DEF vars, stores, world, OtherClient
<1>6. QED
  BY <1>3, <1>4, <1>5, CollaboratorOwners DEF Next

----------------------------------------------------------------------------
(***************************************************************************)
(* The places of a path.                                                   *)
(***************************************************************************)

(* A new repository has its files, its row is to come; its rules are in    *)
(* memory once its transaction has begun.                                  *)
Creating(a) == job[a].op = "create" /\ pc[a] \in {"write", "commit"}
Adding(a)   == job[a].op = "create" /\ pc[a] = "commit"

(* The rules of a deleted repository are gone from memory, its row is not. *)
Purged(a) == job[a].op = "delete" /\ pc[a] \in {"write", "commit"}

(* The row is written or gone, the rules on disk are the old ones. *)
Saving(a) == job[a].op # "invite" /\ pc[a] = "save"

On(a, path) == PathOf(job[a].repo) = path

RowsOf(path) == {r \in rows : PathOf(r) = path}

(* A path is clear if nothing left a scar and no deletion will: the one    *)
(* that has taken the files finds one row, its own, and it is alone.       *)
Clear(path) ==
  /\ path \notin scarred
  /\ \A a \in Request : Removing(a) /\ On(a, path) =>
       /\ RowsOf(path) = {job[a].repo}
       /\ \A b \in Request \ {a} : Removing(b) \/ Adding(b) => ~On(b, path)

(* A repository holds its path on its knot while its row is there and its  *)
(* files are, or while it is created.                                      *)
Holds(r) ==
  \/ r \in rows /\ \A a \in Request : Removing(a) => job[a].repo # r
  \/ \E a \in Request : Creating(a) /\ job[a].repo = r

FilesAt(path, k) ==
  LET holders == {r \in Known : Holds(r) /\ PathOf(r) = path /\ r.knot = k}
  IN  /\ path \in files[k] <=> holders # {}
      /\ \A r, q \in holders : r = q

RowAt(path, k) == \E r \in RowsOf(path) : r.knot = k

MemAt(path, k) ==
  Owned(mem, path, k) <=>
    \/ RowAt(path, k) /\ \A a \in Request : Purged(a) => ~On(a, path)
    \/ \E a \in Request : Adding(a) /\ On(a, path) /\ job[a].repo.knot = k

DiskAt(path, k) ==
  (\A a \in Request : Saving(a) => ~On(a, path)) =>
    (Owned(disk, path, k) <=> RowAt(path, k))

Synced(path) == Clear(path) => \A k \in Knot : FilesAt(path, k) /\ MemAt(path, k) /\ DiskAt(path, k)

Sync == \A path \in Path : Synced(path)

(* Whoever holds a path is known. *)
LEMMA HolderKnown ==
  ASSUME NEW r, Holds(r)
  PROVE  r \in Known
BY DEF Holds, Known, Creating

Touches(a, path) == On(a, path) /\ (Removing(a) \/ Creating(a) \/ Saving(a))

(* Requests that change nothing of a path. *)
SameTouch(a, path) ==
  \/ pc'[a] = pc[a] /\ job'[a] = job[a]
  \/ /\ job'[a] = job[a] /\ job[a].op = "delete"
     /\ pc[a] \in {"write", "commit"} /\ pc'[a] \in {"write", "commit"}
  \/ ~Touches(a, path) /\ ~Touches(a, path)'

(* What such requests are at is what they were at. *)
LEMMA SameFlags ==
  ASSUME NEW path, NEW a \in Request, SameTouch(a, path)
  PROVE  /\ (On(a, path) /\ Removing(a))' <=> On(a, path) /\ Removing(a)
         /\ (On(a, path) /\ Creating(a))' <=> On(a, path) /\ Creating(a)
         /\ (On(a, path) /\ Adding(a))' <=> On(a, path) /\ Adding(a)
         /\ (On(a, path) /\ Purged(a))' <=> On(a, path) /\ Purged(a)
         /\ (On(a, path) /\ Saving(a))' <=> On(a, path) /\ Saving(a)
         /\ On(a, path) /\ (Removing(a) \/ Creating(a)) => job'[a].repo = job[a].repo
<1>1. CASE pc'[a] = pc[a] /\ job'[a] = job[a]
  BY <1>1 DEF On, Removing, Creating, Adding, Purged, Saving, PathOf
<1>2. CASE /\ job'[a] = job[a] /\ job[a].op = "delete"
           /\ pc[a] \in {"write", "commit"} /\ pc'[a] \in {"write", "commit"}
  BY <1>2 DEF On, Removing, Creating, Adding, Purged, Saving, PathOf
<1>3. CASE ~Touches(a, path) /\ ~Touches(a, path)'
  <2>1. (Adding(a) => Creating(a)) /\ (Purged(a) => Removing(a))
    BY DEF Adding, Creating, Purged, Removing
  <2>2. (Adding(a) => Creating(a))' /\ (Purged(a) => Removing(a))'
    BY DEF Adding, Creating, Purged, Removing
  <2>3. QED
    BY <1>3, <2>1, <2>2 DEF Touches
<1>4. QED
  BY <1>1, <1>2, <1>3 DEF SameTouch

(* Then the path was clear if it is, and it is held as before. *)
LEMMA SameHolders ==
  ASSUME NEW path, \A r : PathOf(r) = path => (r \in rows' <=> r \in rows),
         \A a \in Request : SameTouch(a, path),
         path \in scarred => path \in scarred', Clear(path)'
  PROVE  /\ Clear(path) /\ RowsOf(path)' = RowsOf(path)
         /\ \A k \in Knot : (path \in files'[k] <=> path \in files[k]) /\ FilesAt(path, k)
              => FilesAt(path, k)'
<1>1. RowsOf(path)' = RowsOf(path)
  BY DEF RowsOf, PathOf
<1>2. ASSUME NEW a \in Request
      PROVE  /\ (On(a, path) /\ Removing(a))' <=> On(a, path) /\ Removing(a)
             /\ (On(a, path) /\ Creating(a))' <=> On(a, path) /\ Creating(a)
             /\ (On(a, path) /\ Adding(a))' <=> On(a, path) /\ Adding(a)
             /\ On(a, path) /\ (Removing(a) \/ Creating(a)) => job'[a].repo = job[a].repo
  BY SameFlags
<1>3. Clear(path)
  <2>1. path \notin scarred
    BY DEF Clear
  <2>2. ASSUME NEW a \in Request, Removing(a), On(a, path)
        PROVE  /\ RowsOf(path) = {job[a].repo}
               /\ \A b \in Request \ {a} : Removing(b) \/ Adding(b) => ~On(b, path)
    <3>1. Removing(a)' /\ On(a, path)' /\ job'[a].repo = job[a].repo
      BY <1>2, <2>2
    <3>2. /\ RowsOf(path)' = {job[a].repo}
          /\ \A b \in Request \ {a} : (Removing(b) \/ Adding(b))' => ~On(b, path)'
      BY <3>1 DEF Clear
    <3>3. QED
      BY <1>1, <1>2, <3>2
  <2>3. QED
    BY <2>1, <2>2 DEF Clear
<1>4. ASSUME NEW r, PathOf(r) = path
      PROVE  Holds(r)' <=> Holds(r)
  <2>1. \A a \in Request : Removing(a) /\ job[a].repo = r <=> Removing(a)' /\ job'[a].repo = r
    BY <1>2, <1>4 DEF On, PathOf
  <2>2. \A a \in Request : Creating(a) /\ job[a].repo = r <=> Creating(a)' /\ job'[a].repo = r
    BY <1>2, <1>4 DEF On, PathOf
  <2>3. QED
    BY <1>4, <2>1, <2>2 DEF Holds
<1>5. ASSUME NEW k \in Knot, path \in files'[k] <=> path \in files[k], FilesAt(path, k)
      PROVE  FilesAt(path, k)'
  <2>1. \A r : Holds(r)' => r \in Known'
    BY HolderKnown DEF Holds, Known, Creating
  <2>2. \A r : Holds(r) => r \in Known
    BY HolderKnown
  <2>3. QED
    BY <1>4, <1>5, <2>1, <2>2 DEF FilesAt, PathOf
<1>6. QED
  BY <1>1, <1>3, <1>5

LEMMA SamePath ==
  ASSUME NEW path, \A r : PathOf(r) = path => (r \in rows' <=> r \in rows),
         \A k \in Knot : /\ path \in files'[k] <=> path \in files[k]
                         /\ Owned(mem', path, k) <=> Owned(mem, path, k)
                         /\ Owned(disk', path, k) <=> Owned(disk, path, k),
         path \in scarred => path \in scarred',
         \A a \in Request : SameTouch(a, path),
         Synced(path)
  PROVE  Synced(path)'
<1> SUFFICES ASSUME Clear(path)', NEW k \in Knot
             PROVE  FilesAt(path, k)' /\ MemAt(path, k)' /\ DiskAt(path, k)'
  BY DEF Synced
<1>1. Clear(path) /\ RowsOf(path)' = RowsOf(path)
  BY SameHolders
<1>2. FilesAt(path, k) /\ MemAt(path, k) /\ DiskAt(path, k)
  BY <1>1 DEF Synced
<1>3. FilesAt(path, k)'
  BY <1>2, SameHolders
<1>4. ASSUME NEW a \in Request
      PROVE  /\ (On(a, path) /\ Adding(a))' <=> On(a, path) /\ Adding(a)
             /\ (On(a, path) /\ Purged(a))' <=> On(a, path) /\ Purged(a)
             /\ (On(a, path) /\ Saving(a))' <=> On(a, path) /\ Saving(a)
             /\ On(a, path) /\ Adding(a) => job'[a].repo = job[a].repo
  BY SameFlags DEF Adding, Creating
<1>5. RowAt(path, k)' <=> RowAt(path, k)
  BY <1>1 DEF RowAt
<1>6. MemAt(path, k)'
  BY <1>2, <1>4, <1>5 DEF MemAt, Owned
<1>7. DiskAt(path, k)'
  BY <1>2, <1>4, <1>5 DEF DiskAt, Owned
<1>8. QED
  BY <1>3, <1>6, <1>7

LEMMA Moved ==
  ASSUME IInv, NEW a \in Request, NEW l, pc[a] # "idle", Goto(a, l), NEW path,
         \/ ~On(a, path)
         \/ job[a].op = "invite"
         \/ /\ pc[a] \notin {"purge", "write", "commit", "save"}
            /\ l \notin {"purge", "write", "commit", "save"}
         \/ job[a].op = "delete" /\ pc[a] = "write" /\ l = "commit"
  PROVE  \A b \in Request : SameTouch(b, path)
<1>1. /\ pc'[a] = l /\ (l # "idle" => job'[a] = job[a])
      /\ \A b \in Request \ {a} : pc'[b] = pc[b] /\ job'[b] = job[b]
  BY GotoJob
<1>2. SameTouch(a, path)
  <2>1. CASE l = "idle"
    <3>1. ~Touches(a, path)'
      BY <1>1, <2>1 DEF Touches, Removing, Creating, Saving
    <3>2. ~Touches(a, path)
      BY <2>1 DEF Touches, Removing, Creating, Saving
    <3>3. QED
      BY <3>1, <3>2 DEF SameTouch
  <2>2. CASE l # "idle"
    <3>1. job'[a] = job[a]
      BY <1>1, <2>2
    <3>2. CASE ~On(a, path)
      BY <3>1, <3>2 DEF SameTouch, Touches, On, PathOf
    <3>3. CASE job[a].op = "invite"
      BY <3>1, <3>3 DEF SameTouch, Touches, Removing, Creating, Saving
    <3>4. CASE /\ pc[a] \notin {"purge", "write", "commit", "save"}
               /\ l \notin {"purge", "write", "commit", "save"}
      BY <1>1, <3>1, <3>4 DEF SameTouch, Touches, Removing, Creating, Saving
    <3>5. CASE job[a].op = "delete" /\ pc[a] = "write" /\ l = "commit"
      BY <1>1, <3>1, <3>5 DEF SameTouch
    <3>6. QED
      BY <3>2, <3>3, <3>4, <3>5
  <2>3. QED
    BY <2>1, <2>2
<1>3. QED
  BY <1>1, <1>2 DEF SameTouch

(* A step of a request that changes no place. *)
LEMMA QuietSync ==
  ASSUME IInv, Sync, NEW a \in Request, NEW l, pc[a] # "idle", Goto(a, l),
         UNCHANGED <<rows, files, disk>>, scarred \subseteq scarred',
         \A path \in Path, k \in Knot : Owned(mem', path, k) <=> Owned(mem, path, k),
         \/ job[a].op = "invite"
         \/ /\ pc[a] \notin {"purge", "write", "commit", "save"}
            /\ l \notin {"purge", "write", "commit", "save"}
         \/ job[a].op = "delete" /\ pc[a] = "write" /\ l = "commit"
  PROVE  Sync'
<1>1. ASSUME NEW path \in Path PROVE Synced(path)'
  <2>1. \A b \in Request : SameTouch(b, path)
    BY Moved
  <2>2. Synced(path)
    BY DEF Sync
  <2>3. \A k \in Knot : Owned(disk', path, k) <=> Owned(disk, path, k)
    OBVIOUS
  <2>4. QED
    BY <2>1, <2>2, <2>3, SamePath
<1>2. QED
  BY <1>1 DEF Sync

(* A step of a request that changes the places of its own path. *)
LEMMA OwnSync ==
  ASSUME IInv, Sync, NEW a \in Request, NEW l, pc[a] # "idle", Goto(a, l),
         NEW own, own = job[a].repo,
         \A r : PathOf(r) # PathOf(own) => (r \in rows' <=> r \in rows),
         \A path \in Path : path # PathOf(own) => \A k \in Knot :
           /\ path \in files'[k] <=> path \in files[k]
           /\ Owned(mem', path, k) <=> Owned(mem, path, k)
           /\ Owned(disk', path, k) <=> Owned(disk, path, k),
         scarred \subseteq scarred',
         Synced(PathOf(own))'
  PROVE  Sync'
<1>1. ASSUME NEW path \in Path, path # PathOf(own) PROVE Synced(path)'
  <2>1. \A b \in Request : SameTouch(b, path)
    BY <1>1, Moved DEF On
  <2>2. Synced(path)
    BY DEF Sync
  <2>3. QED
    BY <1>1, <2>1, <2>2, SamePath
<1>2. QED
  BY <1>1 DEF Sync

(* A scar ends what is claimed of a path. *)
LEMMA ScarSync ==
  ASSUME NEW path, path \in scarred'
  PROVE  Synced(path)'
BY DEF Synced, Clear

(* What a step of a request changes of what the requests are at. *)
LEMMA Flags ==
  ASSUME IInv, NEW a \in Request, NEW l, l # "idle", pc[a] # "idle", Goto(a, l)
  PROVE  /\ \A b \in Request \ {a} :
              /\ Removing(b)' <=> Removing(b)
              /\ Creating(b)' <=> Creating(b)
              /\ Adding(b)' <=> Adding(b)
              /\ Purged(b)' <=> Purged(b)
              /\ Saving(b)' <=> Saving(b)
         /\ Removing(a)' <=> job[a].op = "delete" /\ l \in {"purge", "write", "commit"}
         /\ Creating(a)' <=> job[a].op = "create" /\ l \in {"write", "commit"}
         /\ Adding(a)' <=> job[a].op = "create" /\ l = "commit"
         /\ Purged(a)' <=> job[a].op = "delete" /\ l \in {"write", "commit"}
         /\ Saving(a)' <=> job[a].op # "invite" /\ l = "save"
         /\ \A b \in Request : job'[b] = job[b]
         /\ \A path : \A b \in Request : On(b, path)' <=> On(b, path)
<1>1. /\ pc'[a] = l /\ job'[a] = job[a]
      /\ \A b \in Request \ {a} : pc'[b] = pc[b] /\ job'[b] = job[b]
  BY GotoJob
<1>2. \A b \in Request \ {a} :
              /\ Removing(b)' <=> Removing(b)
              /\ Creating(b)' <=> Creating(b)
              /\ Adding(b)' <=> Adding(b)
              /\ Purged(b)' <=> Purged(b)
              /\ Saving(b)' <=> Saving(b)
  BY <1>1 DEF Removing, Creating, Adding, Purged, Saving
<1>3. /\ Removing(a)' <=> job[a].op = "delete" /\ l \in {"purge", "write", "commit"}
      /\ Creating(a)' <=> job[a].op = "create" /\ l \in {"write", "commit"}
      /\ Adding(a)' <=> job[a].op = "create" /\ l = "commit"
      /\ Purged(a)' <=> job[a].op = "delete" /\ l \in {"write", "commit"}
      /\ Saving(a)' <=> job[a].op # "invite" /\ l = "save"
  BY <1>1 DEF Removing, Creating, Adding, Purged, Saving
<1>4. \A b \in Request : job'[b] = job[b]
  BY <1>1
<1>5. QED
  BY <1>2, <1>3, <1>4 DEF On, PathOf

(* The knot makes the files of a new repository: nobody held the path. *)
LEMMA KnotCreates ==
  ASSUME IInv, Sync, NEW a \in Request, pc[a] = "knot", job[a].op = "create",
         Goto(a, "write"), NEW own, own = job[a].repo, own.knot \in Knot,
         PathOf(own) \in Path, PathOf(own) \notin files[own.knot],
         files' = [files EXCEPT ![own.knot] = @ \cup {PathOf(own)}], DOMAIN files = Knot,
         UNCHANGED <<rows, mem, disk, scarred>>
  PROVE  Sync'
<1> DEFINE P == PathOf(own)
           K == own.knot
<1>1. /\ \A k \in Knot \ {K} : files'[k] = files[k]
      /\ files'[K] = files[K] \cup {P}
  OBVIOUS
<1>2. /\ ~Removing(a) /\ ~Creating(a) /\ ~Adding(a) /\ ~Purged(a) /\ ~Saving(a)
      /\ On(a, P) /\ own \in Known
  BY JobKnown DEF Removing, Creating, Adding, Purged, Saving, On, IInv
<1>3. /\ \A b \in Request \ {a} :
              /\ Removing(b)' <=> Removing(b)
              /\ Creating(b)' <=> Creating(b)
              /\ Adding(b)' <=> Adding(b)
              /\ Purged(b)' <=> Purged(b)
              /\ Saving(b)' <=> Saving(b)
      /\ ~Removing(a)' /\ Creating(a)' /\ ~Adding(a)' /\ ~Purged(a)' /\ ~Saving(a)'
      /\ \A b \in Request : job'[b] = job[b]
      /\ \A path : \A b \in Request : On(b, path)' <=> On(b, path)
  BY Flags
<1>4. RowsOf(P)' = RowsOf(P)
  BY DEF RowsOf, PathOf
<1> HIDE DEF P, K
<1>5. ASSUME Clear(P)', NEW k \in Knot
      PROVE  FilesAt(P, k)' /\ MemAt(P, k)' /\ DiskAt(P, k)'
  <2>1. Clear(P)
    BY <1>2, <1>3, <1>4, <1>5 DEF Clear
  <2>2. FilesAt(P, k) /\ MemAt(P, k) /\ DiskAt(P, k)
    BY <2>1 DEF Sync, Synced, P
  <2>3. \A r : Holds(r)' <=> Holds(r) \/ r = own
    BY <1>2, <1>3 DEF Holds
  <2>4. \A r : Holds(r) => r \in Known
    BY HolderKnown
  <2>5. \A r : Holds(r)' => r \in Known'
    BY HolderKnown DEF Holds, Known, Creating
  <2>6. PathOf(own) = P /\ own.knot = K /\ P \notin files[K]
    BY DEF P, K
  <2>7. FilesAt(P, k)'
    <3>1. CASE k = K
      BY <1>1, <2>2, <2>3, <2>4, <2>5, <2>6, <3>1 DEF FilesAt, PathOf
    <3>2. CASE k # K
      BY <1>1, <2>2, <2>3, <2>4, <2>5, <2>6, <3>2 DEF FilesAt, PathOf
    <3>3. QED
      BY <3>1, <3>2
  <2>8. MemAt(P, k)' /\ DiskAt(P, k)'
    BY <1>2, <1>3, <1>4, <2>2 DEF MemAt, DiskAt, RowAt, Owned
  <2>9. QED
    BY <2>7, <2>8
<1>6. Synced(PathOf(own))'
  BY <1>5 DEF Synced, P
<1>7. \A path \in Path : path # PathOf(own) => \A k \in Knot :
           path \in files'[k] <=> path \in files[k]
  BY <1>1 DEF P
<1>8. QED
  BY <1>6, <1>7, OwnSync DEF Owned

(* The knot removes the files: if the path is to stay clear, the request's *)
(* repository has the only row and was the only one to hold the path.      *)
LEMMA KnotRemoves ==
  ASSUME IInv, Stages, Sync, NEW a \in Request, pc[a] = "knot", job[a].op = "delete",
         Goto(a, "purge"), NEW own, own = job[a].repo, own.knot \in Knot,
         PathOf(own) \in Path,
         files' = [files EXCEPT ![own.knot] = @ \ {PathOf(own)}], DOMAIN files = Knot,
         UNCHANGED <<rows, mem, disk, scarred>>
  PROVE  Sync'
<1> DEFINE P == PathOf(own)
           K == own.knot
<1>1. /\ \A k \in Knot \ {K} : files'[k] = files[k]
      /\ files'[K] = files[K] \ {P}
  OBVIOUS
<1>2. /\ ~Removing(a) /\ ~Creating(a) /\ ~Adding(a) /\ ~Purged(a) /\ ~Saving(a)
      /\ On(a, P) /\ own \in Known
  BY JobKnown DEF Removing, Creating, Adding, Purged, Saving, On, IInv
<1>3. /\ \A b \in Request \ {a} :
              /\ Removing(b)' <=> Removing(b)
              /\ Creating(b)' <=> Creating(b)
              /\ Adding(b)' <=> Adding(b)
              /\ Purged(b)' <=> Purged(b)
              /\ Saving(b)' <=> Saving(b)
      /\ Removing(a)' /\ ~Creating(a)' /\ ~Adding(a)' /\ ~Purged(a)' /\ ~Saving(a)'
      /\ \A b \in Request : job'[b] = job[b]
      /\ \A path : \A b \in Request : On(b, path)' <=> On(b, path)
  BY Flags
<1>4. RowsOf(P)' = RowsOf(P)
  BY DEF RowsOf, PathOf
<1> HIDE DEF P, K
<1>5. ASSUME Clear(P)', NEW k \in Knot
      PROVE  FilesAt(P, k)' /\ MemAt(P, k)' /\ DiskAt(P, k)'
  <2>1. /\ RowsOf(P) = {own}
        /\ \A b \in Request \ {a} : Removing(b) \/ Adding(b) => ~On(b, P)
    BY <1>2, <1>3, <1>4, <1>5 DEF Clear
  <2>2. Clear(P)
    BY <1>2, <1>5, <2>1 DEF Clear
  <2>3. FilesAt(P, k) /\ MemAt(P, k) /\ DiskAt(P, k)
    BY <2>2 DEF Sync, Synced, P
  <2>4. PathOf(own) = P /\ own.knot = K /\ own \in rows
    BY <2>1 DEF P, K, RowsOf
  <2>5. Holds(own)
    BY <1>2, <2>1, <2>4 DEF Holds, On
  <2>6. \A b \in Request : Creating(b) => job[b].repo # own
    BY <2>4 DEF Stages, Fresh, Creating, Inventing
  <2>7. ~Holds(own)'
    BY <1>2, <1>3, <2>6 DEF Holds
  <2>8. \A r : r # own => (Holds(r)' <=> Holds(r))
    BY <1>2, <1>3 DEF Holds
  <2>9. \A r : Holds(r) => r \in Known
    BY HolderKnown
  <2>10. \A r : Holds(r)' => r \in Known'
    BY HolderKnown DEF Holds, Known, Creating
  <2>11. FilesAt(P, k)'
    <3>1. CASE k = K
      BY <1>1, <2>3, <2>4, <2>5, <2>7, <2>8, <2>9, <2>10, <3>1 DEF FilesAt, PathOf
    <3>2. CASE k # K
      BY <1>1, <2>3, <2>4, <2>5, <2>7, <2>8, <2>9, <2>10, <3>2 DEF FilesAt, PathOf
    <3>3. QED
      BY <3>1, <3>2
  <2>12. MemAt(P, k)' /\ DiskAt(P, k)'
    BY <1>2, <1>3, <1>4, <2>3 DEF MemAt, DiskAt, RowAt, Owned
  <2>13. QED
    BY <2>11, <2>12
<1>6. Synced(PathOf(own))'
  BY <1>5 DEF Synced, P
<1>7. \A path \in Path : path # PathOf(own) => \A k \in Knot :
           path \in files'[k] <=> path \in files[k]
  BY <1>1 DEF P
<1>8. QED
  BY <1>6, <1>7, OwnSync DEF Owned

LEMMA KnotSync ==
  ASSUME IInv, Stages, OwnersOK, Sync, NEW a \in Request, KnotCall(a)
  PROVE  Sync'
<1> DEFINE r == job[a].repo
<1>1. pc[a] = "knot" /\ UNCHANGED <<rows, mem, disk>>
  BY DEF KnotCall, stores
<1>2. PathOf(r) \in Path /\ r.knot \in Knot /\ DOMAIN files = Knot
  BY <1>1, JobPath DEF OwnersOK
<1>3. PICK own : own = r
  OBVIOUS
<1>4. job[a].op \in {"create", "delete"}
  BY <1>1 DEF Stages, Stage
<1>5. CASE UNCHANGED files /\ Goto(a, Failed(a))
  <2>1. PICK l \in {"abort", "idle"} : Goto(a, l)
    BY <1>5 DEF Failed
  <2>2. scarred \subseteq scarred'
    BY DEF KnotCall, Scar
  <2>3. QED
    BY <1>1, <1>5, <2>1, <2>2, QuietSync DEF Owned
<1>6. CASE (CreateRepo(r) \/ RemoveFiles(r)) /\ Goto(a, Failed(a)) /\ Scar(a)
  <2>1. PICK l \in {"abort", "idle"} : Goto(a, l)
    BY <1>6 DEF Failed
  <2>2. scarred \subseteq scarred' /\ PathOf(own) \in scarred'
    BY <1>3, <1>6 DEF Scar
  <2>3. \A path \in Path : path # PathOf(own) => \A k \in Knot :
           path \in files'[k] <=> path \in files[k]
    BY <1>2, <1>3, <1>6 DEF CreateRepo, RemoveFiles
  <2>4. Synced(PathOf(own))'
    BY <2>2, ScarSync
  <2>5. QED
    BY <1>1, <1>3, <2>1, <2>2, <2>3, <2>4, OwnSync DEF Owned
<1>7. CASE job[a].op = "create" /\ CreateAllowed(r, job[a].from) /\ CreateRepo(r)
           /\ Goto(a, "write") /\ UNCHANGED scarred
  BY <1>1, <1>2, <1>3, <1>7, KnotCreates DEF CreateAllowed, CreateRepo
<1>8. CASE job[a].op # "create" /\ RemoveFiles(r) /\ Goto(a, "purge") /\ UNCHANGED scarred
  BY <1>1, <1>2, <1>3, <1>4, <1>8, KnotRemoves DEF RemoveFiles
<1>9. QED
  BY <1>5, <1>6, <1>7, <1>8 DEF KnotCall

(* DeleteRepo takes the rules of the one row that is left. *)
LEMMA PurgeSync ==
  ASSUME IInv, Stages, OwnersOK, Sync, NEW a \in Request, Purge(a)
  PROVE  Sync'
<1> DEFINE r == job[a].repo
<1>1. /\ pc[a] = "purge" /\ job[a].op = "delete" /\ Goto(a, "write")
      /\ UNCHANGED <<rows, files, disk, scarred>>
  BY DEF Purge, Stages, Stage, world, hist
<1>2. PathOf(r) \in Path /\ r.knot \in Knot
  BY <1>1, JobPath
<1>3. PICK own : own = r
  OBVIOUS
<1>4. PICK P : P = PathOf(own)
  OBVIOUS
<1>5. PICK K : K = own.knot
  OBVIOUS
<1>6. ~Owned(mem', P, K) /\ Elsewhere(mem, mem', P, K)
  BY <1>3, <1>4, <1>5, PurgeOwners
<1>7. /\ Removing(a) /\ ~Creating(a) /\ ~Adding(a) /\ ~Purged(a) /\ ~Saving(a)
      /\ On(a, P) /\ P \in Path /\ K \in Knot
  BY <1>1, <1>2, <1>3, <1>4, <1>5 DEF Removing, Creating, Adding, Purged, Saving, On
<1>8. /\ \A b \in Request \ {a} :
              /\ Removing(b)' <=> Removing(b)
              /\ Creating(b)' <=> Creating(b)
              /\ Adding(b)' <=> Adding(b)
              /\ Purged(b)' <=> Purged(b)
              /\ Saving(b)' <=> Saving(b)
      /\ Removing(a)' /\ ~Creating(a)' /\ ~Adding(a)' /\ Purged(a)' /\ ~Saving(a)'
      /\ \A b \in Request : job'[b] = job[b]
      /\ \A path : \A b \in Request : On(b, path)' <=> On(b, path)
  BY <1>1, Flags
<1>9. RowsOf(P)' = RowsOf(P)
  BY <1>1 DEF RowsOf, PathOf
<1>10. ASSUME Clear(P)', NEW k \in Knot
       PROVE  FilesAt(P, k)' /\ MemAt(P, k)' /\ DiskAt(P, k)'
  <2>1. /\ RowsOf(P) = {own}
        /\ \A b \in Request \ {a} : Removing(b) \/ Adding(b) => ~On(b, P)
    BY <1>3, <1>7, <1>8, <1>9, <1>10 DEF Clear
  <2>2. Clear(P)
    BY <1>1, <1>3, <1>7, <1>10, <2>1 DEF Clear
  <2>3. FilesAt(P, k) /\ MemAt(P, k) /\ DiskAt(P, k)
    BY <1>7, <2>2 DEF Sync, Synced
  <2>4. \A x : Holds(x)' <=> Holds(x)
    BY <1>1, <1>7, <1>8 DEF Holds
  <2>5. \A x : Holds(x) => x \in Known
    BY HolderKnown
  <2>6. \A x : Holds(x)' => x \in Known'
    BY HolderKnown DEF Holds, Known, Creating
  <2>7. FilesAt(P, k)'
    BY <1>1, <2>3, <2>4, <2>5, <2>6 DEF FilesAt, PathOf
  <2>8. ~Owned(mem', P, k)
    <3>1. CASE k = K
      BY <1>6, <3>1
    <3>2. CASE k # K
      <4>1. ~RowAt(P, k)
        BY <1>5, <2>1, <3>2 DEF RowAt
      <4>2. ~Owned(mem, P, k)
        BY <1>7, <2>1, <2>3, <4>1 DEF MemAt
      <4>3. QED
        BY <1>6, <1>7, <3>2, <4>2 DEF Elsewhere
    <3>3. QED
      BY <3>1, <3>2
  <2>9. MemAt(P, k)'
    BY <1>7, <1>8, <2>1, <2>8 DEF MemAt, Owned
  <2>10. DiskAt(P, k)'
    BY <1>1, <1>7, <1>8, <1>9, <2>3 DEF DiskAt, RowAt, Owned
  <2>11. QED
    BY <2>7, <2>9, <2>10
<1>11. Synced(PathOf(own))'
  BY <1>4, <1>10 DEF Synced
<1>12. \A path \in Path : path # PathOf(own) => \A k \in Knot :
           Owned(mem', path, k) <=> Owned(mem, path, k)
  BY <1>4, <1>6 DEF Elsewhere
<1>13. QED
  BY <1>1, <1>3, <1>11, <1>12, OwnSync DEF Owned

(* NewRepo's transaction begins: if the path is to stay clear, nobody is   *)
(* deleting it.                                                            *)
LEMMA WriteSync ==
  ASSUME IInv, Stages, OwnersOK, Sync, NEW a \in Request, Write(a)
  PROVE  Sync'
<1> DEFINE r == job[a].repo
<1>1. /\ pc[a] = "write" /\ UNCHANGED <<rows, files, disk, scarred>>
  BY DEF Write, world, hist
<1>2. PathOf(r) \in Path /\ r.knot \in Knot /\ job[a].op \in {"create", "invite", "delete"}
  BY <1>1, JobPath DEF IInv, Control, JobOK
<1>3. PICK own : own = r
  OBVIOUS
<1>4. PICK P : P = PathOf(own)
  OBVIOUS
<1>5. PICK K : K = own.knot
  OBVIOUS
<1>6. \/ Goto(a, "commit") /\ job[a].op = "create"
         /\ Owned(mem', P, K) /\ Elsewhere(mem, mem', P, K)
      \/ Goto(a, "commit") /\ job[a].op # "create" /\ mem' = mem
      \/ Goto(a, "abort") /\ job[a].op = "invite" /\ mem' = mem
  BY <1>3, <1>4, <1>5, WriteOwners
<1>7. CASE Goto(a, "commit") /\ job[a].op # "create" /\ mem' = mem
  BY <1>1, <1>2, <1>7, QuietSync DEF Owned
<1>8. CASE Goto(a, "abort") /\ job[a].op = "invite" /\ mem' = mem
  BY <1>1, <1>8, QuietSync DEF Owned
<1>9. CASE Goto(a, "commit") /\ job[a].op = "create"
           /\ Owned(mem', P, K) /\ Elsewhere(mem, mem', P, K)
  <2>1. /\ ~Removing(a) /\ Creating(a) /\ ~Adding(a) /\ ~Purged(a) /\ ~Saving(a)
        /\ On(a, P) /\ P \in Path /\ K \in Knot /\ job[a].repo.knot = K
    BY <1>1, <1>2, <1>3, <1>4, <1>5, <1>9 DEF Removing, Creating, Adding, Purged, Saving, On
  <2>2. /\ \A b \in Request \ {a} :
                /\ Removing(b)' <=> Removing(b)
                /\ Creating(b)' <=> Creating(b)
                /\ Adding(b)' <=> Adding(b)
                /\ Purged(b)' <=> Purged(b)
                /\ Saving(b)' <=> Saving(b)
        /\ ~Removing(a)' /\ Creating(a)' /\ Adding(a)' /\ ~Purged(a)' /\ ~Saving(a)'
        /\ \A b \in Request : job'[b] = job[b]
        /\ \A path : \A b \in Request : On(b, path)' <=> On(b, path)
    BY <1>1, <1>9, Flags
  <2>3. RowsOf(P)' = RowsOf(P)
    BY <1>1 DEF RowsOf, PathOf
  <2>4. ASSUME Clear(P)', NEW k \in Knot
        PROVE  FilesAt(P, k)' /\ MemAt(P, k)' /\ DiskAt(P, k)'
    <3>1. \A b \in Request : Removing(b) => ~On(b, P)
      BY <2>1, <2>2, <2>4 DEF Clear
    <3>2. Clear(P)
      BY <1>1, <2>4, <3>1 DEF Clear
    <3>3. FilesAt(P, k) /\ MemAt(P, k) /\ DiskAt(P, k)
      BY <2>1, <3>2 DEF Sync, Synced
    <3>4. \A x : Holds(x)' <=> Holds(x)
      BY <1>1, <2>1, <2>2 DEF Holds
    <3>5. \A x : Holds(x) => x \in Known
      BY HolderKnown
    <3>6. \A x : Holds(x)' => x \in Known'
      BY HolderKnown DEF Holds, Known, Creating
    <3>7. FilesAt(P, k)'
      BY <1>1, <3>3, <3>4, <3>5, <3>6 DEF FilesAt, PathOf
    <3>8. MemAt(P, k)'
      <4>1. CASE k = K
        BY <1>9, <2>1, <2>2, <4>1 DEF MemAt, Owned
      <4>2. CASE k # K
        <5>1. Owned(mem', P, k) <=> Owned(mem, P, k)
          BY <1>9, <2>1, <4>2 DEF Elsewhere
        <5>2. RowAt(P, k)' <=> RowAt(P, k)
          BY <2>3 DEF RowAt
        <5>3. QED
          BY <2>1, <2>2, <3>3, <4>2, <5>1, <5>2 DEF MemAt, Owned
      <4>3. QED
        BY <4>1, <4>2
    <3>9. DiskAt(P, k)'
      BY <1>1, <2>1, <2>2, <2>3, <3>3 DEF DiskAt, RowAt, Owned
    <3>10. QED
      BY <3>7, <3>8, <3>9
  <2>5. Synced(PathOf(own))'
    BY <1>4, <2>4 DEF Synced
  <2>6. \A path \in Path : path # PathOf(own) => \A k \in Knot :
             Owned(mem', path, k) <=> Owned(mem, path, k)
    BY <1>4, <1>9 DEF Elsewhere
  <2>7. QED
    BY <1>1, <1>3, <1>9, <2>5, <2>6, OwnSync DEF Owned
<1>10. QED
  BY <1>6, <1>7, <1>8, <1>9

(* The row of a new repository is written. *)
LEMMA CommitCreates ==
  ASSUME IInv, Stages, Sync, NEW a \in Request, pc[a] = "commit", job[a].op = "create",
         Goto(a, "save"), NEW own, own = job[a].repo, own.knot \in Knot,
         PathOf(own) \in Path, rows' = rows \cup {own},
         UNCHANGED <<files, mem, disk, scarred>>
  PROVE  Sync'
<1>1. PICK P : P = PathOf(own)
  OBVIOUS
<1>2. /\ ~Removing(a) /\ Creating(a) /\ Adding(a) /\ ~Purged(a) /\ ~Saving(a)
      /\ On(a, P) /\ P \in Path
  BY <1>1 DEF Removing, Creating, Adding, Purged, Saving, On
<1>3. /\ \A b \in Request \ {a} :
              /\ Removing(b)' <=> Removing(b)
              /\ Creating(b)' <=> Creating(b)
              /\ Adding(b)' <=> Adding(b)
              /\ Purged(b)' <=> Purged(b)
              /\ Saving(b)' <=> Saving(b)
      /\ ~Removing(a)' /\ ~Creating(a)' /\ ~Adding(a)' /\ ~Purged(a)' /\ Saving(a)'
      /\ \A b \in Request : job'[b] = job[b]
      /\ \A path : \A b \in Request : On(b, path)' <=> On(b, path)
  BY Flags
<1>4. RowsOf(P)' = RowsOf(P) \cup {own}
  BY <1>1 DEF RowsOf, PathOf
<1>5. ASSUME Clear(P)', NEW k \in Knot
      PROVE  FilesAt(P, k)' /\ MemAt(P, k)' /\ DiskAt(P, k)'
  <2>1. \A b \in Request : Removing(b) => ~On(b, P)
    <3>1. SUFFICES ASSUME NEW b \in Request, Removing(b), On(b, P) PROVE FALSE
      OBVIOUS
    <3>2. b # a /\ Removing(b)' /\ On(b, P)' /\ job'[b] = job[b]
      BY <1>2, <1>3, <3>1
    <3>3. RowsOf(P)' = {job[b].repo}
      BY <1>5, <3>2 DEF Clear
    <3>4. job[b].repo # own
      BY <3>1, <3>2 DEF Stages, Fresh, Inventing, Removing
    <3>5. QED
      BY <1>4, <3>3, <3>4
  <2>2. Clear(P)
    BY <1>5, <2>1 DEF Clear
  <2>3. FilesAt(P, k) /\ MemAt(P, k)
    BY <1>2, <2>2 DEF Sync, Synced
  <2>4. Holds(own) /\ Holds(own)'
    BY <1>1, <1>2, <1>3, <2>1 DEF Holds, On
  <2>5. \A x : x # own => (Holds(x)' <=> Holds(x))
    BY <1>2, <1>3 DEF Holds
  <2>6. \A x : Holds(x) => x \in Known
    BY HolderKnown
  <2>7. \A x : Holds(x)' => x \in Known'
    BY HolderKnown DEF Holds, Known, Creating
  <2>8. FilesAt(P, k)'
    BY <2>3, <2>4, <2>5, <2>6, <2>7 DEF FilesAt, PathOf
  <2>9. MemAt(P, k)'
    <3>1. \A b \in Request : (Purged(b) => ~On(b, P)) /\ (Purged(b)' => ~On(b, P)')
      BY <1>2, <1>3, <2>1 DEF Purged, Removing
    <3>2. RowAt(P, k)' <=> RowAt(P, k) \/ own.knot = k
      BY <1>4 DEF RowAt
    <3>3. (\E b \in Request : Adding(b) /\ On(b, P) /\ job[b].repo.knot = k)
          <=> \/ own.knot = k
              \/ \E b \in Request : Adding(b)' /\ On(b, P)' /\ job'[b].repo.knot = k
      BY <1>2, <1>3
    <3>4. QED
      BY <2>3, <3>1, <3>2, <3>3 DEF MemAt, Owned
  <2>10. DiskAt(P, k)'
    BY <1>2, <1>3 DEF DiskAt
  <2>11. QED
    BY <2>8, <2>9, <2>10
<1>6. Synced(PathOf(own))'
  BY <1>1, <1>5 DEF Synced
<1>7. \A r : PathOf(r) # PathOf(own) => (r \in rows' <=> r \in rows)
  OBVIOUS
<1>8. QED
  BY <1>6, <1>7, OwnSync DEF Owned

(* The one row of the path goes, under the lock: no other request has made *)
(* rules for the path.                                                     *)
LEMMA CommitRemoves ==
  ASSUME IInv, Stages, Sync, NEW a \in Request, pc[a] = "commit", job[a].op = "delete",
         Goto(a, "save"), NEW own, own = job[a].repo,
         PathOf(own) \in Path, RowsOf(PathOf(own)) = {own},
         rows' = rows \ RowsOf(PathOf(own)),
         UNCHANGED <<files, mem, disk, scarred>>
  PROVE  Sync'
<1>1. PICK P : P = PathOf(own)
  OBVIOUS
<1>2. /\ Removing(a) /\ ~Creating(a) /\ ~Adding(a) /\ Purged(a) /\ ~Saving(a)
      /\ On(a, P) /\ P \in Path
  BY <1>1 DEF Removing, Creating, Adding, Purged, Saving, On
<1>3. /\ \A b \in Request \ {a} :
              /\ Removing(b)' <=> Removing(b)
              /\ Creating(b)' <=> Creating(b)
              /\ Adding(b)' <=> Adding(b)
              /\ Purged(b)' <=> Purged(b)
              /\ Saving(b)' <=> Saving(b)
      /\ ~Removing(a)' /\ ~Creating(a)' /\ ~Adding(a)' /\ ~Purged(a)' /\ Saving(a)'
      /\ \A b \in Request : job'[b] = job[b]
      /\ \A path : \A b \in Request : On(b, path)' <=> On(b, path)
  BY Flags
<1>4. RowsOf(P) = {own} /\ RowsOf(P)' = {}
  BY <1>1 DEF RowsOf, PathOf
<1>5. \A b \in Request \ {a} : ~Adding(b)
  BY DEF Stages, Stage, Adding
<1>6. ASSUME Clear(P)', NEW k \in Knot
      PROVE  FilesAt(P, k)' /\ MemAt(P, k)' /\ DiskAt(P, k)'
  <2>1. \A b \in Request \ {a} : Removing(b) => ~On(b, P)
    BY <1>3, <1>4, <1>6 DEF Clear
  <2>2. Clear(P)
    BY <1>2, <1>4, <1>5, <1>6, <2>1 DEF Clear
  <2>3. FilesAt(P, k) /\ MemAt(P, k)
    BY <1>2, <2>2 DEF Sync, Synced
  <2>4. ASSUME NEW x, PathOf(x) = P PROVE Holds(x)' <=> Holds(x)
    <3>1. x \in rows => x = own
      BY <1>4, <2>4 DEF RowsOf
    <3>2. x \notin rows'
      BY <1>1, <2>4 DEF RowsOf
    <3>3. QED
      BY <1>2, <1>3, <3>1, <3>2 DEF Holds
  <2>5. \A x : Holds(x) => x \in Known
    BY HolderKnown
  <2>6. \A x : Holds(x)' => x \in Known'
    BY HolderKnown DEF Holds, Known, Creating
  <2>7. FilesAt(P, k)'
    BY <2>3, <2>4, <2>5, <2>6 DEF FilesAt, PathOf
  <2>8. MemAt(P, k)'
    BY <1>2, <1>3, <1>4, <1>5, <2>3 DEF MemAt, RowAt, Owned
  <2>9. DiskAt(P, k)'
    BY <1>2, <1>3 DEF DiskAt
  <2>10. QED
    BY <2>7, <2>8, <2>9
<1>7. Synced(PathOf(own))'
  BY <1>1, <1>6 DEF Synced
<1>8. \A r : PathOf(r) # PathOf(own) => (r \in rows' <=> r \in rows)
  BY DEF RowsOf
<1>9. QED
  BY <1>7, <1>8, OwnSync DEF Owned

LEMMA CommitSync ==
  ASSUME IInv, Stages, Sync, NEW a \in Request, Commit(a)
  PROVE  Sync'
<1> DEFINE r == job[a].repo
<1>1. /\ pc[a] = "commit" /\ Goto(a, "save") /\ rows' = TxRows(a)
      /\ UNCHANGED <<files, mem, disk>> /\ scarred \subseteq scarred'
  BY DEF Commit, world, Scar
<1>2. /\ PathOf(r) \in Path /\ r.knot \in Knot /\ job[a].op \in {"create", "invite", "delete"}
      /\ Gone(a) = RowsOf(PathOf(r))
  BY <1>1, JobPath DEF IInv, Control, JobOK, Gone, RowsOf
<1>3. PICK own : own = r
  OBVIOUS
<1>4. CASE job[a].op = "create"
  BY <1>1, <1>2, <1>3, <1>4, CommitCreates DEF Commit, TxRows
<1>5. CASE job[a].op = "invite"
  BY <1>1, <1>5, QuietSync DEF TxRows, Owned
<1>6. CASE job[a].op = "delete" /\ Gone(a) = {job[a].repo}
  BY <1>1, <1>2, <1>3, <1>6, CommitRemoves DEF Commit, TxRows
<1>7. CASE job[a].op = "delete" /\ Gone(a) # {job[a].repo}
  <2>1. PathOf(own) \in scarred'
    BY <1>3, <1>7 DEF Commit, Scar
  <2>2. Synced(PathOf(own))'
    BY <2>1, ScarSync
  <2>3. \A x : PathOf(x) # PathOf(own) => (x \in rows' <=> x \in rows)
    BY <1>1, <1>3, <1>7 DEF TxRows, Gone
  <2>4. QED
    BY <1>1, <1>3, <2>2, <2>3, OwnSync DEF Owned
<1>8. QED
  BY <1>2, <1>4, <1>5, <1>6, <1>7

(* A failed transaction or save leaves a scar. *)
LEMMA ErrorSync ==
  ASSUME IInv, Sync, NEW a \in Request, TxError(a) \/ SaveError(a)
  PROVE  Sync'
<1>1. /\ pc[a] # "idle" /\ UNCHANGED <<rows, files, mem, disk>> /\ scarred \subseteq scarred'
  BY DEF TxError, SaveError, stores, world, Scar
<1>2. PICK own : own = job[a].repo
  OBVIOUS
<1>3. PICK l : Goto(a, l)
  BY DEF TxError, SaveError
<1>4. CASE job[a].op = "invite" /\ TxError(a)
  BY <1>1, <1>3, <1>4, QuietSync DEF Owned
<1>5. CASE PathOf(own) \in scarred'
  <2>1. Synced(PathOf(own))'
    BY <1>5, ScarSync
  <2>2. QED
    BY <1>1, <1>2, <1>3, <2>1, OwnSync DEF Owned
<1>6. QED
  BY <1>2, <1>4, <1>5 DEF TxError, SaveError, Scar

(* What is saved is what the rows say, but for the paths of others who are *)
(* at work or rolling back.                                                *)
LEMMA SaveSync ==
  ASSUME IInv, Sync, NEW a \in Request, SavePolicy(a)
  PROVE  Sync'
<1>1. /\ pc[a] = "save" /\ disk' = mem /\ Goto(a, "load")
      /\ UNCHANGED <<rows, files, mem>>
      /\ scarred' = scarred \cup {PathOf(job[b].repo) :
                       b \in {c \in Request \ {a} : pc[c] = "abort" \/ Unsaved(c)}}
  BY DEF SavePolicy, world
<1>2. /\ \A b \in Request \ {a} :
              /\ Removing(b)' <=> Removing(b)
              /\ Creating(b)' <=> Creating(b)
              /\ Adding(b)' <=> Adding(b)
              /\ Purged(b)' <=> Purged(b)
              /\ Saving(b)' <=> Saving(b)
      /\ ~Removing(a)' /\ ~Creating(a)' /\ ~Adding(a)' /\ ~Purged(a)' /\ ~Saving(a)'
      /\ \A b \in Request : job'[b] = job[b]
      /\ \A path : \A b \in Request : On(b, path)' <=> On(b, path)
  BY <1>1, Flags
<1>3. ~Removing(a) /\ ~Creating(a) /\ ~Adding(a) /\ ~Purged(a)
  BY <1>1 DEF Removing, Creating, Adding, Purged
<1>4. ASSUME NEW path \in Path, Clear(path)', NEW k \in Knot
      PROVE  FilesAt(path, k)' /\ MemAt(path, k)' /\ DiskAt(path, k)'
  <2>1. path \notin scarred'
    BY <1>4 DEF Clear
  <2>2. ASSUME NEW b \in Request \ {a}, On(b, path)
        PROVE  ~Unsaved(b) /\ ~Adding(b) /\ ~Purged(b) /\ ~Saving(b)
    <3>1. ~Unsaved(b)
      BY <1>1, <2>1, <2>2 DEF On
    <3>2. QED
      BY <3>1 DEF Unsaved, Adding, Purged, Saving
  <2>3. RowsOf(path)' = RowsOf(path)
    BY <1>1 DEF RowsOf, PathOf
  <2>4. Clear(path)
    BY <1>1, <1>2, <1>3, <1>4, <2>3 DEF Clear
  <2>5. FilesAt(path, k) /\ MemAt(path, k)
    BY <2>4 DEF Sync, Synced
  <2>6. \A x : Holds(x)' <=> Holds(x)
    BY <1>1, <1>2, <1>3 DEF Holds
  <2>7. \A x : Holds(x) => x \in Known
    BY HolderKnown
  <2>8. \A x : Holds(x)' => x \in Known'
    BY HolderKnown DEF Holds, Known, Creating
  <2>9. FilesAt(path, k)'
    BY <1>1, <2>5, <2>6, <2>7, <2>8 DEF FilesAt, PathOf
  <2>10. Owned(mem, path, k) <=> RowAt(path, k)
    BY <1>3, <2>2, <2>5 DEF MemAt
  <2>11. RowAt(path, k)' <=> RowAt(path, k)
    BY <2>3 DEF RowAt
  <2>12. MemAt(path, k)' /\ DiskAt(path, k)'
    BY <1>1, <1>2, <2>2, <2>10, <2>11 DEF MemAt, DiskAt, Owned
  <2>13. QED
    BY <2>9, <2>12
<1>5. QED
  BY <1>4 DEF Sync, Synced

(* What is loaded is what the rows say, but for the paths of others who    *)
(* have not saved.                                                         *)
LEMMA LoadSync ==
  ASSUME IInv, Sync, NEW a \in Request, LoadPolicy(a)
  PROVE  Sync'
<1>1. /\ pc[a] \in {"load", "abort"} /\ mem' = disk
      /\ UNCHANGED <<rows, files, disk>>
      /\ scarred' = scarred \cup {PathOf(job[b].repo) : b \in {c \in Request \ {a} : Unsaved(c)}}
  BY DEF LoadPolicy, world
<1>2. PICK l \in {"unput", "idle"} : Goto(a, l)
  BY DEF LoadPolicy
<1>3. ASSUME NEW path \in Path, Clear(path)', NEW k \in Knot
      PROVE  FilesAt(path, k)' /\ MemAt(path, k)' /\ DiskAt(path, k)'
  <2>1. \A b \in Request : SameTouch(b, path)
    BY <1>1, <1>2, Moved
  <2>2. ASSUME NEW b \in Request, On(b, path)
        PROVE  ~Adding(b) /\ ~Purged(b) /\ ~Saving(b)
    <3>1. CASE b = a
      BY <1>1, <3>1 DEF Adding, Purged, Saving
    <3>2. CASE b # a
      <4>1. path \notin scarred'
        BY <1>3 DEF Clear
      <4>2. ~Unsaved(b)
        BY <1>1, <2>2, <3>2, <4>1 DEF On
      <4>3. QED
        BY <4>2 DEF Unsaved, Adding, Purged, Saving
    <3>3. QED
      BY <3>1, <3>2
  <2>3. ASSUME NEW b \in Request, On(b, path)'
        PROVE  ~Adding(b)' /\ ~Purged(b)' /\ ~Saving(b)'
    <3>1. /\ (On(b, path) /\ Adding(b))' <=> On(b, path) /\ Adding(b)
          /\ (On(b, path) /\ Purged(b))' <=> On(b, path) /\ Purged(b)
          /\ (On(b, path) /\ Saving(b))' <=> On(b, path) /\ Saving(b)
      BY <2>1, SameFlags
    <3>2. QED
      BY <2>2, <2>3, <3>1
  <2>4. Clear(path) /\ RowsOf(path)' = RowsOf(path)
    BY <1>1, <1>3, <2>1, SameHolders
  <2>5. FilesAt(path, k) /\ DiskAt(path, k)
    BY <2>4 DEF Sync, Synced
  <2>6. FilesAt(path, k)'
    BY <1>1, <1>3, <2>1, <2>5, SameHolders
  <2>7. Owned(disk, path, k) <=> RowAt(path, k)
    BY <2>2, <2>5 DEF DiskAt
  <2>8. RowAt(path, k)' <=> RowAt(path, k)
    BY <2>4 DEF RowAt
  <2>9. MemAt(path, k)' /\ DiskAt(path, k)'
    BY <1>1, <2>3, <2>7, <2>8 DEF MemAt, DiskAt, Owned
  <2>10. QED
    BY <2>6, <2>9
<1>4. QED
  BY <1>3 DEF Sync, Synced

(* A path that a crash leaves without a scar had no request. *)
LEMMA CrashSync ==
  ASSUME IInv, Sync, Crash
  PROVE  Sync'
<1>1. /\ mem' = disk /\ UNCHANGED <<rows, files, disk>>
      /\ \A b \in Request : pc'[b] = "idle"
      /\ scarred' = scarred \cup {PathOf(job[b].repo) : b \in {c \in Request : pc[c] # "idle"}}
  BY DEF Crash, world
<1>2. ASSUME NEW path \in Path, Clear(path)', NEW k \in Knot
      PROVE  FilesAt(path, k)' /\ MemAt(path, k)' /\ DiskAt(path, k)'
  <2>1. \A b \in Request : ~Adding(b)' /\ ~Purged(b)' /\ ~Saving(b)' /\ ~Touches(b, path)'
    BY <1>1 DEF Adding, Purged, Saving, Touches, Removing, Creating
  <2>2. ASSUME NEW b \in Request, On(b, path)
        PROVE  ~Adding(b) /\ ~Purged(b) /\ ~Saving(b) /\ ~Touches(b, path)
    <3>1. path \notin scarred'
      BY <1>2 DEF Clear
    <3>2. pc[b] = "idle"
      BY <1>1, <2>2, <3>1 DEF On
    <3>3. QED
      BY <3>2 DEF Adding, Purged, Saving, Touches, Removing, Creating
  <2>3. \A b \in Request : SameTouch(b, path)
    BY <2>1, <2>2 DEF SameTouch, Touches
  <2>4. Clear(path) /\ RowsOf(path)' = RowsOf(path)
    BY <1>1, <1>2, <2>3, SameHolders
  <2>5. FilesAt(path, k) /\ DiskAt(path, k)
    BY <2>4 DEF Sync, Synced
  <2>6. FilesAt(path, k)'
    BY <1>1, <1>2, <2>3, <2>5, SameHolders
  <2>7. Owned(disk, path, k) <=> RowAt(path, k)
    BY <2>2, <2>5 DEF DiskAt
  <2>8. RowAt(path, k)' <=> RowAt(path, k)
    BY <2>4 DEF RowAt
  <2>9. MemAt(path, k)' /\ DiskAt(path, k)'
    BY <1>1, <2>1, <2>7, <2>8 DEF MemAt, DiskAt, Owned
  <2>10. QED
    BY <2>6, <2>9
<1>3. QED
  BY <1>2 DEF Sync, Synced

LEMMA NextSync ==
  ASSUME IInv, Stages, OwnersOK, Sync, [Next]_vars
  PROVE  Sync'
<1>1. ASSUME UNCHANGED <<rows, files, mem, disk>>, scarred \subseteq scarred',
             \A b \in Request, path \in Path : SameTouch(b, path)
      PROVE  Sync'
  <2>1. ASSUME NEW path \in Path PROVE Synced(path)'
    BY <1>1, SamePath DEF Sync, Owned
  <2>2. QED
    BY <2>1 DEF Sync
<1>2. ASSUME NEW a \in Request, NEW op, NEW u, NEW r, NEW m, NEW from,
             Call(a, op, u, r, m, from, "put")
      PROVE  Sync'
  <2>1. /\ pc[a] = "idle" /\ pc' = [pc EXCEPT ![a] = "put"]
        /\ UNCHANGED <<rows, files, mem, disk, scarred>>
    BY <1>2 DEF Call, stores, world, hist
  <2>2. PICK j : job' = [job EXCEPT ![a] = j]
    BY <1>2 DEF Call
  <2>3. /\ pc'[a] = "put"
        /\ \A b \in Request \ {a} : pc'[b] = pc[b] /\ job'[b] = job[b]
    BY <2>1, <2>2 DEF IInv, Control, Types
  <2>4. \A path : ~Touches(a, path) /\ ~Touches(a, path)'
    BY <2>1, <2>3 DEF Touches, Removing, Creating, Saving
  <2>5. QED
    BY <1>1, <2>1, <2>3, <2>4 DEF SameTouch
<1>3. ASSUME NEW a \in Request, PdsWrite(a) \/ PdsError(a) \/ RollbackRecord(a)
      PROVE  Sync'
  <2>1. pc[a] \in {"put", "unput"} /\ UNCHANGED <<rows, files, mem, disk>>
    BY <1>3 DEF PdsWrite, PdsError, RollbackRecord, stores, world
  <2>2. job[a].op \in {"create", "invite", "delete"} /\ scarred \subseteq scarred'
    <3>1. job[a].op \in {"create", "invite", "delete"}
      BY <2>1 DEF IInv, Control, JobOK
    <3>2. CASE PdsWrite(a)
      BY <3>1, <3>2 DEF PdsWrite, hist, Scar
    <3>3. CASE PdsError(a) \/ RollbackRecord(a)
      BY <3>1, <3>3 DEF PdsError, RollbackRecord, hist, Scar
    <3>4. QED
      BY <1>3, <3>1, <3>2, <3>3
  <2>3. PICK l \in {"knot", "grant", "idle"} : Goto(a, l)
    BY <1>3, <2>2 DEF PdsWrite, PdsError, RollbackRecord
  <2>4. QED
    BY <2>1, <2>2, <2>3, QuietSync DEF Owned
<1>4. ASSUME NEW a \in Request, Grant(a) PROVE Sync'
  <2>1. /\ pc[a] = "grant" /\ UNCHANGED <<rows, files, disk, scarred>> /\ Goto(a, "write")
    BY <1>4 DEF Grant, world, hist
  <2>2. job[a].op = "invite"
    BY <2>1 DEF Stages, Stage
  <2>3. \A path \in Path, k \in Knot : Owned(mem', path, k) <=> Owned(mem, path, k)
    BY <1>4, GrantOwners
  <2>4. QED
    BY <2>1, <2>2, <2>3, QuietSync
<1>5. ASSUME NEW a \in Request, Step(a) PROVE Sync'
  BY <1>2, <1>3, <1>4, <1>5, KnotSync, PurgeSync, WriteSync, CommitSync, ErrorSync, SaveSync,
     LoadSync DEF Step, NewRepo, ForkRepo, AddCollaboratorReq, DeleteRepo
<1>6. CASE UNCHANGED <<rows, files, mem, disk, scarred, pc, job>>
  BY <1>1, <1>6 DEF SameTouch
<1>7. CASE \/ UNCHANGED vars
           \/ \E k \in Knot : processCollaborator(k)
           \/ \E u, m \in User, r \in rows : OtherClient(u, m, r)
  BY <1>6, <1>7 DEF vars, stores, world, hist, processCollaborator, OtherClient
<1>8. QED
  BY <1>5, <1>7, CrashSync DEF Next

(* At first there is no repository. *)
LEMMA InitPlaces == Init => Stages /\ RecordsKept /\ OwnersOK /\ Sync
<1> SUFFICES ASSUME Init PROVE Stages /\ RecordsKept /\ OwnersOK /\ Sync
  OBVIOUS
<1>1. /\ rows = {} /\ records.repo = {} /\ \A a \in Request : pc[a] = "idle"
      /\ mem = AllRoles /\ disk = AllRoles /\ files = [k \in Knot |-> {}]
  BY DEF Init
<1>2. Stages
  BY <1>1 DEF Init, Stages, Stage, Fresh, Inventing, Idle
<1>3. RecordsKept
  BY <1>1 DEF RecordsKept, RecordOf, Recorded, Undoing, Unrecorded
<1>4. OwnersOK /\ \A k \in Knot, path \in Path : ~Owned(AllRoles, path, k)
  BY InitOwners
<1>5. ASSUME NEW path \in Path, NEW k \in Knot
      PROVE  FilesAt(path, k) /\ MemAt(path, k) /\ DiskAt(path, k)
  <2>1. /\ \A r : ~Holds(r)
        /\ ~RowAt(path, k) /\ \A a \in Request : ~Adding(a)
    BY <1>1 DEF Holds, Creating, RowAt, RowsOf, Adding
  <2>2. FilesAt(path, k)
    BY <1>1, <2>1 DEF FilesAt
  <2>3. MemAt(path, k) /\ DiskAt(path, k)
    BY <1>1, <1>4, <2>1 DEF MemAt, DiskAt
  <2>4. QED
    BY <2>2, <2>3
<1>6. QED
  BY <1>2, <1>3, <1>4, <1>5 DEF Sync, Synced

Places == Stages /\ RecordsKept /\ OwnersOK /\ Sync

LEMMA PlacesInv == Spec => [](IInv /\ Places)
<1>1. Init => IInv /\ Places
  BY InitInv, InitPlaces DEF Places
<1>2. IInv /\ Places /\ [Next]_vars => (IInv /\ Places)'
  BY NextInv, NextStages, NextRecords, NextOwners, NextSync DEF Places
<1>3. QED
  BY <1>1, <1>2, PTL DEF Spec

(* The places of a quiet path agree: nobody is at it, so it is clear, and  *)
(* each clause of the invariant says what one place has.                   *)
LEMMA QuietAgrees ==
  ASSUME IInv, Places
  PROVE  PlacesAgree
<1> SUFFICES ASSUME NEW path \in Path, NEW k \in Knot, Quiet(path), path \notin scarred
             PROVE  LET row == \E r \in rows : PathOf(r) = path /\ r.knot = k
                    IN  /\ row <=> \E r \in records.repo : PathOf(r) = path /\ r.knot = k
                        /\ row <=> path \in files[k]
                        /\ \A pol \in {mem, disk, kpol[k]} :
                              row <=> Has(pol, path[1], k, path, "repo:owner")
  BY DEF PlacesAgree
<1> DEFINE row == \E r \in rows : PathOf(r) = path /\ r.knot = k
<1>1. \A a \in Request : pc[a] # "idle" => ~On(a, path)
  BY DEF Quiet, On
<1>2. \A a \in Request : On(a, path) =>
        ~Removing(a) /\ ~Creating(a) /\ ~Adding(a) /\ ~Purged(a) /\ ~Saving(a)
  BY <1>1 DEF Removing, Creating, Adding, Purged, Saving
<1>3. Clear(path)
  BY <1>2 DEF Clear
<1>4. FilesAt(path, k) /\ MemAt(path, k) /\ DiskAt(path, k)
  BY <1>3 DEF Places, Sync, Synced
<1>5. row <=> RowAt(path, k)
  BY DEF RowAt, RowsOf
<1>6. row <=> path \in files[k]
  <2>1. ASSUME NEW r, PathOf(r) = path PROVE Holds(r) <=> r \in rows
    BY <1>2, <2>1 DEF Holds, On
  <2>2. rows \subseteq Known
    BY DEF Known
  <2>3. QED
    BY <1>4, <2>1, <2>2 DEF FilesAt
<1>7. row <=> \E r \in records.repo : PathOf(r) = path /\ r.knot = k
  <2>1. ASSUME NEW r \in rows \cup records.repo, PathOf(r) = path
        PROVE  r \in rows <=> r \in records.repo
    <3>1. RowRecord(r) /\ ~Scarred(r)
      BY <2>1 DEF Places, RecordsKept, Scarred
    <3>2. \A a \in Request : job[a].repo = r => ~Recorded(a) /\ ~Undoing(a) /\ ~Unrecorded(a)
      BY <1>1, <2>1 DEF On, Recorded, Undoing, Unrecorded
    <3>3. QED
      BY <3>1, <3>2 DEF RowRecord
  <2>2. QED
    BY <2>1
<1>8. Owned(mem, path, k) <=> row
  BY <1>2, <1>4, <1>5 DEF MemAt
<1>9. Owned(disk, path, k) <=> row
  BY <1>2, <1>4, <1>5 DEF DiskAt
<1>10. Owned(kpol[k], path, k) <=> row
  BY <1>6 DEF Places, OwnersOK
<1>11. \A pol \in {mem, disk, kpol[k]} : Has(pol, path[1], k, path, "repo:owner") <=> row
  <2>1. Whole(mem) /\ Whole(disk) /\ Whole(kpol[k])
    BY DEF Places, OwnersOK
  <2>2. QED
    BY <1>8, <1>9, <1>10, <2>1, OwnerRule
<1>12. QED
  BY <1>6, <1>7, <1>11

(***************************************************************************)
(* For any accounts, knots, names, requests, faults and bounds: while no   *)
(* request works on a path that nothing has left a scar on, its row, its   *)
(* record, its files on the knot and its owner's rules on the knot, in     *)
(* memory and on disk are all there or all gone.                           *)
(***************************************************************************)
THEOREM PlacesStayTogether == Spec => []PlacesAgree
<1>1. IInv /\ Places => PlacesAgree
  BY QuietAgrees
<1>2. QED
  BY PlacesInv, <1>1, PTL

(***************************************************************************)
(* However many NewRepo, ForkRepo and DeleteRepo of one path run at once,  *)
(* the table has at most one row of a path on a knot, unless a scar or a   *)
(* deletion between its knot and its commit explains the second.           *)
(***************************************************************************)
THEOREM OneRowForPath == Spec => []OneRowPerPath
<1>1. ASSUME IInv, Places PROVE OneRowPerPath
  <2> SUFFICES ASSUME NEW r \in rows, NEW q \in rows, PathOf(r) = PathOf(q), r.knot = q.knot,
                      PathOf(r) \notin scarred,
                      \A a \in Request : Removing(a) => PathOf(job[a].repo) # PathOf(r)
               PROVE  r = q
    BY DEF OneRowPerPath
  <2>1. r \in Known /\ q \in Known /\ r \in SomeRepo
    BY <1>1 DEF Known, IInv, Control, Types
  <2>2. PICK P : P = PathOf(r)
    OBVIOUS
  <2>3. P \in Path /\ r.knot \in Knot
    BY <2>1, <2>2 DEF SomeRepo, PathOf, Path
  <2>4. Clear(P)
    BY <2>2 DEF Clear, On
  <2>5. Holds(r) /\ Holds(q)
    BY DEF Holds
  <2>6. FilesAt(P, r.knot)
    BY <1>1, <2>3, <2>4 DEF Places, Sync, Synced
  <2>7. QED
    BY <2>1, <2>2, <2>5, <2>6 DEF FilesAt
<1>2. QED
  BY PlacesInv, <1>1, PTL

----------------------------------------------------------------------------
(***************************************************************************)
(* The rules of the collaborators in the appview's stores: like those of   *)
(* the owners they come and go as a whole, and an owner has none of them.  *)
(***************************************************************************)
GrantRules(u, path, k) == collaboratorPolicies(u, Domain(k), path)

Granted(pol, u, path, k) == GrantRules(u, path, k) \subseteq pol.p

WholeGrants(pol) ==
  \A u \in User, path \in Path, k \in Knot :
    /\ u = path[1] => ~Has(pol, u, k, path, "repo:collaborator")
    /\ u # path[1] =>
         Granted(pol, u, path, k) \/ GrantRules(u, path, k) \cap pol.p = {}

(* new and pol agree on all collaborators, or on all of other repositories. *)
SameGrants(pol, new) ==
  \A u \in User, path \in Path, k \in Knot :
    u # path[1] => (Granted(new, u, path, k) <=> Granted(pol, u, path, k))

GrantsElsewhere(pol, new, path, k) ==
  \A u \in User, q \in Path, n \in Knot :
    u # q[1] /\ (q # path \/ n # k) => (Granted(new, u, q, n) <=> Granted(pol, u, q, n))

LEMMA GrantShape ==
  ASSUME NEW u, NEW path, NEW k, NEW x \in GrantRules(u, path, k)
  PROVE  x[1] = u /\ x[2] = Domain(k) /\ x[3] = path
BY DEF GrantRules, collaboratorPolicies

LEMMA GrantRule ==
  ASSUME NEW u, NEW path, NEW k
  PROVE  <<u, Domain(k), path, "repo:collaborator">> \in GrantRules(u, path, k)
BY DEF GrantRules, collaboratorPolicies

(* "repo:collaborator" stands for all of them. *)
LEMMA CollaboratorRule ==
  ASSUME NEW pol, WholeGrants(pol), NEW u \in User, NEW path \in Path, NEW k \in Knot,
         u # path[1]
  PROVE  /\ Has(pol, u, k, path, "repo:collaborator") <=> Granted(pol, u, path, k)
         /\ ~Granted(pol, u, path, k) <=> GrantRules(u, path, k) \cap pol.p = {}
BY GrantRule DEF WholeGrants, Granted, Has

(* The rules of an owner are no collaborator's. *)
LEMMA OwnerNoGrant ==
  ASSUME NEW path, NEW k, NEW u \in User, NEW q, NEW n, NEW x \in OwnerRules(path, k)
  PROVE  /\ u # q[1] => x \notin GrantRules(u, q, n)
         /\ x # <<u, Domain(n), q, "repo:collaborator">>
<1>1. x[1] \in {path[1], Owner} /\ x[3] = path
  BY RuleShape
<1>2. u # Owner
  BY ReposAssumption
<1>3. u # q[1] => x \notin GrantRules(u, q, n)
  BY <1>1, <1>2, GrantShape
<1>4. x[4] \in {"repo:settings", "repo:push", "repo:owner", "repo:invite", "repo:delete"}
  BY DEF OwnerRules, repoPolicies
<1>5. x # <<u, Domain(n), q, "repo:collaborator">>
  BY <1>4
<1>6. QED
  BY <1>3, <1>5

(* Rules of an owner are added. *)
LEMMA AddRepoGrants ==
  ASSUME NEW pol, IsPolicy(pol), WholeGrants(pol), NEW path, NEW k
  PROVE  LET new == AddRepo(pol, path[1], Domain(k), path)
         IN  WholeGrants(new) /\ SameGrants(pol, new)
<1> DEFINE new == AddRepo(pol, path[1], Domain(k), path)
           b == OwnerRules(path, k)
<1>1. new.p = pol.p \cup b \/ new.p = pol.p
  BY DEF AddRepo, AddPolicies, IsPolicy, OwnerRules
<1>2. \A x \in b : \A u \in User : \A q, n :
        /\ u # q[1] => x \notin GrantRules(u, q, n)
        /\ x # <<u, Domain(n), q, "repo:collaborator">>
  BY OwnerNoGrant
<1> HIDE DEF new, b
<1>3. ASSUME NEW u \in User, NEW q \in Path, NEW n \in Knot
      PROVE  /\ u = q[1] => ~Has(new, u, n, q, "repo:collaborator")
             /\ u # q[1] =>
                  /\ Granted(new, u, q, n) <=> Granted(pol, u, q, n)
                  /\ Granted(new, u, q, n) \/ GrantRules(u, q, n) \cap new.p = {}
  <2>1. u # q[1] => GrantRules(u, q, n) \cap new.p = GrantRules(u, q, n) \cap pol.p
    BY <1>1, <1>2
  <2>2. u = q[1] => ~Has(new, u, n, q, "repo:collaborator")
    BY <1>1, <1>2 DEF WholeGrants, Has
  <2>3. QED
    BY <2>1, <2>2 DEF WholeGrants, Granted
<1>4. WholeGrants(new) /\ SameGrants(pol, new)
  BY <1>3 DEF WholeGrants, SameGrants
<1>5. QED
  BY <1>4 DEF new

(* A collaborator is added. *)
LEMMA AddCollaboratorGrants ==
  ASSUME NEW pol, IsPolicy(pol), WholeGrants(pol), NEW v \in User, NEW path \in Path,
         NEW k \in Knot, v # path[1]
  PROVE  LET new == AddCollaborator(pol, v, Domain(k), path)
         IN  /\ WholeGrants(new) /\ Granted(new, v, path, k)
             /\ \A u \in User, q \in Path, n \in Knot :
                  u # q[1] /\ (u # v \/ q # path \/ n # k)
                    => (Granted(new, u, q, n) <=> Granted(pol, u, q, n))
<1> DEFINE new == AddCollaborator(pol, v, Domain(k), path)
           b == GrantRules(v, path, k)
<1>1. new = IF b \cap pol.p = {} THEN [pol EXCEPT !.p = @ \cup b] ELSE pol
  BY DEF AddCollaborator, AddPolicies, GrantRules
<1>2. new.p = pol.p \cup b
  <2>1. CASE b \cap pol.p = {}
    BY <2>1, <1>1 DEF IsPolicy
  <2>2. CASE b \cap pol.p # {}
    BY <2>2, <1>1, CollaboratorRule DEF Granted
  <2>3. QED
    BY <2>1, <2>2
<1>3. \A x \in b : x[1] = v /\ x[2] = Domain(k) /\ x[3] = path
  BY GrantShape
<1>4. Granted(new, v, path, k)
  BY <1>2 DEF Granted
<1> HIDE DEF new, b
<1>5. ASSUME NEW u \in User, NEW q \in Path, NEW n \in Knot, u # v \/ q # path \/ n # k
      PROVE  b \cap GrantRules(u, q, n) = {}
  <2>1. Domain(k) = Domain(n) => k = n
    BY DEF Domain
  <2>2. QED
    BY <1>3, <1>5, <2>1, GrantShape
<1>6. ASSUME NEW u \in User, NEW q \in Path, NEW n \in Knot
      PROVE  /\ u = q[1] => ~Has(new, u, n, q, "repo:collaborator")
             /\ u # q[1] =>
                  /\ u # v \/ q # path \/ n # k => (Granted(new, u, q, n) <=> Granted(pol, u, q, n))
                  /\ Granted(new, u, q, n) \/ GrantRules(u, q, n) \cap new.p = {}
  <2>1. CASE u = v /\ q = path /\ n = k
    BY <1>4, <2>1
  <2>2. CASE u # v \/ q # path \/ n # k
    <3>1. GrantRules(u, q, n) \cap new.p = GrantRules(u, q, n) \cap pol.p
      BY <1>2, <1>5, <2>2
    <3>2. <<u, Domain(n), q, "repo:collaborator">> \in GrantRules(u, q, n)
      BY GrantRule
    <3>3. QED
      BY <3>1, <3>2 DEF WholeGrants, Granted, Has
  <2>3. QED
    BY <2>1, <2>2
<1>7. QED
  BY <1>4, <1>6 DEF WholeGrants, new

(* All rules for a path on a knot go. *)
LEMMA PurgeGrants ==
  ASSUME NEW pol, WholeGrants(pol), NEW path \in Path, NEW k \in Knot, NEW new, NEW theirs,
         theirs = UNION {collaboratorPolicies(u, Domain(k), path) : u \in User},
         new.p = pol.p \ (OwnerRules(path, k) \cup theirs)
  PROVE  /\ WholeGrants(new) /\ GrantsElsewhere(pol, new, path, k)
         /\ \A u \in User : u # path[1] => ~Granted(new, u, path, k)
<1>1. \A u \in User : GrantRules(u, path, k) \subseteq theirs
  BY DEF GrantRules
<1>2. \A x \in theirs : x[2] = Domain(k) /\ x[3] = path
  BY DEF collaboratorPolicies
<1>3. \A x \in OwnerRules(path, k) \cup theirs : x[2] = Domain(k) /\ x[3] = path
  BY <1>2, RuleShape
<1> DEFINE gone == OwnerRules(path, k) \cup theirs
<1>4. /\ \A x \in gone : x[2] = Domain(k) /\ x[3] = path
      /\ \A u \in User : GrantRules(u, path, k) \subseteq gone
      /\ new.p = pol.p \ gone
  BY <1>1, <1>3
<1> HIDE DEF gone
<1>5. ASSUME NEW u \in User, NEW q \in Path, NEW n \in Knot
      PROVE  /\ u = q[1] => ~Has(new, u, n, q, "repo:collaborator")
             /\ u # q[1] =>
                  /\ q # path \/ n # k => (Granted(new, u, q, n) <=> Granted(pol, u, q, n))
                  /\ q = path /\ n = k => ~Granted(new, u, q, n)
                  /\ Granted(new, u, q, n) \/ GrantRules(u, q, n) \cap new.p = {}
  <2>1. <<u, Domain(n), q, "repo:collaborator">> \in GrantRules(u, q, n)
    BY GrantRule
  <2>2. CASE q = path /\ n = k
    <3>1. GrantRules(u, q, n) \cap new.p = {}
      BY <1>4, <2>2
    <3>2. QED
      BY <2>1, <2>2, <3>1 DEF Granted, Has
  <2>3. CASE q # path \/ n # k
    <3>1. Domain(k) = Domain(n) => k = n
      BY DEF Domain
    <3>2. gone \cap GrantRules(u, q, n) = {}
      BY <1>4, <2>3, <3>1, GrantShape
    <3>3. GrantRules(u, q, n) \cap new.p = GrantRules(u, q, n) \cap pol.p
      BY <1>4, <3>2
    <3>4. QED
      BY <2>1, <2>3, <3>3 DEF WholeGrants, Granted, Has
  <2>4. QED
    BY <2>2, <2>3
<1>6. QED
  BY <1>5 DEF WholeGrants, GrantsElsewhere

----------------------------------------------------------------------------
(***************************************************************************)
(* The collaborators of a path: their rows against their rules in the      *)
(* appview's memory and on its disk.                                       *)
(***************************************************************************)

(* u has a row as collaborator of the repository at the path on k. *)
Shared(u, path, k) ==
  \E c \in collabs, r \in RowsOf(path) : c.subject = u /\ c.at = AtUri(r) /\ r.knot = k

Inviting(a, u, path, k) ==
  job[a].op = "invite" /\ job[a].subject = u /\ On(a, path) /\ job[a].repo.knot = k

Purging(path) == \E a \in Request : Purged(a) /\ On(a, path)

(* The rules are in memory, the row may not be. *)
Granting(a) == pc[a] \in {"write", "commit", "save", "abort"}

(* In memory: rules without a row are those of an invitation under way, a  *)
(* row has its rules until the repository is purged, and an invitation     *)
(* that is about to write finds its rules in place.  The row that was      *)
(* written can only be lost to a deletion that has not saved either.       *)
MemShared(u, path, k) ==
  /\ Granted(mem, u, path, k) =>
       \/ Shared(u, path, k) /\ ~Purging(path)
       \/ \E a \in Request : Inviting(a, u, path, k) /\ Granting(a)
  /\ ~Purging(path) /\ Shared(u, path, k) => Granted(mem, u, path, k)
  /\ ~Purging(path) => \A a \in Request :
       Inviting(a, u, path, k) /\ pc[a] \in {"write", "commit"} /\ job[a].repo \in rows =>
         Granted(mem, u, path, k)
  /\ \A a \in Request : Inviting(a, u, path, k) /\ pc[a] = "save" =>
       \/ Shared(u, path, k)
       \/ \E b \in Request : job[b].op = "delete" /\ pc[b] = "save" /\ On(b, path)

(* On disk: while nobody has a change of the path to save. *)
DiskShared(u, path, k) ==
  (\A a \in Request : pc[a] = "save" => ~On(a, path)) =>
    (Granted(disk, u, path, k) <=> Shared(u, path, k))

Shares(u, path, k) == Clear(path) => MemShared(u, path, k) /\ DiskShared(u, path, k)

(* A collaborator has the row of a repository and is not its owner. *)
CollabsOK ==
  /\ \A c \in collabs : \E r \in rows : AtUri(r) = c.at /\ c.subject # r.did
  /\ \A a \in Request : job[a].op = "invite" /\ pc[a] = "commit" => job[a].repo \in rows

Grants ==
  /\ CollabsOK /\ WholeGrants(mem) /\ WholeGrants(disk)
  /\ \A path \in Path, u \in User, k \in Knot : u # path[1] => Shares(u, path, k)

(* A request that changes nothing of a path's collaborators, before a step *)
(* and after it.                                                           *)
Works(a, path) ==
  /\ On(a, path)
  /\ \/ Purged(a) \/ pc[a] = "save"
     \/ job[a].op = "invite" /\ pc[a] \in {"write", "commit", "abort"}

SameWork(a, path) ==
  \/ pc'[a] = pc[a] /\ job'[a] = job[a]
  \/ job'[a] = job[a] /\ {pc[a], pc'[a]} \subseteq {"write", "commit"}
  \/ job'[a] = job[a] /\ job[a].op = "invite" /\ pc[a] \in {"write", "commit"} /\ pc'[a] = "abort"
  \/ job'[a] = job[a] /\ job[a].op = "create" /\ pc[a] = "commit" /\ pc'[a] = "save"
  \/ ~Works(a, path) /\ ~Works(a, path)'

LEMMA WorkFlags ==
  ASSUME NEW path, NEW a \in Request, SameWork(a, path), NEW u, NEW k
  PROVE  /\ (Purged(a) /\ On(a, path))' <=> Purged(a) /\ On(a, path)
         /\ Inviting(a, u, path, k) /\ Granting(a) => (Inviting(a, u, path, k) /\ Granting(a))'
         /\ (Inviting(a, u, path, k) /\ pc[a] \in {"write", "commit"})' =>
              /\ Inviting(a, u, path, k) /\ pc[a] \in {"write", "commit"}
              /\ job'[a].repo = job[a].repo
         /\ (Inviting(a, u, path, k) /\ pc[a] = "save")' => Inviting(a, u, path, k) /\ pc[a] = "save"
         /\ job[a].op = "delete" /\ pc[a] = "save" /\ On(a, path) =>
              (job[a].op = "delete" /\ pc[a] = "save" /\ On(a, path))'
         /\ pc[a] = "save" /\ On(a, path) => (pc[a] = "save" /\ On(a, path))'
<1>1. CASE pc'[a] = pc[a] /\ job'[a] = job[a]
  BY <1>1 DEF Purged, On, Inviting, Granting, PathOf
<1>2. CASE job'[a] = job[a] /\ {pc[a], pc'[a]} \subseteq {"write", "commit"}
  BY <1>2 DEF Purged, On, Inviting, Granting, PathOf
<1>3. CASE job'[a] = job[a] /\ job[a].op = "invite" /\ pc[a] \in {"write", "commit"}
           /\ pc'[a] = "abort"
  BY <1>3 DEF Purged, On, Inviting, Granting, PathOf
<1>4. CASE job'[a] = job[a] /\ job[a].op = "create" /\ pc[a] = "commit" /\ pc'[a] = "save"
  BY <1>4 DEF Purged, On, Inviting, Granting, PathOf
<1>5. CASE ~Works(a, path) /\ ~Works(a, path)'
  BY <1>5 DEF Works, Inviting, Granting
<1>6. QED
  BY <1>1, <1>2, <1>3, <1>4, <1>5 DEF SameWork

(* What no step of the requests disturbs. *)
LEMMA SameShares ==
  ASSUME NEW path, NEW u, NEW k, Clear(path)' => Clear(path),
         \A a \in Request : SameWork(a, path),
         \A a \in Request :
           On(a, path) /\ job[a].op = "invite" /\ pc[a] \in {"write", "commit"} =>
             (job[a].repo \in rows' => job[a].repo \in rows),
         Shared(u, path, k)' <=> Shared(u, path, k),
         Granted(mem', u, path, k) <=> Granted(mem, u, path, k),
         Granted(disk', u, path, k) <=> Granted(disk, u, path, k),
         Shares(u, path, k)
  PROVE  Shares(u, path, k)'
<1> SUFFICES ASSUME Clear(path)' PROVE MemShared(u, path, k)' /\ DiskShared(u, path, k)'
  BY DEF Shares
<1>1. MemShared(u, path, k) /\ DiskShared(u, path, k)
  BY DEF Shares
<1>2. ASSUME NEW a \in Request
      PROVE  /\ (Purged(a) /\ On(a, path))' <=> Purged(a) /\ On(a, path)
             /\ Inviting(a, u, path, k) /\ Granting(a) => (Inviting(a, u, path, k) /\ Granting(a))'
             /\ (Inviting(a, u, path, k) /\ pc[a] \in {"write", "commit"})' =>
                  /\ Inviting(a, u, path, k) /\ pc[a] \in {"write", "commit"}
                  /\ job'[a].repo = job[a].repo
             /\ (Inviting(a, u, path, k) /\ pc[a] = "save")' =>
                  Inviting(a, u, path, k) /\ pc[a] = "save"
             /\ job[a].op = "delete" /\ pc[a] = "save" /\ On(a, path) =>
                  (job[a].op = "delete" /\ pc[a] = "save" /\ On(a, path))'
             /\ pc[a] = "save" /\ On(a, path) => (pc[a] = "save" /\ On(a, path))'
  BY WorkFlags
<1>3. Purging(path)' <=> Purging(path)
  BY <1>2 DEF Purging
<1>4. ASSUME NEW a \in Request, Inviting(a, u, path, k)', pc'[a] \in {"write", "commit"},
             job'[a].repo \in rows', ~Purging(path)
      PROVE  Granted(mem, u, path, k)
  <2>1. /\ Inviting(a, u, path, k) /\ pc[a] \in {"write", "commit"}
        /\ job'[a].repo = job[a].repo
    BY <1>2, <1>4
  <2>2. job[a].repo \in rows
    BY <1>4, <2>1 DEF Inviting
  <2>3. QED
    BY <1>1, <1>4, <2>1, <2>2 DEF MemShared
<1>5. ASSUME Granted(mem', u, path, k)
      PROVE  \/ Shared(u, path, k)' /\ ~Purging(path)'
             \/ \E a \in Request : (Inviting(a, u, path, k) /\ Granting(a))'
  <2>1. \/ Shared(u, path, k) /\ ~Purging(path)
        \/ \E a \in Request : Inviting(a, u, path, k) /\ Granting(a)
    BY <1>1, <1>5 DEF MemShared
  <2>2. QED
    BY <1>2, <1>3, <2>1
<1>6. ASSUME NEW a \in Request, Inviting(a, u, path, k)', pc'[a] = "save"
      PROVE  \/ Shared(u, path, k)'
             \/ \E b \in Request : (job[b].op = "delete" /\ pc[b] = "save" /\ On(b, path))'
  <2>1. Inviting(a, u, path, k) /\ pc[a] = "save"
    BY <1>2, <1>6
  <2>2. \/ Shared(u, path, k)
        \/ \E b \in Request : job[b].op = "delete" /\ pc[b] = "save" /\ On(b, path)
    BY <1>1, <2>1 DEF MemShared
  <2>3. QED
    BY <1>2, <2>2
<1>7. ~Purging(path)' /\ Shared(u, path, k)' => Granted(mem', u, path, k)
  BY <1>1, <1>3 DEF MemShared
<1>8. MemShared(u, path, k)'
  <2>1. /\ Granted(mem, u, path, k)' <=> Granted(mem', u, path, k)
        /\ \A a : Granting(a)' <=> pc'[a] \in {"write", "commit", "save", "abort"}
    BY DEF Granted, Granting
  <2>2. QED
    BY <1>3, <1>4, <1>5, <1>6, <1>7, <2>1 DEF MemShared
<1>9. DiskShared(u, path, k)'
  <2>1. (\A a \in Request : pc[a] = "save" => ~On(a, path))' =>
          (\A a \in Request : pc[a] = "save" => ~On(a, path))
    BY <1>2
  <2>2. QED
    BY <1>1, <2>1 DEF DiskShared, Granted
<1>10. QED
  BY <1>8, <1>9

(* A path that is clear was clear, unless somebody ceased to be deleting   *)
(* or adding.                                                              *)
LEMMA ClearWas ==
  ASSUME NEW path, \A r : PathOf(r) = path => (r \in rows' <=> r \in rows),
         path \in scarred => path \in scarred',
         \A a \in Request : Removing(a) /\ On(a, path) =>
           Removing(a)' /\ On(a, path)' /\ job'[a].repo = job[a].repo,
         \A a \in Request : Adding(a) /\ On(a, path) => Adding(a)' /\ On(a, path)',
         Clear(path)'
  PROVE  Clear(path)
<1>1. RowsOf(path)' = RowsOf(path)
  BY DEF RowsOf, PathOf
<1>2. path \notin scarred
  BY DEF Clear
<1>3. ASSUME NEW a \in Request, Removing(a), On(a, path)
      PROVE  /\ RowsOf(path) = {job[a].repo}
             /\ \A b \in Request \ {a} : Removing(b) \/ Adding(b) => ~On(b, path)
  <2>1. Removing(a)' /\ On(a, path)' /\ job'[a].repo = job[a].repo
    BY <1>3
  <2>2. /\ RowsOf(path)' = {job'[a].repo}
        /\ \A b \in Request \ {a} : (Removing(b) \/ Adding(b))' => ~On(b, path)'
    BY <2>1 DEF Clear
  <2>3. QED
    BY <1>1, <2>1, <2>2
<1>4. QED
  BY <1>2, <1>3 DEF Clear

LEMMA ClearBefore ==
  ASSUME IInv, NEW a \in Request, NEW l, pc[a] # "idle", Goto(a, l), NEW path,
         \A r : PathOf(r) = path => (r \in rows' <=> r \in rows),
         path \in scarred => path \in scarred', Clear(path)',
         \/ ~On(a, path)
         \/ /\ Removing(a) => l \in {"purge", "write", "commit"}
            /\ Adding(a) => l = "commit"
  PROVE  Clear(path)
<1>1. /\ pc'[a] = l /\ (l # "idle" => job'[a] = job[a])
      /\ \A b \in Request \ {a} : pc'[b] = pc[b] /\ job'[b] = job[b]
  BY GotoJob
<1>2. ASSUME NEW b \in Request, Removing(b), On(b, path)
      PROVE  Removing(b)' /\ On(b, path)' /\ job'[b].repo = job[b].repo
  <2>1. CASE b = a
    <3>1. l \in {"purge", "write", "commit"} /\ job'[a] = job[a]
      BY <1>1, <1>2, <2>1
    <3>2. QED
      BY <1>1, <1>2, <2>1, <3>1 DEF Removing, On, PathOf
  <2>2. CASE b # a
    BY <1>1, <1>2, <2>2 DEF Removing, On, PathOf
  <2>3. QED
    BY <2>1, <2>2
<1>3. ASSUME NEW b \in Request, Adding(b), On(b, path)
      PROVE  Adding(b)' /\ On(b, path)'
  <2>1. CASE b = a
    <3>1. l = "commit" /\ job'[a] = job[a]
      BY <1>1, <1>3, <2>1
    <3>2. QED
      BY <1>1, <1>3, <2>1, <3>1 DEF Adding, On, PathOf
  <2>2. CASE b # a
    BY <1>1, <1>3, <2>2 DEF Adding, On, PathOf
  <2>3. QED
    BY <2>1, <2>2
<1>4. QED
  BY <1>2, <1>3, ClearWas

(* Steps that change nothing of a path's collaborators. *)
Aside == {"put", "knot", "unput", "load"}

LEMMA MovedWork ==
  ASSUME IInv, NEW a \in Request, NEW l, pc[a] # "idle", Goto(a, l), NEW path,
         \/ ~On(a, path)
         \/ pc[a] \in Aside /\ l \in {"knot", "grant", "purge", "idle"}
         \/ pc[a] \in Aside /\ job[a].op = "create" /\ l \in {"write", "abort"}
         \/ {pc[a], l} \subseteq {"write", "commit"}
         \/ job[a].op = "invite" /\ pc[a] \in {"write", "commit"} /\ l = "abort"
         \/ job[a].op = "create" /\ pc[a] = "commit" /\ l = "save"
  PROVE  \A b \in Request : SameWork(b, path)
<1>1. /\ pc'[a] = l /\ (l # "idle" => job'[a] = job[a])
      /\ \A b \in Request \ {a} : pc'[b] = pc[b] /\ job'[b] = job[b]
  BY GotoJob
<1>2. SameWork(a, path)
  <2>1. CASE ~On(a, path)
    <3>1. ~Works(a, path)
      BY <2>1 DEF Works
    <3>2. ~Works(a, path)'
      <4>1. CASE l = "idle"
        BY <1>1, <4>1 DEF Works, Purged
      <4>2. CASE l # "idle"
        BY <1>1, <2>1, <4>2 DEF Works, On, PathOf
      <4>3. QED
        BY <4>1, <4>2
    <3>3. QED
      BY <3>1, <3>2 DEF SameWork
  <2>2. CASE pc[a] \in Aside /\ l \in {"knot", "grant", "purge", "idle"}
    BY <1>1, <2>2 DEF SameWork, Works, Purged, Aside
  <2>3. CASE pc[a] \in Aside /\ job[a].op = "create" /\ l \in {"write", "abort"}
    BY <1>1, <2>3 DEF SameWork, Works, Purged, Aside
  <2>4. CASE {pc[a], l} \subseteq {"write", "commit"}
    <3>1. l # "idle"
      BY <2>4
    <3>2. QED
      BY <1>1, <2>4, <3>1 DEF SameWork
  <2>5. CASE job[a].op = "invite" /\ pc[a] \in {"write", "commit"} /\ l = "abort"
    BY <1>1, <2>5 DEF SameWork
  <2>6. CASE job[a].op = "create" /\ pc[a] = "commit" /\ l = "save"
    BY <1>1, <2>6 DEF SameWork
  <2>7. QED
    BY <2>1, <2>2, <2>3, <2>4, <2>5, <2>6
<1>3. QED
  BY <1>1, <1>2 DEF SameWork

(* An at-uri names one repository among those with rows. *)
LEMMA OneAtUri ==
  ASSUME IInv, NEW r \in Known, NEW q \in Known, AtUri(r) = AtUri(q)
  PROVE  r = q
BY DEF IInv, Control, KeysOK, AtUri

(* The other paths, when a request changes something of its own. *)
LEMMA OtherShares ==
  ASSUME IInv, Grants, NEW a \in Request, NEW l, pc[a] # "idle", Goto(a, l),
         NEW own, own = job[a].repo,
         \A r : PathOf(r) # PathOf(own) => (r \in rows' <=> r \in rows),
         scarred \subseteq scarred',
         NEW path \in Path, NEW u \in User, NEW k \in Knot, u # path[1], path # PathOf(own),
         Shared(u, path, k)' <=> Shared(u, path, k),
         Granted(mem', u, path, k) <=> Granted(mem, u, path, k),
         Granted(disk', u, path, k) <=> Granted(disk, u, path, k)
  PROVE  Shares(u, path, k)'
<1>1. ~On(a, path)
  BY DEF On
<1>2. \A b \in Request : SameWork(b, path)
  BY <1>1, MovedWork
<1>3. \A r : PathOf(r) = path => (r \in rows' <=> r \in rows)
  OBVIOUS
<1>4. Clear(path)' => Clear(path)
  BY <1>1, <1>3, ClearBefore
<1>5. Shares(u, path, k)
  BY DEF Grants
<1>6. \A b \in Request : On(b, path) /\ job[b].op = "invite" /\ job[b].repo \in rows' =>
           job[b].repo \in rows
  BY <1>3 DEF On
<1>7. QED
  BY <1>2, <1>4, <1>5, <1>6, SameShares

(* A scar ends what is claimed of a path's collaborators. *)
LEMMA ScarShares ==
  ASSUME NEW path, NEW u, NEW k, path \in scarred'
  PROVE  Shares(u, path, k)'
BY DEF Shares, Clear

(* Rows and collaborators are the same. *)
LEMMA SameShared ==
  ASSUME UNCHANGED <<rows, collabs>>, NEW u, NEW path, NEW k
  PROVE  Shared(u, path, k)' <=> Shared(u, path, k)
BY DEF Shared, RowsOf, PathOf, AtUri

LEMMA SameCollabs ==
  ASSUME IInv, CollabsOK, NEW a \in Request, NEW l, pc[a] # "idle", Goto(a, l),
         UNCHANGED <<rows, collabs>>,
         job[a].op = "invite" /\ l = "commit" => job[a].repo \in rows
  PROVE  CollabsOK'
<1>1. /\ pc'[a] = l /\ (l # "idle" => job'[a] = job[a])
      /\ \A b \in Request \ {a} : pc'[b] = pc[b] /\ job'[b] = job[b]
  BY GotoJob
<1>2. ASSUME NEW b \in Request, job'[b].op = "invite", pc'[b] = "commit"
      PROVE  job'[b].repo \in rows'
  BY <1>1, <1>2 DEF CollabsOK
<1>3. QED
  BY <1>2 DEF CollabsOK, AtUri

(* A step of a request that leaves all rows and rules of collaborators. *)
LEMMA QuietShares ==
  ASSUME IInv, Grants, NEW a \in Request, NEW l, pc[a] # "idle", Goto(a, l),
         UNCHANGED <<rows, collabs, disk>>, scarred \subseteq scarred',
         WholeGrants(mem'), SameGrants(mem, mem'),
         job[a].op = "invite" /\ l = "commit" => job[a].repo \in rows,
         \/ PathOf(job[a].repo) \in scarred'
         \/ pc[a] \in Aside /\ l \in {"knot", "grant", "purge", "idle"}
         \/ pc[a] \in Aside /\ job[a].op = "create" /\ l \in {"write", "abort"}
         \/ pc[a] = "write" /\ l = "commit"
         \/ job[a].op = "invite" /\ pc[a] \in {"write", "commit"} /\ l = "abort"
  PROVE  Grants'
<1>1. PICK own : own = job[a].repo
  OBVIOUS
<1>2. ASSUME NEW path \in Path, NEW u \in User, NEW k \in Knot, u # path[1]
      PROVE  Shares(u, path, k)'
  <2>1. /\ Granted(mem', u, path, k) <=> Granted(mem, u, path, k)
        /\ Granted(disk', u, path, k) <=> Granted(disk, u, path, k)
        /\ Shared(u, path, k)' <=> Shared(u, path, k)
    BY <1>2, SameShared DEF SameGrants
  <2>2. CASE path # PathOf(own)
    BY <1>1, <1>2, <2>1, <2>2, OtherShares
  <2>3. CASE path \in scarred'
    BY <2>3, ScarShares
  <2>4. CASE path = PathOf(own) /\ path \notin scarred'
    <3>1. \A b \in Request : SameWork(b, path)
      BY <1>1, <2>4, MovedWork
    <3>2. /\ Removing(a) => l \in {"purge", "write", "commit"}
          /\ Adding(a) => l = "commit"
      BY <1>1, <2>4 DEF Removing, Adding, Aside
    <3>3. Clear(path)' => Clear(path)
      BY <3>2, ClearBefore
    <3>4. Shares(u, path, k)
      BY <1>2 DEF Grants
    <3>5. QED
      BY <2>1, <3>1, <3>3, <3>4, SameShares
  <2>5. QED
    BY <2>2, <2>3, <2>4
<1>3. CollabsOK'
  BY SameCollabs DEF Grants
<1>4. WholeGrants(mem)' /\ WholeGrants(disk)'
  BY DEF Grants, WholeGrants, Has, Granted
<1>5. QED
  BY <1>2, <1>3, <1>4 DEF Grants

----------------------------------------------------------------------------
LEMMA KeptGrants ==
  ASSUME Grants, mem' = mem
  PROVE  WholeGrants(mem') /\ SameGrants(mem, mem')
BY DEF Grants, SameGrants

(* What the requests are at, of a path's collaborators, when a moves.      *)
LEMMA WorkOf ==
  ASSUME IInv, NEW a \in Request, NEW l, l # "idle", pc[a] # "idle", Goto(a, l)
  PROVE  /\ pc'[a] = l /\ \A b \in Request \ {a} : pc'[b] = pc[b]
         /\ \A b \in Request : job'[b] = job[b]
         /\ \A b \in Request : \A path : On(b, path)' <=> On(b, path)
         /\ \A b \in Request : \A u, path, k : Inviting(b, u, path, k)' <=> Inviting(b, u, path, k)
         /\ \A b \in Request \ {a} : (Purged(b)' <=> Purged(b)) /\ (Granting(b)' <=> Granting(b))
         /\ Purged(a)' <=> job[a].op = "delete" /\ l \in {"write", "commit"}
         /\ Granting(a)' <=> l \in {"write", "commit", "save", "abort"}
<1>1. /\ pc'[a] = l /\ job'[a] = job[a]
      /\ \A b \in Request \ {a} : pc'[b] = pc[b] /\ job'[b] = job[b]
  BY GotoJob
<1>2. \A b \in Request : job'[b] = job[b]
  BY <1>1
<1>3. \A b \in Request : \A path : On(b, path)' <=> On(b, path)
  BY <1>2 DEF On, PathOf
<1>4. \A b \in Request : \A u, path, k : Inviting(b, u, path, k)' <=> Inviting(b, u, path, k)
  BY <1>2, <1>3 DEF Inviting
<1>5. \A b \in Request \ {a} : (Purged(b)' <=> Purged(b)) /\ (Granting(b)' <=> Granting(b))
  BY <1>1 DEF Purged, Granting
<1>6. /\ Purged(a)' <=> job[a].op = "delete" /\ l \in {"write", "commit"}
      /\ Granting(a)' <=> l \in {"write", "commit", "save", "abort"}
  BY <1>1 DEF Purged, Granting
<1>7. QED
  BY <1>1, <1>2, <1>3, <1>4, <1>5, <1>6

(* AddCollaborator gives the rules before the row. *)
LEMMA GrantShares ==
  ASSUME IInv, Stages, Grants, NEW a \in Request, Grant(a)
  PROVE  Grants'
<1>1. PICK own : own = job[a].repo
  OBVIOUS
<1>2. PICK P : P = PathOf(own)
  OBVIOUS
<1>3. PICK K : K = own.knot
  OBVIOUS
<1>4. PICK v : v = job[a].subject
  OBVIOUS
<1>5. /\ pc[a] = "grant" /\ Goto(a, "write") /\ mem' = AddCollaborator(mem, v, Domain(K), P)
      /\ UNCHANGED <<rows, collabs, disk, scarred>>
  BY <1>1, <1>2, <1>3, <1>4 DEF Grant, hist
<1>6. /\ job[a].op = "invite" /\ P \in Path /\ K \in Knot /\ v \in User /\ v # P[1]
      /\ On(a, P)
  <2>1. job[a].op = "invite" /\ v # own.did
    BY <1>1, <1>4, <1>5 DEF Stages, Stage
  <2>2. v \in User
    BY <1>4, <1>5 DEF IInv, Control, JobOK
  <2>3. P \in Path /\ K \in Knot /\ P[1] = own.did
    BY <1>1, <1>2, <1>3, <1>5, JobPath
  <2>4. QED
    BY <1>1, <1>2, <2>1, <2>2, <2>3 DEF On
<1>7. /\ WholeGrants(mem') /\ Granted(mem', v, P, K)
      /\ \A u \in User, q \in Path, n \in Knot :
           u # q[1] /\ (u # v \/ q # P \/ n # K)
             => (Granted(mem', u, q, n) <=> Granted(mem, u, q, n))
  BY <1>5, <1>6, AddCollaboratorGrants DEF Grants, IInv, Policies, PolicyOK
<1>8. /\ pc'[a] = "write" /\ \A b \in Request \ {a} : pc'[b] = pc[b]
      /\ \A b \in Request : job'[b] = job[b]
      /\ \A b \in Request : \A path : On(b, path)' <=> On(b, path)
      /\ \A b \in Request : \A u, path, k : Inviting(b, u, path, k)' <=> Inviting(b, u, path, k)
      /\ \A b \in Request \ {a} : (Purged(b)' <=> Purged(b)) /\ (Granting(b)' <=> Granting(b))
      /\ Purged(a)' <=> FALSE
      /\ Granting(a)'
  BY <1>5, <1>6, WorkOf
<1>9. ~Purged(a) /\ ~Granting(a) /\ ~Removing(a) /\ ~Adding(a)
  BY <1>5 DEF Purged, Granting, Removing, Adding
<1>10. ASSUME NEW u \in User, NEW k \in Knot, u # P[1], Clear(P)'
       PROVE  MemShared(u, P, k)' /\ DiskShared(u, P, k)'
  <2>1. Clear(P)
    BY <1>5, <1>9, <1>10, ClearBefore
  <2>2. MemShared(u, P, k) /\ DiskShared(u, P, k)
    BY <1>6, <1>10, <2>1 DEF Grants, Shares
  <2>3. Shared(u, P, k)' <=> Shared(u, P, k)
    BY <1>5, SameShared
  <2>4. Purging(P)' <=> Purging(P)
    BY <1>8, <1>9 DEF Purging
  <2>5. Inviting(a, u, P, k) <=> u = v /\ k = K
    BY <1>1, <1>3, <1>4, <1>6 DEF Inviting
  <2>6. Granted(mem', u, P, k) <=> Granted(mem, u, P, k) \/ (u = v /\ k = K)
    BY <1>6, <1>7, <1>10
  <2>7. MemShared(u, P, k)'
    <3>1. Granted(mem', u, P, k) =>
            \/ Shared(u, P, k)' /\ ~Purging(P)'
            \/ \E b \in Request : Inviting(b, u, P, k)' /\ Granting(b)'
      BY <1>8, <1>9, <2>2, <2>3, <2>4, <2>5, <2>6 DEF MemShared
    <3>2. ~Purging(P)' /\ Shared(u, P, k)' => Granted(mem', u, P, k)
      BY <2>2, <2>3, <2>4, <2>6 DEF MemShared
    <3>3. ASSUME ~Purging(P)', NEW b \in Request, Inviting(b, u, P, k)',
                 pc'[b] \in {"write", "commit"}, job'[b].repo \in rows'
          PROVE  Granted(mem', u, P, k)
      <4>1. CASE b = a
        BY <1>8, <2>5, <2>6, <3>3, <4>1
      <4>2. CASE b # a
        BY <1>5, <1>8, <2>2, <2>4, <2>6, <3>3, <4>2 DEF MemShared
      <4>3. QED
        BY <4>1, <4>2
    <3>4. ASSUME NEW b \in Request, Inviting(b, u, P, k)', pc'[b] = "save"
          PROVE  \/ Shared(u, P, k)'
                 \/ \E c \in Request : job'[c].op = "delete" /\ pc'[c] = "save" /\ On(c, P)'
      <4>1. Inviting(b, u, P, k) /\ pc[b] = "save"
        BY <1>8, <3>4
      <4>2. \/ Shared(u, P, k)
            \/ \E c \in Request : job[c].op = "delete" /\ pc[c] = "save" /\ On(c, P)
        BY <2>2, <4>1 DEF MemShared
      <4>3. QED
        BY <1>5, <1>8, <2>3, <4>2
    <3>5. QED
      BY <3>1, <3>2, <3>3, <3>4 DEF MemShared, Granted
  <2>8. DiskShared(u, P, k)'
    BY <1>5, <1>8, <2>2, <2>3 DEF DiskShared, Granted
  <2>9. QED
    BY <2>7, <2>8
<1>11. ASSUME NEW path \in Path, NEW u \in User, NEW k \in Knot, u # path[1]
       PROVE  Shares(u, path, k)'
  <2>1. CASE path = P
    BY <1>10, <1>11, <2>1 DEF Shares
  <2>2. CASE path # P
    <3>1. Shared(u, path, k)' <=> Shared(u, path, k)
      BY <1>5, SameShared
    <3>2. /\ Granted(mem', u, path, k) <=> Granted(mem, u, path, k)
          /\ Granted(disk', u, path, k) <=> Granted(disk, u, path, k)
      BY <1>5, <1>7, <1>11, <2>2
    <3>3. QED
      BY <1>1, <1>2, <1>5, <1>11, <2>2, <3>1, <3>2, OtherShares
  <2>3. QED
    BY <2>1, <2>2
<1>12. CollabsOK'
  BY <1>5, SameCollabs DEF Grants
<1>13. WholeGrants(mem)' /\ WholeGrants(disk)'
  BY <1>5, <1>7 DEF Grants, WholeGrants, Has, Granted
<1>14. QED
  BY <1>11, <1>12, <1>13 DEF Grants

(* DeleteRepo takes the rules of all collaborators at once. *)
LEMMA PurgeShares ==
  ASSUME IInv, Stages, Grants, NEW a \in Request, Purge(a)
  PROVE  Grants'
<1>1. PICK own : own = job[a].repo
  OBVIOUS
<1>2. PICK P : P = PathOf(own)
  OBVIOUS
<1>3. PICK K : K = own.knot
  OBVIOUS
<1>4. PICK theirs : theirs = UNION {collaboratorPolicies(u, Domain(K), P) : u \in User}
  OBVIOUS
<1>5. /\ pc[a] = "purge" /\ Goto(a, "write")
      /\ mem' = RemoveRepo(RemovePolicies(mem, theirs), own.did, Domain(K), P)
      /\ UNCHANGED <<rows, collabs, disk, scarred>>
  BY <1>1, <1>2, <1>3, <1>4 DEF Purge, hist
<1>6. /\ job[a].op = "delete" /\ P \in Path /\ K \in Knot /\ P[1] = own.did
      /\ On(a, P)
  BY <1>1, <1>2, <1>3, <1>5, JobPath DEF Stages, Stage, On
<1>7. mem'.p = mem.p \ (OwnerRules(P, K) \cup theirs)
  <2>1. IsPolicy(mem)
    BY DEF IInv, Policies, PolicyOK
  <2>2. QED
    BY <1>5, <1>6, <2>1 DEF RemoveRepo, RemovePolicies, IsPolicy, OwnerRules
<1>8. /\ WholeGrants(mem') /\ GrantsElsewhere(mem, mem', P, K)
      /\ \A u \in User : u # P[1] => ~Granted(mem', u, P, K)
  BY <1>4, <1>6, <1>7, PurgeGrants DEF Grants
<1>9. /\ pc'[a] = "write" /\ \A b \in Request \ {a} : pc'[b] = pc[b]
      /\ \A b \in Request : job'[b] = job[b]
      /\ \A b \in Request : \A path : On(b, path)' <=> On(b, path)
      /\ \A b \in Request : \A u, path, k : Inviting(b, u, path, k)' <=> Inviting(b, u, path, k)
      /\ \A b \in Request \ {a} : (Purged(b)' <=> Purged(b)) /\ (Granting(b)' <=> Granting(b))
      /\ Purged(a)'
  BY <1>5, <1>6, WorkOf
<1>10. ASSUME NEW u \in User, NEW k \in Knot, u # P[1], Clear(P)'
       PROVE  MemShared(u, P, k)' /\ DiskShared(u, P, k)'
  <2>1. Clear(P)
    BY <1>5, <1>10, ClearBefore DEF Adding
  <2>2. MemShared(u, P, k) /\ DiskShared(u, P, k)
    BY <1>6, <1>10, <2>1 DEF Grants, Shares
  <2>3. Shared(u, P, k)' <=> Shared(u, P, k)
    BY <1>5, SameShared
  <2>4. Purging(P)'
    BY <1>6, <1>9 DEF Purging
  <2>5. RowsOf(P) = {own}
    BY <1>1, <1>5, <1>6, <2>1 DEF Clear, Removing
  <2>6. Granted(mem', u, P, k) =>
          \E b \in Request : Inviting(b, u, P, k)' /\ Granting(b)'
    <3>1. SUFFICES ASSUME Granted(mem', u, P, k)
                   PROVE  \E b \in Request : Inviting(b, u, P, k)' /\ Granting(b)'
      OBVIOUS
    <3>2. k # K
      BY <1>8, <1>10, <3>1
    <3>3. Granted(mem, u, P, k)
      BY <1>6, <1>8, <1>10, <3>1, <3>2 DEF GrantsElsewhere
    <3>4. ~Shared(u, P, k)
      BY <1>3, <2>5, <3>2 DEF Shared
    <3>5. PICK b \in Request : Inviting(b, u, P, k) /\ Granting(b)
      BY <2>2, <3>3, <3>4 DEF MemShared
    <3>6. b # a
      BY <1>6, <3>5 DEF Inviting
    <3>7. QED
      BY <1>9, <3>5, <3>6
  <2>7. ASSUME NEW b \in Request, Inviting(b, u, P, k)', pc'[b] = "save"
        PROVE  \/ Shared(u, P, k)'
               \/ \E c \in Request : job'[c].op = "delete" /\ pc'[c] = "save" /\ On(c, P)'
    <3>1. Inviting(b, u, P, k) /\ pc[b] = "save"
      BY <1>9, <2>7
    <3>2. \/ Shared(u, P, k)
          \/ \E c \in Request : job[c].op = "delete" /\ pc[c] = "save" /\ On(c, P)
      BY <2>2, <3>1 DEF MemShared
    <3>3. QED
      BY <1>5, <1>9, <2>3, <3>2
  <2>8. MemShared(u, P, k)'
    BY <2>4, <2>6, <2>7 DEF MemShared, Granted
  <2>9. DiskShared(u, P, k)'
    BY <1>5, <1>9, <2>2, <2>3 DEF DiskShared, Granted
  <2>10. QED
    BY <2>8, <2>9
<1>11. ASSUME NEW path \in Path, NEW u \in User, NEW k \in Knot, u # path[1]
       PROVE  Shares(u, path, k)'
  <2>1. CASE path = P
    BY <1>10, <1>11, <2>1 DEF Shares
  <2>2. CASE path # P
    <3>1. Shared(u, path, k)' <=> Shared(u, path, k)
      BY <1>5, SameShared
    <3>2. /\ Granted(mem', u, path, k) <=> Granted(mem, u, path, k)
          /\ Granted(disk', u, path, k) <=> Granted(disk, u, path, k)
      BY <1>5, <1>8, <1>11, <2>2 DEF GrantsElsewhere
    <3>3. QED
      BY <1>1, <1>2, <1>5, <1>11, <2>2, <3>1, <3>2, OtherShares
  <2>3. QED
    BY <2>1, <2>2
<1>12. CollabsOK'
  BY <1>5, SameCollabs DEF Grants
<1>13. WholeGrants(mem)' /\ WholeGrants(disk)'
  BY <1>5, <1>8 DEF Grants, WholeGrants, Has, Granted
<1>14. QED
  BY <1>11, <1>12, <1>13 DEF Grants

(* A collaborator's row is written only while the repository has a row.    *)
LEMMA WriteShares ==
  ASSUME IInv, Stages, Grants, NEW a \in Request, Write(a)
  PROVE  Grants'
<1>1. PICK own : own = job[a].repo
  OBVIOUS
<1>2. /\ pc[a] = "write" /\ UNCHANGED <<rows, collabs, disk, scarred>>
  BY DEF Write, hist
<1>3. /\ PathOf(own) \in Path /\ own.knot \in Knot /\ PathOf(own)[1] = own.did
      /\ own \in Known
  BY <1>1, <1>2, JobPath, JobKnown DEF IInv
<1>4. CASE Goto(a, "abort") /\ job[a].op = "invite" /\ mem' = mem
  BY <1>2, <1>4, KeptGrants, QuietShares
<1>5. CASE Goto(a, "commit") /\ job[a].op # "create" /\ mem' = mem
           /\ (job[a].op = "invite" => \E q \in rows : AtUri(q) = AtUri(own))
  <2>1. job[a].op = "invite" => own \in rows
    BY <1>3, <1>5, OneAtUri DEF Known
  <2>2. QED
    BY <1>1, <1>2, <1>5, <2>1, KeptGrants, QuietShares
<1>6. CASE Goto(a, "commit") /\ job[a].op = "create"
           /\ mem' = AddRepo(mem, own.did, Domain(own.knot), PathOf(own))
  <2>1. IsPolicy(mem) /\ WholeGrants(mem)
    BY DEF IInv, Policies, PolicyOK, Grants
  <2>2. WholeGrants(mem') /\ SameGrants(mem, mem')
    BY <1>3, <1>6, <2>1, AddRepoGrants
  <2>3. QED
    BY <1>2, <1>6, <2>2, QuietShares
<1>7. QED
  BY <1>1, <1>4, <1>5, <1>6 DEF Write

(* Calls of the PDS and of the knot. *)
LEMMA CallsShares ==
  ASSUME IInv, Stages, Grants, NEW a \in Request,
         PdsWrite(a) \/ PdsError(a) \/ RollbackRecord(a) \/ KnotCall(a)
  PROVE  Grants'
<1>1. pc[a] \in {"put", "unput", "knot"} /\ UNCHANGED <<rows, collabs, mem, disk>>
  BY DEF PdsWrite, PdsError, RollbackRecord, KnotCall, stores
<1>2. job[a].op \in {"create", "invite", "delete"}
  BY <1>1 DEF IInv, Control, JobOK
<1>3. scarred \subseteq scarred'
  <2>1. CASE PdsWrite(a)
    BY <1>2, <2>1 DEF PdsWrite, hist, Scar
  <2>2. CASE PdsError(a) \/ RollbackRecord(a)
    BY <2>2 DEF PdsError, RollbackRecord, hist, Scar
  <2>3. CASE KnotCall(a)
    BY <2>3 DEF KnotCall, Scar
  <2>4. QED
    BY <2>1, <2>2, <2>3
<1>4. PICK l : /\ Goto(a, l)
               /\ \/ l \in {"knot", "grant", "purge", "idle"}
                  \/ job[a].op = "create" /\ l \in {"write", "abort"}
  <2>1. CASE PdsWrite(a) \/ PdsError(a) \/ RollbackRecord(a)
    BY <1>2, <2>1 DEF PdsWrite, PdsError, RollbackRecord
  <2>2. CASE KnotCall(a)
    <3>1. Failed(a) = "idle" \/ (job[a].op = "create" /\ Failed(a) = "abort")
      BY DEF Failed
    <3>2. QED
      BY <2>2, <3>1 DEF KnotCall
  <2>3. QED
    BY <2>1, <2>2
<1>5. pc[a] \in Aside /\ l # "commit" /\ pc[a] # "idle"
  BY <1>1, <1>4 DEF Aside
<1>6. WholeGrants(mem') /\ SameGrants(mem, mem')
  BY <1>1, KeptGrants
<1>7. QED
  BY <1>1, <1>3, <1>4, <1>5, <1>6, QuietShares

(* A failed transaction or save leaves a scar, but for an invitation that  *)
(* goes on to roll its rules back.                                         *)
LEMMA ErrorShares ==
  ASSUME IInv, Stages, Grants, NEW a \in Request, TxError(a) \/ SaveError(a)
  PROVE  Grants'
<1>1. /\ pc[a] \in {"commit", "save"} /\ UNCHANGED <<rows, collabs, mem, disk>>
      /\ scarred \subseteq scarred'
  BY DEF TxError, SaveError, stores, Scar
<1>2. PICK l \in {"load", "abort"} :
        /\ Goto(a, l)
        /\ \/ PathOf(job[a].repo) \in scarred'
           \/ job[a].op = "invite" /\ pc[a] = "commit" /\ l = "abort"
  BY DEF TxError, SaveError, Scar
<1>3. WholeGrants(mem') /\ SameGrants(mem, mem')
  BY <1>1, KeptGrants
<1>4. QED
  BY <1>1, <1>2, <1>3, QuietShares

(* What is saved is what the rows say. *)
LEMMA SaveShares ==
  ASSUME IInv, Stages, Grants, NEW a \in Request, SavePolicy(a)
  PROVE  Grants'
<1>1. /\ pc[a] = "save" /\ disk' = mem /\ mem' = mem /\ Goto(a, "load")
      /\ UNCHANGED <<rows, collabs>>
      /\ scarred' = scarred \cup {PathOf(job[b].repo) :
                       b \in {c \in Request \ {a} : pc[c] = "abort" \/ Unsaved(c)}}
  BY DEF SavePolicy
<1>2. /\ pc'[a] = "load" /\ \A b \in Request \ {a} : pc'[b] = pc[b]
      /\ \A b \in Request : job'[b] = job[b]
      /\ \A b \in Request : \A path : On(b, path)' <=> On(b, path)
      /\ \A b \in Request : \A u, path, k : Inviting(b, u, path, k)' <=> Inviting(b, u, path, k)
      /\ \A b \in Request \ {a} : (Purged(b)' <=> Purged(b)) /\ (Granting(b)' <=> Granting(b))
      /\ ~Purged(a)' /\ ~Granting(a)'
  BY <1>1, WorkOf
<1>3. ASSUME NEW path \in Path, NEW u \in User, NEW k \in Knot, u # path[1], Clear(path)'
      PROVE  MemShared(u, path, k)' /\ DiskShared(u, path, k)'
  <2>1. path \notin scarred'
    BY <1>3 DEF Clear
  <2>2. ASSUME NEW b \in Request \ {a}, On(b, path)
        PROVE  ~Granting(b) \/ job[b].op = "create"
    <3>1. pc[b] # "abort" /\ ~Unsaved(b)
      BY <1>1, <2>1, <2>2 DEF On
    <3>2. QED
      BY <3>1 DEF Unsaved, Granting
  <2>3. Clear(path)
    <3>1. ~Removing(a) /\ ~Adding(a)
      BY <1>1 DEF Removing, Adding
    <3>2. QED
      BY <1>1, <1>3, <3>1, ClearBefore
  <2>4. MemShared(u, path, k)
    BY <1>3, <2>3 DEF Grants, Shares
  <2>5. Shared(u, path, k)' <=> Shared(u, path, k)
    BY <1>1, SameShared
  <2>6. ~Purging(path) /\ ~Purging(path)'
    <3>1. \A b \in Request : Purged(b) /\ On(b, path) => FALSE
      BY <1>1, <2>2 DEF Purged, Granting
    <3>2. \A b \in Request : Purged(b)' /\ On(b, path)' => FALSE
      BY <1>2, <3>1
    <3>3. QED
      BY <3>1, <3>2 DEF Purging
  <2>7. Granted(mem, u, path, k) <=> Shared(u, path, k)
    <3>1. ASSUME Granted(mem, u, path, k), ~Shared(u, path, k) PROVE FALSE
      <4>1. PICK b \in Request : Inviting(b, u, path, k) /\ Granting(b)
        BY <2>4, <3>1 DEF MemShared
      <4>2. On(b, path) /\ job[b].op = "invite"
        BY <4>1 DEF Inviting
      <4>3. b = a
        BY <2>2, <4>1, <4>2
      <4>4. PICK c \in Request : job[c].op = "delete" /\ pc[c] = "save" /\ On(c, path)
        BY <1>1, <2>4, <3>1, <4>1, <4>3 DEF MemShared
      <4>5. c # a
        BY <4>2, <4>3, <4>4
      <4>6. QED
        BY <2>2, <4>4, <4>5 DEF Granting
    <3>2. QED
      BY <2>4, <2>6, <3>1 DEF MemShared
  <2>8. ASSUME NEW b \in Request, Inviting(b, u, path, k)', Granting(b)' PROVE FALSE
    <3>1. b # a /\ Inviting(b, u, path, k) /\ Granting(b)
      BY <1>2, <2>8
    <3>2. On(b, path) /\ job[b].op = "invite"
      BY <3>1 DEF Inviting
    <3>3. QED
      BY <2>2, <3>1, <3>2
  <2>9. \A b \in Request : pc'[b] \in {"write", "commit", "save"} => Granting(b)'
    BY DEF Granting
  <2>10. Granted(mem', u, path, k) <=> Shared(u, path, k)'
    BY <1>1, <2>5, <2>7
  <2>11. MemShared(u, path, k)'
    BY <2>6, <2>8, <2>9, <2>10 DEF MemShared, Granted
  <2>12. DiskShared(u, path, k)'
    BY <1>1, <2>5, <2>7 DEF DiskShared, Granted
  <2>13. QED
    BY <2>11, <2>12
<1>4. CollabsOK'
  BY <1>1, SameCollabs DEF Grants
<1>5. WholeGrants(mem)' /\ WholeGrants(disk)'
  BY <1>1 DEF Grants, WholeGrants, Has, Granted
<1>6. QED
  BY <1>3, <1>4, <1>5 DEF Grants, Shares

(* What is loaded is what the rows say, for a path at which nobody has a   *)
(* change to save, before the step and after it.                           *)
LEMMA LoadedShares ==
  ASSUME NEW path, NEW u, NEW k, mem' = disk, disk' = disk,
         Shared(u, path, k)' <=> Shared(u, path, k), DiskShared(u, path, k),
         \A b \in Request : On(b, path) => pc[b] # "save",
         \A b \in Request : On(b, path)' => ~Purged(b)',
         \A b \in Request : On(b, path)' /\ job'[b].op = "invite" =>
           pc'[b] \notin {"write", "commit", "save"}
  PROVE  MemShared(u, path, k)' /\ DiskShared(u, path, k)'
<1>1. Granted(disk, u, path, k) <=> Shared(u, path, k)
  BY DEF DiskShared
<1>2. ~Purging(path)'
  BY DEF Purging
<1>3. \A b \in Request : Inviting(b, u, path, k)' => pc'[b] \notin {"write", "commit", "save"}
  BY DEF Inviting
<1>4. Granted(mem', u, path, k) <=> Shared(u, path, k)'
  BY <1>1
<1>5. MemShared(u, path, k)'
  BY <1>2, <1>3, <1>4 DEF MemShared, Granted
<1>6. QED
  BY <1>1, <1>5 DEF DiskShared, Granted

LEMMA LoadShares ==
  ASSUME IInv, Stages, Grants, NEW a \in Request, LoadPolicy(a)
  PROVE  Grants'
<1>1. /\ pc[a] \in {"load", "abort"} /\ mem' = disk /\ disk' = disk
      /\ UNCHANGED <<rows, collabs>>
      /\ scarred' = scarred \cup {PathOf(job[b].repo) : b \in {c \in Request \ {a} : Unsaved(c)}}
  BY DEF LoadPolicy
<1>2. PICK l \in {"unput", "idle"} : Goto(a, l)
  BY DEF LoadPolicy
<1>3. /\ pc'[a] = l
      /\ \A b \in Request \ {a} : pc'[b] = pc[b] /\ job'[b] = job[b]
  BY <1>1, <1>2, GotoJob
<1>4. ASSUME NEW path \in Path, NEW u \in User, NEW k \in Knot, u # path[1], Clear(path)'
      PROVE  MemShared(u, path, k)' /\ DiskShared(u, path, k)'
  <2>1. path \notin scarred'
    BY <1>4 DEF Clear
  <2>2. ASSUME NEW b \in Request \ {a}, On(b, path) PROVE ~Unsaved(b)
    BY <1>1, <2>1, <2>2 DEF On
  <2>3. \A b \in Request : On(b, path) => pc[b] # "save"
    BY <1>1, <2>2 DEF Unsaved
  <2>4. \A b \in Request \ {a} : On(b, path)' <=> On(b, path)
    BY <1>3 DEF On, PathOf
  <2>5. \A b \in Request : On(b, path)' => ~Purged(b)'
    BY <1>3, <2>2, <2>4 DEF Purged, Unsaved
  <2>6. \A b \in Request : On(b, path)' /\ job'[b].op = "invite" =>
           pc'[b] \notin {"write", "commit", "save"}
    BY <1>3, <2>2, <2>4 DEF Unsaved
  <2>7. Clear(path)
    <3>1. ~Removing(a) /\ ~Adding(a)
      BY <1>1 DEF Removing, Adding
    <3>2. QED
      BY <1>1, <1>2, <1>4, <3>1, ClearBefore
  <2>8. DiskShared(u, path, k)
    BY <1>4, <2>7 DEF Grants, Shares
  <2>9. QED
    BY <1>1, <2>3, <2>5, <2>6, <2>8, SameShared, LoadedShares
<1>5. CollabsOK'
  BY <1>1, <1>2, SameCollabs DEF Grants
<1>6. WholeGrants(mem)' /\ WholeGrants(disk)'
  BY <1>1 DEF Grants, WholeGrants, Has, Granted
<1>7. QED
  BY <1>4, <1>5, <1>6 DEF Grants, Shares

(* A path that a crash leaves without a scar had no request. *)
LEMMA CrashShares ==
  ASSUME IInv, Grants, Crash
  PROVE  Grants'
<1>1. /\ mem' = disk /\ disk' = disk /\ UNCHANGED <<rows, collabs>>
      /\ \A b \in Request : pc'[b] = "idle"
      /\ scarred' = scarred \cup {PathOf(job[b].repo) : b \in {c \in Request : pc[c] # "idle"}}
  BY DEF Crash
<1>2. ASSUME NEW path \in Path, NEW u \in User, NEW k \in Knot, u # path[1], Clear(path)'
      PROVE  MemShared(u, path, k)' /\ DiskShared(u, path, k)'
  <2>1. path \notin scarred'
    BY <1>2 DEF Clear
  <2>2. \A b \in Request : On(b, path) => pc[b] = "idle"
    BY <1>1, <2>1 DEF On
  <2>3. Clear(path)
    BY <1>1, <2>1, <2>2 DEF Clear, Removing
  <2>4. DiskShared(u, path, k)
    BY <1>2, <2>3 DEF Grants, Shares
  <2>5. \A b \in Request : ~Purged(b)'
    BY <1>1 DEF Purged
  <2>6. QED
    BY <1>1, <2>2, <2>4, <2>5, SameShared, LoadedShares
<1>3. CollabsOK'
  BY <1>1 DEF CollabsOK, Grants, AtUri
<1>4. WholeGrants(mem)' /\ WholeGrants(disk)'
  BY <1>1 DEF Grants, WholeGrants, Has, Granted
<1>5. QED
  BY <1>2, <1>3, <1>4 DEF Grants, Shares

(* A new repository starts without collaborators. *)
LEMMA CommitCreatesShares ==
  ASSUME IInv, Stages, Grants, NEW a \in Request, pc[a] = "commit", job[a].op = "create",
         Goto(a, "save"), NEW own, own = job[a].repo, rows' = rows \cup {own},
         UNCHANGED <<collabs, mem, disk, scarred>>
  PROVE  Grants'
<1>1. own \in Known /\ own \notin rows
  BY JobKnown DEF IInv, Stages, Fresh, Inventing
<1>2. ASSUME NEW c \in collabs PROVE c.at # AtUri(own)
  <2>1. PICK r \in rows : AtUri(r) = c.at
    BY DEF Grants, CollabsOK
  <2>2. r # own /\ r \in Known
    BY <1>1, <2>1 DEF Known
  <2>3. QED
    BY <1>1, <2>1, <2>2, OneAtUri
<1>3. ASSUME NEW path, NEW u, NEW k
      PROVE  Shared(u, path, k)' <=> Shared(u, path, k)
  <2>1. RowsOf(path) \subseteq RowsOf(path)' /\ RowsOf(path)' \subseteq RowsOf(path) \cup {own}
    BY DEF RowsOf, PathOf
  <2>2. QED
    BY <1>2, <2>1 DEF Shared, AtUri
<1>4. ASSUME NEW b \in Request, job[b].op = "invite", job[b].repo \in rows', pc[b] # "idle"
      PROVE  job[b].repo \in rows
  BY <1>4 DEF Stages, Fresh, Inventing
<1>5. /\ \A b \in Request \ {a} :
              /\ Removing(b)' <=> Removing(b)
              /\ Creating(b)' <=> Creating(b)
              /\ Adding(b)' <=> Adding(b)
              /\ Purged(b)' <=> Purged(b)
              /\ Saving(b)' <=> Saving(b)
      /\ \A b \in Request : job'[b] = job[b]
      /\ \A path : \A b \in Request : On(b, path)' <=> On(b, path)
  BY Flags
<1>6. ASSUME NEW path \in Path, NEW u \in User, NEW k \in Knot, u # path[1]
      PROVE  Shares(u, path, k)'
  <2>1. CASE path # PathOf(own)
    <3>1. Shared(u, path, k)' <=> Shared(u, path, k)
      BY <1>3
    <3>2. /\ Granted(mem', u, path, k) <=> Granted(mem, u, path, k)
          /\ Granted(disk', u, path, k) <=> Granted(disk, u, path, k)
      OBVIOUS
    <3>3. QED
      BY <1>6, <2>1, <3>1, <3>2, OtherShares
  <2>2. CASE path = PathOf(own)
    <3>1. ASSUME Clear(path)' PROVE Clear(path)
      <4>1. RowsOf(path)' = RowsOf(path) \cup {own}
        BY <2>2 DEF RowsOf, PathOf
      <4>2. ASSUME NEW b \in Request, Removing(b), On(b, path) PROVE FALSE
        <5>1. b # a
          BY <4>2 DEF Removing
        <5>2. Removing(b)' /\ On(b, path)' /\ job'[b] = job[b]
          BY <1>5, <4>2, <5>1
        <5>3. RowsOf(path)' = {job[b].repo}
          BY <3>1, <5>2 DEF Clear
        <5>4. job[b].repo # own
          BY <4>2, <5>1 DEF Stages, Fresh, Inventing, Removing
        <5>5. QED
          BY <4>1, <5>3, <5>4
      <4>3. path \notin scarred
        BY <3>1 DEF Clear
      <4>4. QED
        BY <4>2, <4>3 DEF Clear
    <3>2. \A b \in Request : SameWork(b, path)
      BY MovedWork
    <3>3. Shared(u, path, k)' <=> Shared(u, path, k)
      BY <1>3
    <3>4. \A b \in Request :
          On(b, path) /\ job[b].op = "invite" /\ pc[b] \in {"write", "commit"} =>
            (job[b].repo \in rows' => job[b].repo \in rows)
      BY <1>4
    <3>5. Shares(u, path, k)
      BY <1>6 DEF Grants
    <3>6. QED
      BY <3>1, <3>2, <3>3, <3>4, <3>5, SameShares
  <2>3. QED
    BY <2>1, <2>2
<1>7. CollabsOK'
  <2>1. \A b \in Request : pc'[b] = "commit" => pc[b] = "commit" /\ job'[b] = job[b]
    BY GotoJob
  <2>2. QED
    BY <2>1 DEF Grants, CollabsOK, AtUri
<1>8. WholeGrants(mem)' /\ WholeGrants(disk)'
  BY DEF Grants, WholeGrants, Has, Granted
<1>9. QED
  BY <1>6, <1>7, <1>8 DEF Grants

(* A collaborator's row is written after its rules. *)
LEMMA CommitInvites ==
  ASSUME IInv, Stages, Grants, NEW a \in Request, pc[a] = "commit", job[a].op = "invite",
         Goto(a, "save"), NEW own, own = job[a].repo, NEW v, v = job[a].subject,
         NEW new, new.subject = v, new.at = AtUri(own), collabs' = collabs \cup {new},
         UNCHANGED <<rows, mem, disk, scarred>>
  PROVE  Grants'
<1>1. PICK P : P = PathOf(own)
  OBVIOUS
<1>2. PICK K : K = own.knot
  OBVIOUS
<1>3. /\ own \in rows /\ own \in Known /\ v # own.did /\ On(a, P)
  BY <1>1 DEF Grants, CollabsOK, Known, Stages, Stage, On
<1>4. RowsOf(P) \subseteq Known /\ \A path : RowsOf(path) \subseteq Known
  BY DEF RowsOf, Known
<1>5. ASSUME NEW path, NEW u, NEW k
      PROVE  /\ Shared(u, path, k) => Shared(u, path, k)'
             /\ Shared(u, path, k)' => Shared(u, path, k) \/ (u = v /\ path = P /\ k = K)
             /\ u = v /\ path = P /\ k = K => Shared(u, path, k)'
  <2>1. RowsOf(path)' = RowsOf(path)
    BY DEF RowsOf, PathOf
  <2>2. own \in RowsOf(P)
    BY <1>1, <1>3 DEF RowsOf
  <2>3. ASSUME NEW r \in RowsOf(path), AtUri(r) = AtUri(own)
        PROVE  path = P /\ r.knot = K
    <3>1. r = own
      BY <1>3, <1>4, <2>3, OneAtUri
    <3>2. QED
      BY <1>1, <1>2, <2>3, <3>1 DEF RowsOf
  <2>4. Shared(u, path, k)' <=>
          \E c \in collabs \cup {new}, r \in RowsOf(path) :
            c.subject = u /\ c.at = AtUri(r) /\ r.knot = k
    BY <2>1 DEF Shared, AtUri
  <2>5. QED
    BY <1>2, <2>2, <2>3, <2>4 DEF Shared
<1>6. /\ pc'[a] = "save" /\ \A b \in Request \ {a} : pc'[b] = pc[b]
      /\ \A b \in Request : job'[b] = job[b]
      /\ \A b \in Request : \A path : On(b, path)' <=> On(b, path)
      /\ \A b \in Request : \A u, path, k : Inviting(b, u, path, k)' <=> Inviting(b, u, path, k)
      /\ \A b \in Request \ {a} : (Purged(b)' <=> Purged(b)) /\ (Granting(b)' <=> Granting(b))
      /\ ~Purged(a)' /\ Granting(a)'
  BY WorkOf
<1>7. ~Purged(a) /\ Granting(a) /\ ~Removing(a) /\ ~Adding(a)
  BY DEF Purged, Granting, Removing, Adding
<1>8. ASSUME NEW u \in User, NEW k \in Knot, P \in Path, u # P[1], Clear(P)'
      PROVE  MemShared(u, P, k)' /\ DiskShared(u, P, k)'
  <2>1. Clear(P)
    BY <1>7, <1>8, ClearBefore
  <2>2. MemShared(u, P, k)
    BY <1>8, <2>1 DEF Grants, Shares
  <2>3. Purging(P)' <=> Purging(P)
    BY <1>6, <1>7 DEF Purging
  <2>4. Inviting(a, u, P, k) <=> u = v /\ k = K
    BY <1>2, <1>3 DEF Inviting
  <2>5. Granted(mem', u, P, k) =>
          \/ Shared(u, P, k)' /\ ~Purging(P)'
          \/ \E b \in Request : Inviting(b, u, P, k)' /\ Granting(b)'
    <3>1. \A b \in Request : Inviting(b, u, P, k) /\ Granting(b) =>
            Inviting(b, u, P, k)' /\ Granting(b)'
      BY <1>6
    <3>2. Granted(mem, u, P, k) =>
            \/ Shared(u, P, k) /\ ~Purging(P)
            \/ \E b \in Request : Inviting(b, u, P, k) /\ Granting(b)
      BY <2>2 DEF MemShared
    <3>3. QED
      BY <1>5, <2>3, <3>1, <3>2
  <2>6. ~Purging(P)' /\ Shared(u, P, k)' => Granted(mem', u, P, k)
    <3>1. ~Purging(P) /\ u = v /\ k = K => Granted(mem, u, P, k)
      BY <1>3, <2>2, <2>4 DEF MemShared
    <3>2. QED
      BY <1>5, <2>2, <2>3, <3>1 DEF MemShared
  <2>7. ASSUME ~Purging(P)', NEW b \in Request, Inviting(b, u, P, k)',
               pc'[b] \in {"write", "commit"}, job'[b].repo \in rows'
        PROVE  Granted(mem', u, P, k)
    <3>1. b # a
      BY <1>6, <2>7
    <3>2. Inviting(b, u, P, k) /\ pc[b] \in {"write", "commit"} /\ job[b].repo \in rows
      BY <1>6, <2>7, <3>1
    <3>3. QED
      BY <2>2, <2>3, <2>7, <3>2 DEF MemShared
  <2>8. ASSUME NEW b \in Request, Inviting(b, u, P, k)', pc'[b] = "save"
        PROVE  \/ Shared(u, P, k)'
               \/ \E c \in Request : job'[c].op = "delete" /\ pc'[c] = "save" /\ On(c, P)'
    <3>1. CASE b = a
      BY <1>5, <1>6, <2>4, <2>8, <3>1
    <3>2. CASE b # a
      <4>1. Inviting(b, u, P, k) /\ pc[b] = "save"
        BY <1>6, <2>8, <3>2
      <4>2. \/ Shared(u, P, k)
            \/ \E c \in Request : job[c].op = "delete" /\ pc[c] = "save" /\ On(c, P)
        BY <2>2, <4>1 DEF MemShared
      <4>3. QED
        BY <1>5, <1>6, <4>2
    <3>3. QED
      BY <3>1, <3>2
  <2>9. MemShared(u, P, k)'
    BY <2>5, <2>6, <2>7, <2>8 DEF MemShared, Granted
  <2>10. DiskShared(u, P, k)'
    BY <1>3, <1>6 DEF DiskShared
  <2>11. QED
    BY <2>9, <2>10
<1>9. ASSUME NEW path \in Path, NEW u \in User, NEW k \in Knot, u # path[1]
      PROVE  Shares(u, path, k)'
  <2>1. CASE path = P
    BY <1>8, <1>9, <2>1 DEF Shares
  <2>2. CASE path # P
    <3>1. Shared(u, path, k)' <=> Shared(u, path, k)
      BY <1>5, <2>2
    <3>2. /\ Granted(mem', u, path, k) <=> Granted(mem, u, path, k)
          /\ Granted(disk', u, path, k) <=> Granted(disk, u, path, k)
      OBVIOUS
    <3>3. QED
      BY <1>1, <1>9, <2>2, <3>1, <3>2, OtherShares
  <2>3. QED
    BY <2>1, <2>2
<1>10. CollabsOK'
  <2>1. \A b \in Request : pc'[b] = "commit" => pc[b] = "commit" /\ job'[b] = job[b]
    BY GotoJob
  <2>2. QED
    BY <1>3, <2>1 DEF Grants, CollabsOK, AtUri
<1>11. WholeGrants(mem)' /\ WholeGrants(disk)'
  BY DEF Grants, WholeGrants, Has, Granted
<1>12. QED
  BY <1>9, <1>10, <1>11 DEF Grants

(* The rows of collaborators go with the row of the repository. *)
LEMMA CommitRemovesShares ==
  ASSUME IInv, Stages, Grants, NEW a \in Request, pc[a] = "commit", job[a].op = "delete",
         Goto(a, "save"), NEW own, own = job[a].repo, NEW P, P = PathOf(own),
         rows' = rows \ RowsOf(P),
         collabs' = {c \in collabs : ~\E r \in RowsOf(P) : AtUri(r) = c.at},
         RowsOf(P) = {own} \/ P \in scarred', scarred \subseteq scarred',
         UNCHANGED <<mem, disk>>
  PROVE  Grants'
<1>1. \A path : RowsOf(path) \subseteq Known
  BY DEF RowsOf, Known
<1>2. ASSUME NEW path, NEW u, NEW k, path # P
      PROVE  Shared(u, path, k)' <=> Shared(u, path, k)
  <2>1. RowsOf(path)' = RowsOf(path)
    BY <1>2 DEF RowsOf, PathOf
  <2>2. ASSUME NEW r \in RowsOf(path), NEW q \in RowsOf(P) PROVE AtUri(r) # AtUri(q)
    <3>1. r # q
      BY <1>2 DEF RowsOf
    <3>2. QED
      BY <1>1, <3>1, OneAtUri
  <2>3. Shared(u, path, k)' <=>
          \E c \in collabs', r \in RowsOf(path) : c.subject = u /\ c.at = AtUri(r) /\ r.knot = k
    BY <2>1 DEF Shared, AtUri
  <2>4. QED
    BY <2>2, <2>3 DEF Shared
<1>3. RowsOf(P)' = {} /\ On(a, P) /\ Purged(a)
  BY DEF RowsOf, PathOf, On, Purged
<1>4. /\ pc'[a] = "save" /\ \A b \in Request \ {a} : pc'[b] = pc[b]
      /\ \A b \in Request : job'[b] = job[b]
      /\ \A b \in Request : \A path : On(b, path)' <=> On(b, path)
      /\ \A b \in Request : \A u, path, k : Inviting(b, u, path, k)' <=> Inviting(b, u, path, k)
      /\ \A b \in Request \ {a} : (Purged(b)' <=> Purged(b)) /\ (Granting(b)' <=> Granting(b))
  BY WorkOf
<1>5. ASSUME NEW u \in User, NEW k \in Knot, P \in Path, u # P[1], Clear(P)'
      PROVE  MemShared(u, P, k)' /\ DiskShared(u, P, k)'
  <2>1. Clear(P)
    <3>1. P \notin scarred' /\ RowsOf(P) = {own}
      BY <1>5 DEF Clear
    <3>2. \A b \in Request \ {a} : Removing(b) => ~On(b, P)
      <4>1. \A b \in Request \ {a} : (Removing(b) => Removing(b)') /\ (On(b, P) => On(b, P)')
        BY <1>4 DEF Removing
      <4>2. QED
        BY <1>3, <1>5, <4>1 DEF Clear
    <3>3. \A b \in Request \ {a} : ~Adding(b)
      BY DEF Stages, Stage, Adding
    <3>4. QED
      BY <3>1, <3>2, <3>3 DEF Clear
  <2>2. MemShared(u, P, k)
    BY <1>5, <2>1 DEF Grants, Shares
  <2>3. ~Shared(u, P, k)'
    BY <1>3 DEF Shared
  <2>4. Purging(P)
    BY <1>3 DEF Purging
  <2>5. Granted(mem', u, P, k) =>
          \E b \in Request : Inviting(b, u, P, k)' /\ Granting(b)'
    <3>1. SUFFICES ASSUME Granted(mem', u, P, k)
                   PROVE  \E b \in Request : Inviting(b, u, P, k)' /\ Granting(b)'
      OBVIOUS
    <3>2. PICK b \in Request : Inviting(b, u, P, k) /\ Granting(b)
      BY <2>2, <2>4, <3>1 DEF MemShared
    <3>3. b # a
      BY <3>2 DEF Inviting
    <3>4. QED
      BY <1>4, <3>2, <3>3
  <2>6. \A b \in Request : Inviting(b, u, P, k)' => job'[b].repo \notin rows'
    BY <1>3 DEF Inviting, On, RowsOf
  <2>7. job'[a].op = "delete" /\ pc'[a] = "save" /\ On(a, P)'
    BY <1>3, <1>4
  <2>8. MemShared(u, P, k)'
    BY <2>3, <2>5, <2>6, <2>7 DEF MemShared, Granted
  <2>9. DiskShared(u, P, k)'
    BY <2>7 DEF DiskShared
  <2>10. QED
    BY <2>8, <2>9
<1>6. ASSUME NEW path \in Path, NEW u \in User, NEW k \in Knot, u # path[1]
      PROVE  Shares(u, path, k)'
  <2>1. CASE path = P
    BY <1>5, <1>6, <2>1 DEF Shares
  <2>2. CASE path # P
    <3>1. Shared(u, path, k)' <=> Shared(u, path, k)
      BY <1>2, <2>2
    <3>2. \A r : PathOf(r) # PathOf(own) => (r \in rows' <=> r \in rows)
      BY DEF RowsOf
    <3>3. /\ Granted(mem', u, path, k) <=> Granted(mem, u, path, k)
          /\ Granted(disk', u, path, k) <=> Granted(disk, u, path, k)
      OBVIOUS
    <3>4. QED
      BY <1>6, <2>2, <3>1, <3>2, <3>3, OtherShares
  <2>3. QED
    BY <2>1, <2>2
<1>7. CollabsOK'
  <2>1. \A b \in Request : pc'[b] # "commit"
    BY <1>4 DEF Stages, Stage
  <2>2. ASSUME NEW c \in collabs' PROVE \E r \in rows' : AtUri(r) = c.at /\ c.subject # r.did
    <3>1. PICK r \in rows : AtUri(r) = c.at /\ c.subject # r.did
      BY DEF Grants, CollabsOK
    <3>2. QED
      BY <3>1
  <2>3. QED
    BY <2>1, <2>2 DEF CollabsOK, AtUri
<1>8. WholeGrants(mem)' /\ WholeGrants(disk)'
  BY DEF Grants, WholeGrants, Has, Granted
<1>9. QED
  BY <1>6, <1>7, <1>8 DEF Grants

LEMMA CommitShares ==
  ASSUME IInv, Stages, Grants, NEW a \in Request, Commit(a)
  PROVE  Grants'
<1>1. PICK own : own = job[a].repo
  OBVIOUS
<1>2. PICK P : P = PathOf(own)
  OBVIOUS
<1>3. /\ pc[a] = "commit" /\ Goto(a, "save") /\ rows' = TxRows(a) /\ collabs' = TxCollabs(a)
      /\ UNCHANGED <<mem, disk>>
      /\ job[a].op \in {"create", "invite", "delete"} /\ Gone(a) = RowsOf(P)
  BY <1>1, <1>2 DEF Commit, IInv, Control, JobOK, Gone, RowsOf
<1>4. CASE job[a].op = "create"
  <2>1. scarred' = scarred /\ rows' = rows \cup {own} /\ collabs' = collabs
    BY <1>1, <1>3, <1>4 DEF Commit, TxRows, TxCollabs
  <2>2. QED
    BY <1>1, <1>3, <1>4, <2>1, CommitCreatesShares
<1>5. CASE job[a].op = "invite"
  <2>1. scarred' = scarred /\ rows' = rows /\ collabs' = collabs \cup {CollabRecord(a)}
    BY <1>3, <1>5 DEF Commit, TxRows, TxCollabs
  <2>2. CollabRecord(a).subject = job[a].subject /\ CollabRecord(a).at = AtUri(own)
    BY <1>1 DEF CollabRecord
  <2>3. PICK new : new = CollabRecord(a)
    OBVIOUS
  <2>4. QED
    BY <1>1, <1>3, <1>5, <2>1, <2>2, <2>3, CommitInvites
<1>6. CASE job[a].op = "delete"
  <2>1. /\ rows' = rows \ RowsOf(P)
        /\ collabs' = {c \in collabs : ~\E r \in RowsOf(P) : AtUri(r) = c.at}
    BY <1>3, <1>6 DEF TxRows, TxCollabs
  <2>2. scarred \subseteq scarred' /\ (RowsOf(P) = {own} \/ P \in scarred')
    BY <1>1, <1>2, <1>3, <1>6 DEF Commit, Scar
  <2>3. QED
    BY <1>1, <1>2, <1>3, <1>6, <2>1, <2>2, CommitRemovesShares
<1>7. QED
  BY <1>3, <1>4, <1>5, <1>6

LEMMA NextShares ==
  ASSUME IInv, Stages, Grants, [Next]_vars
  PROVE  Grants'
<1>1. ASSUME UNCHANGED <<rows, collabs, mem, disk, scarred>>,
             \A b \in Request : \/ pc'[b] = pc[b] /\ job'[b] = job[b]
                                \/ pc[b] = "idle" /\ pc'[b] = "put"
      PROVE  Grants'
  <2>1. ASSUME NEW path \in Path, NEW u \in User, NEW k \in Knot, u # path[1]
        PROVE  Shares(u, path, k)'
    <3>1. \A b \in Request : SameWork(b, path)
      BY <1>1 DEF SameWork, Works, Purged
    <3>2. \A b \in Request : (Removing(b) \/ Adding(b)) => pc'[b] = pc[b] /\ job'[b] = job[b]
      BY <1>1 DEF Removing, Adding
    <3>3. Clear(path)' => Clear(path)
      BY <1>1, <3>2, ClearWas DEF Removing, Adding, On, PathOf
    <3>4. Shared(u, path, k)' <=> Shared(u, path, k)
      BY <1>1, SameShared
    <3>5. Shares(u, path, k)
      BY <2>1 DEF Grants
    <3>6. QED
      BY <1>1, <3>1, <3>3, <3>4, <3>5, SameShares DEF Granted
  <2>2. CollabsOK'
    <3>1. \A b \in Request : pc'[b] = "commit" => pc[b] = "commit" /\ job'[b] = job[b]
      BY <1>1
    <3>2. QED
      BY <1>1, <3>1 DEF Grants, CollabsOK, AtUri
  <2>3. WholeGrants(mem)' /\ WholeGrants(disk)'
    BY <1>1 DEF Grants, WholeGrants, Has, Granted
  <2>4. QED
    BY <2>1, <2>2, <2>3 DEF Grants
<1>2. ASSUME NEW a \in Request, NEW op, NEW u, NEW r, NEW m, NEW from,
             Call(a, op, u, r, m, from, "put")
      PROVE  Grants'
  <2>1. /\ pc[a] = "idle" /\ pc' = [pc EXCEPT ![a] = "put"]
        /\ UNCHANGED <<rows, collabs, mem, disk, scarred>>
    BY <1>2 DEF Call, stores, hist
  <2>2. PICK j : job' = [job EXCEPT ![a] = j]
    BY <1>2 DEF Call
  <2>3. /\ pc'[a] = "put"
        /\ \A b \in Request \ {a} : pc'[b] = pc[b] /\ job'[b] = job[b]
    BY <2>1, <2>2 DEF IInv, Control, Types
  <2>4. QED
    BY <1>1, <2>1, <2>3
<1>3. ASSUME NEW a \in Request, Step(a) PROVE Grants'
  BY <1>2, <1>3, CallsShares, GrantShares, PurgeShares, WriteShares, CommitShares, ErrorShares,
     SaveShares, LoadShares DEF Step, NewRepo, ForkRepo, AddCollaboratorReq, DeleteRepo
<1>4. CASE \/ UNCHANGED vars
           \/ \E k \in Knot : processCollaborator(k)
           \/ \E u, m \in User, r \in rows : OtherClient(u, m, r)
  BY <1>1, <1>4 DEF vars, stores, world, hist, processCollaborator, OtherClient
<1>5. QED
  BY <1>3, <1>4, CrashShares DEF Next

(* At first there is no collaborator. *)
LEMMA InitGrants == Init => Grants
<1> SUFFICES ASSUME Init PROVE Grants
  OBVIOUS
<1>1. /\ rows = {} /\ collabs = {} /\ \A a \in Request : pc[a] = "idle"
      /\ mem = AllRoles /\ disk = AllRoles
  BY DEF Init
<1>2. \A r \in AllRoles.p : r[4] \in {"server:invite", "repo:create"}
  BY RoleRules DEF AllRoles
<1>3. ASSUME NEW u \in User, NEW path \in Path, NEW k \in Knot
      PROVE  /\ GrantRules(u, path, k) \cap AllRoles.p = {}
             /\ ~Has(AllRoles, u, k, path, "repo:collaborator")
             /\ ~Granted(AllRoles, u, path, k)
  <2>1. \A x \in GrantRules(u, path, k) : x[4] \notin {"server:invite", "repo:create"}
    BY DEF GrantRules, collaboratorPolicies
  <2>2. <<u, Domain(k), path, "repo:collaborator">> \in GrantRules(u, path, k)
    BY GrantRule
  <2>3. QED
    BY <1>2, <2>1, <2>2 DEF Has, Granted
<1>4. WholeGrants(AllRoles)
  BY <1>3 DEF WholeGrants
<1>5. ASSUME NEW path \in Path, NEW u \in User, NEW k \in Knot
      PROVE  MemShared(u, path, k) /\ DiskShared(u, path, k)
  <2>1. ~Shared(u, path, k)
    BY <1>1 DEF Shared
  <2>2. ~Granted(mem, u, path, k) /\ ~Granted(disk, u, path, k)
    BY <1>1, <1>3
  <2>3. QED
    BY <1>1, <2>1, <2>2 DEF MemShared, DiskShared
<1>6. CollabsOK
  BY <1>1 DEF CollabsOK
<1>7. QED
  BY <1>1, <1>4, <1>5, <1>6 DEF Grants, Shares

LEMMA GrantsInv == Spec => [](IInv /\ Places /\ Grants)
<1>1. Init => IInv /\ Places /\ Grants
  BY InitInv, InitPlaces, InitGrants DEF Places
<1>2. IInv /\ Places /\ Grants /\ [Next]_vars => (IInv /\ Places /\ Grants)'
  BY NextInv, NextStages, NextRecords, NextOwners, NextSync, NextShares DEF Places
<1>3. QED
  BY <1>1, <1>2, PTL DEF Spec

(***************************************************************************)
(* For any accounts, knots, names, requests, faults and bounds: while no   *)
(* request works on a path that nothing has left a scar on, somebody is    *)
(* its collaborator in the appview's memory, and on its disk, exactly if   *)
(* the row of the repository has them as one.                              *)
(***************************************************************************)
THEOREM CollaboratorsFollowRows == Spec => []CollaboratorsAgree
<1>1. ASSUME IInv, Grants PROVE CollaboratorsAgree
  <2> SUFFICES ASSUME NEW path \in Path, NEW k \in Knot, NEW u \in User, Quiet(path),
                      path \notin scarred
               PROVE  \A pol \in {mem, disk} :
                        Has(pol, u, k, path, "repo:collaborator") <=>
                          \E c \in collabs, r \in rows :
                            c.subject = u /\ c.at = AtUri(r) /\ PathOf(r) = path /\ r.knot = k
    BY DEF CollaboratorsAgree
  <2>1. \A a \in Request : On(a, path) => pc[a] = "idle"
    BY DEF Quiet, On
  <2>2. Shared(u, path, k) <=>
          \E c \in collabs, r \in rows :
            c.subject = u /\ c.at = AtUri(r) /\ PathOf(r) = path /\ r.knot = k
    BY DEF Shared, RowsOf
  <2>3. WholeGrants(mem) /\ WholeGrants(disk) /\ CollabsOK
    BY <1>1 DEF Grants
  <2>4. CASE u = path[1]
    <3>1. ASSUME NEW c \in collabs, NEW r \in RowsOf(path), c.subject = u, c.at = AtUri(r)
          PROVE  FALSE
      <4>1. PICK q \in rows : AtUri(q) = c.at /\ c.subject # q.did
        BY <2>3 DEF CollabsOK
      <4>2. q.did = r.did
        BY <3>1, <4>1 DEF AtUri
      <4>3. PathOf(r)[1] = r.did /\ PathOf(r) = path
        BY DEF PathOf, RowsOf
      <4>4. QED
        BY <2>4, <3>1, <4>1, <4>2, <4>3
    <3>2. ~Shared(u, path, k)
      BY <3>1 DEF Shared
    <3>3. \A pol \in {mem, disk} : ~Has(pol, u, k, path, "repo:collaborator")
      BY <2>3, <2>4 DEF WholeGrants
    <3>4. QED
      BY <2>2, <3>2, <3>3
  <2>5. CASE u # path[1]
    <3>1. Clear(path)
      BY <2>1 DEF Clear, Removing
    <3>2. MemShared(u, path, k) /\ DiskShared(u, path, k)
      BY <1>1, <2>5, <3>1 DEF Grants, Shares
    <3>3. ~Purging(path) /\ \A a \in Request : Inviting(a, u, path, k) => ~Granting(a)
      BY <2>1 DEF Purging, Purged, Inviting, Granting
    <3>4. Granted(mem, u, path, k) <=> Shared(u, path, k)
      BY <3>2, <3>3 DEF MemShared
    <3>5. Granted(disk, u, path, k) <=> Shared(u, path, k)
      BY <2>1, <3>2 DEF DiskShared
    <3>6. \A pol \in {mem, disk} :
            Has(pol, u, k, path, "repo:collaborator") <=> Granted(pol, u, path, k)
      BY <2>3, <2>5, CollaboratorRule
    <3>7. QED
      BY <2>2, <3>4, <3>5, <3>6
  <2>6. QED
    BY <2>4, <2>5
<1>2. QED
  BY GrantsInv, <1>1, PTL
=============================================================================
