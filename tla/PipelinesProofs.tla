-------------------------- MODULE PipelinesProofs --------------------------
(***************************************************************************)
(* Continuous integration from the push to the row that is shown, for any  *)
(* users, repositories, spindles and pushes.  The inductive invariant says *)
(* where rights come from (Access), where events, jobs and statuses come   *)
(* from (Work), and where the workflows of a handled pipeline are          *)
(* (Answering).  At the end two of the pure algorithms: the fan-out of     *)
(* notifications and the compiler.                                         *)
(***************************************************************************)
EXTENDS Pipelines, Algorithms, FiniteSetTheorems, FunctionTheorems, NaturalsInduction,
        WellFoundedInduction, TLAPS

(***************************************************************************)
(* Who has rights to a repository on a spindle.                            *)
(***************************************************************************)
accessVars == <<fire, collabs, named, pol, watched, secrets>>

FireEvent ==
  [kind : {"repo"}, by : User, repo : Repo, spindle : Spindle \cup {None, NoneForm}]
  \cup [kind : {"collaborator"}, by : User, repo : Repo, sub : User]
  \cup [kind : {"member"}, by : User, spindle : Spindle, sub : User, in : BOOLEAN]

(* A record is in its owner's repository (the PDS lets nobody else write   *)
(* there), and events tell of records that were written.                   *)
FireOK(e, nm, cs) ==
  /\ e.kind = "repo" => e.by = RepoOwner[e.repo] /\ <<e.repo, e.spindle>> \in nm
  /\ e.kind = "collaborator" => e.by = RepoOwner[e.repo] /\ <<e.repo, e.sub>> \in cs

Invited(r, u, cs) == \E c \in cs : RepoOwner[c[1]] = RepoOwner[r] /\ c[2] = u

(* The rights to a repository are its owner's, and some of them also those *)
(* of collaborators; its record once named the spindle.                    *)
RuleOK(rule, s, nm, cs) ==
  rule[4] \in {"repo:settings", "repo:owner", "repo:invite"} =>
    /\ rule[3] \in Repo /\ <<rule[3], s>> \in nm
    /\ \/ rule[1] = RepoOwner[rule[3]]
       \/ rule[4] = "repo:settings" /\ Invited(rule[3], rule[1], cs)

IsPolicy(p) == p = [p |-> p.p, g |-> p.g]

PolicyOK(p, s, nm, cs) == IsPolicy(p) /\ \A rule \in p.p : RuleOK(rule, s, nm, cs)

Access ==
  /\ fire \in Seq(FireEvent) /\ \A i \in 1..Len(fire) : FireOK(fire[i], named, collabs)
  /\ collabs \subseteq Repo \X User
  /\ DOMAIN pol = Spindle /\ \A s \in Spindle : PolicyOK(pol[s], s, named, collabs)
  /\ watched \in [Spindle -> SUBSET Repo]
  /\ \A s \in Spindle : \A r \in watched[s] : <<r, s>> \in named
  /\ secrets \in [Spindle -> [Repo -> User \cup {None}]]
  /\ SecretsByInvited

(* A batch of rules that are in order may be added. *)
LEMMA AddPoliciesOK ==
  ASSUME NEW nm, NEW cs, NEW p, NEW s, PolicyOK(p, s, nm, cs), NEW rules, \A rule \in rules : RuleOK(rule, s, nm, cs)
  PROVE  PolicyOK(AddPolicies(p, rules), s, nm, cs)
  BY DEF PolicyOK, IsPolicy, AddPolicies

(* Roles give nothing. *)
LEMMA GroupingOK ==
  ASSUME NEW nm, NEW cs, NEW p, NEW s, PolicyOK(p, s, nm, cs), NEW u, NEW dom
  PROVE  PolicyOK(AddMember(p, dom, u), s, nm, cs)
         /\ PolicyOK(RemoveMember(p, dom, u), s, nm, cs)
  BY DEF PolicyOK, IsPolicy, AddMember, RemoveMember, AddGroupingPolicy, RemoveGroupingPolicy

(* The rules of a repository that named the spindle. *)
LEMMA AddRepoOK ==
  ASSUME NEW nm, NEW cs, NEW p, NEW s, PolicyOK(p, s, nm, cs), NEW r \in Repo, <<r, s>> \in nm
  PROVE  PolicyOK(AddRepo(p, RepoOwner[r], Dom, r), s, nm, cs)
<1>1. ASSUME NEW rule \in repoPolicies(RepoOwner[r], Dom, r) PROVE RuleOK(rule, s, nm, cs)
  <2>1. rule[3] = r /\ (rule[1] = RepoOwner[r] \/ rule[4] = "repo:delete")
    BY DEF repoPolicies
  <2> QED BY <2>1 DEF RuleOK
<1> QED
  BY <1>1, AddPoliciesOK DEF AddRepo

(* The rules of a collaborator whom the owner invited.                     *)
LEMMA CollaboratorRules ==
  ASSUME NEW nm, NEW cs, NEW s, NEW r \in Repo, <<r, s>> \in nm, NEW u, Invited(r, u, cs),
         NEW rule \in collaboratorPolicies(u, Dom, r)
  PROVE  RuleOK(rule, s, nm, cs)
<1>1. rule[1] = u /\ rule[3] = r /\ rule[4] \in {"repo:collaborator", "repo:settings", "repo:push"}
  BY DEF collaboratorPolicies
<1> QED
  BY <1>1 DEF RuleOK

(* And all of them together.                                               *)
LEMMA AddCollaboratorOK ==
  ASSUME NEW nm, NEW cs, NEW p, NEW s, PolicyOK(p, s, nm, cs), NEW r \in Repo, <<r, s>> \in nm,
         NEW u, Invited(r, u, cs)
  PROVE  PolicyOK(AddCollaborator(p, u, Dom, r), s, nm, cs)
  BY CollaboratorRules, AddPoliciesOK DEF AddCollaborator

(* fetchAndAddCollaborators: those who were invited by the owner. *)
LEMMA FetchedOK ==
  ASSUME NEW nm, NEW p, NEW s, PolicyOK(p, s, nm, collabs), NEW r \in Repo, <<r, s>> \in nm
  PROVE  PolicyOK(fetchAndAddCollaborators(p, r), s, nm, collabs)
<1> DEFINE subjects == {c[2] : c \in {x \in collabs : RepoOwner[x[1]] = RepoOwner[r]}}
           rules == UNION {AddCollaborator(p, u, Dom, r).p : u \in subjects}
<1>1. fetchAndAddCollaborators(p, r) = [p EXCEPT !.p = @ \cup rules]
  BY DEF fetchAndAddCollaborators
<1>2. ASSUME NEW u \in subjects PROVE Invited(r, u, collabs)
  BY DEF Invited
<1>3. ASSUME NEW rule \in rules PROVE RuleOK(rule, s, nm, collabs)
  <2>1. PICK u \in subjects : rule \in AddCollaborator(p, u, Dom, r).p
    OBVIOUS
  <2> HIDE DEF subjects
  <2> QED BY <1>2, <2>1, AddCollaboratorOK DEF PolicyOK
<1> HIDE DEF rules
<1> QED
  BY <1>1, <1>3 DEF PolicyOK, IsPolicy

(* Who a spindle lets act on a repository. *)
LEMMA EnforceFacts ==
  ASSUME Access, NEW s \in Spindle, NEW u \in User, NEW r, NEW act,
         act \in {"repo:settings", "repo:owner", "repo:invite"}, Enforce(pol[s], u, Dom, r, act)
  PROVE  /\ r \in Repo /\ <<r, s>> \in named
         /\ u = RepoOwner[r] \/ (act = "repo:settings" /\ Invited(r, u, collabs))
<1>1. PICK sub \in {u, Owner, Member} : <<sub, Dom, r, act>> \in pol[s].p
  BY DEF Enforce
<1> DEFINE rule == <<sub, Dom, r, act>>
<1>2. rule[1] = sub /\ rule[3] = r /\ rule[4] = act
  OBVIOUS
<1> HIDE DEF rule
<1>3. RuleOK(rule, s, named, collabs)
  BY <1>1 DEF Access, PolicyOK, rule
<1>4. /\ r \in Repo /\ <<r, s>> \in named
      /\ sub = RepoOwner[r] \/ (act = "repo:settings" /\ Invited(r, sub, collabs))
  BY <1>2, <1>3 DEF RuleOK
<1>5. sub \in User
  BY <1>4, PipelinesAssumption DEF Access, Invited
<1>6. sub = u
  BY <1>1, <1>5, PipelinesAssumption
<1> QED
  BY <1>4, <1>6

(* A list of events is longer by one. *)
LEMMA AppendFacts ==
  ASSUME NEW S, NEW q \in Seq(S), NEW e \in S
  PROVE  LET v == Append(q, e)
         IN  /\ v \in Seq(S) /\ Len(v) = Len(q) + 1
             /\ \A i \in 1..Len(v) : v[i] = IF i <= Len(q) THEN q[i] ELSE e
             /\ \A i \in 1..Len(q) : v[i] = q[i]
  OBVIOUS

(* More records only explain more. *)
LEMMA MoreRecords ==
  ASSUME NEW nm, NEW cs, NEW nm2, NEW cs2, nm \subseteq nm2, cs \subseteq cs2
  PROVE  /\ \A e : FireOK(e, nm, cs) => FireOK(e, nm2, cs2)
         /\ \A p, s : PolicyOK(p, s, nm, cs) => PolicyOK(p, s, nm2, cs2)
         /\ \A r, u : Invited(r, u, cs) => Invited(r, u, cs2)
<1>1. \A r, u : Invited(r, u, cs) => Invited(r, u, cs2)
  BY DEF Invited
<1>2. \A rule, s : RuleOK(rule, s, nm, cs) => RuleOK(rule, s, nm2, cs2)
  BY <1>1 DEF RuleOK
<1> QED
  BY <1>1, <1>2 DEF FireOK, PolicyOK

SecretOK(s, r, sec, nm, cs) ==
  sec[s][r] # None =>
    <<r, s>> \in nm /\ (sec[s][r] = RepoOwner[r] \/ Invited(r, sec[s][r], cs))

(* SecretsByInvited, spindle by spindle and repository by repository.      *)
LEMMA SecretsAre ==
  /\ SecretsByInvited <=> \A s \in Spindle, r \in Repo : SecretOK(s, r, secrets, named, collabs)
  /\ SecretsByInvited' <=> \A s \in Spindle, r \in Repo : SecretOK(s, r, secrets', named', collabs')
  BY DEF SecretsByInvited, SecretOK, Invited

(* A record is written on the PDS and announced. *)
LEMMA WriteAccess ==
  ASSUME Access, NEW e \in FireEvent, fire' = Append(fire, e),
         named \subseteq named', collabs \subseteq collabs', collabs' \subseteq Repo \X User,
         FireOK(e, named', collabs'), UNCHANGED <<pol, watched, secrets>>
  PROVE  Access'
<1>1. /\ fire' \in Seq(FireEvent) /\ Len(fire) \in Nat /\ Len(fire') = Len(fire) + 1
      /\ \A i \in 1..Len(fire') : fire'[i] = IF i <= Len(fire) THEN fire[i] ELSE e
  BY AppendFacts DEF Access
<1>2. \A i \in 1..Len(fire') : FireOK(fire'[i], named', collabs')
  <2> SUFFICES ASSUME NEW i \in 1..Len(fire') PROVE FireOK(fire'[i], named', collabs')
    OBVIOUS
  <2>1. CASE i <= Len(fire)
    <3>1. i \in 1..Len(fire) /\ fire'[i] = fire[i]
      BY <1>1, <2>1
    <3> QED BY <3>1, MoreRecords DEF Access
  <2>2. CASE ~ (i <= Len(fire))
    BY <1>1, <2>2
  <2> QED BY <2>1, <2>2
<1>3. \A s \in Spindle : PolicyOK(pol'[s], s, named', collabs')
  BY MoreRecords DEF Access
<1>4. SecretsByInvited'
  <2>1. \A s \in Spindle, r \in Repo : SecretOK(s, r, secrets, named, collabs)
    BY SecretsAre DEF Access
  <2>2. \A s \in Spindle, r \in Repo : SecretOK(s, r, secrets', named', collabs')
    BY <2>1, MoreRecords DEF SecretOK
  <2> QED BY <2>2, SecretsAre
<1> QED
  BY <1>1, <1>2, <1>3, <1>4 DEF Access

(* The record of a repository names a spindle, or none.                    *)
LEMMA PutSpindleAccess ==
  ASSUME Access, NEW r \in Repo, NEW s \in Spindle \cup {None}, PutSpindle(r, s)
  PROVE  Access'
<1> DEFINE n == IF s = None THEN NoneForm ELSE s
           e == [kind |-> "repo", by |-> RepoOwner[r], repo |-> r, spindle |-> n]
<1>1. /\ fire' = Append(fire, e) /\ named' = named \cup {<<r, n>>}
      /\ UNCHANGED <<collabs, pol, watched, secrets>>
  BY DEF PutSpindle, ingestVars
<1>2. e \in FireEvent
  BY PipelinesAssumption DEF FireEvent
<1>3. FireOK(e, named', collabs')
  BY <1>1 DEF FireOK
<1> HIDE DEF e
<1> QED
  BY <1>1, <1>2, <1>3, WriteAccess DEF Access

(* A collaborator record is written (AddCollaborator of the appview).      *)
LEMMA InviteAccess ==
  ASSUME Access, NEW r \in Repo, NEW u \in User, Invite(r, u)
  PROVE  Access'
<1> DEFINE e == [kind |-> "collaborator", by |-> RepoOwner[r], repo |-> r, sub |-> u]
<1>1. /\ fire' = Append(fire, e) /\ collabs' = collabs \cup {<<r, u>>}
      /\ UNCHANGED <<named, pol, watched, secrets>>
  BY DEF Invite, ingestVars
<1>2. e \in FireEvent
  BY PipelinesAssumption DEF FireEvent
<1>3. FireOK(e, named', collabs')
  BY <1>1 DEF FireOK
<1>4. collabs' \subseteq Repo \X User
  BY <1>1 DEF Access
<1> HIDE DEF e
<1> QED
  BY <1>1, <1>2, <1>3, <1>4, WriteAccess

(* The owner of the spindles adds or removes a member.                     *)
LEMMA SetMemberAccess ==
  ASSUME Access, NEW s \in Spindle, NEW u \in User, NEW in \in BOOLEAN, SetMember(s, u, in)
  PROVE  Access'
<1> DEFINE e == [kind |-> "member", by |-> SpindleOwner, spindle |-> s, sub |-> u, in |-> in]
<1>1. fire' = Append(fire, e) /\ UNCHANGED <<named, collabs, pol, watched, secrets>>
  BY DEF SetMember, ingestVars
<1>2. e \in FireEvent
  BY PipelinesAssumption DEF FireEvent
<1>3. FireOK(e, named', collabs')
  BY DEF FireOK
<1> HIDE DEF e
<1> QED
  BY <1>1, <1>2, <1>3, WriteAccess DEF Access

(* The policies and the watch list of one spindle change. *)
LEMMA SpindleAccess ==
  ASSUME Access, UNCHANGED <<fire, named, collabs, secrets>>,
         NEW s \in Spindle, NEW p, PolicyOK(p, s, named, collabs), pol' = [pol EXCEPT ![s] = p],
         watched' \in [Spindle -> SUBSET Repo],
         \A t \in Spindle : \A r \in watched'[t] : r \in watched[t] \/ <<r, t>> \in named
  PROVE  Access'
<1>1. DOMAIN pol' = Spindle /\ \A t \in Spindle : PolicyOK(pol'[t], t, named, collabs)
  BY DEF Access
<1>2. SecretsByInvited'
  BY DEF Access, SecretsByInvited
<1> QED
  BY <1>1, <1>2 DEF Access

(* The spindle reads the next event of the firehose (ingester.go).         *)
LEMMA IngestAccess ==
  ASSUME Access, NEW s \in Spindle, Ingest(s), pos[s] \in Nat
  PROVE  Access'
<1> DEFINE i == pos[s] + 1
           e == fire[i]
<1>1. UNCHANGED <<fire, named, collabs, secrets>> /\ PolicyOK(pol[s], s, named, collabs)
  BY DEF Ingest, pdsVars, Access
<1>2. e \in FireEvent /\ FireOK(e, named, collabs)
  <2>1. Len(fire) \in Nat
    BY DEF Access
  <2>2. i \in 1..Len(fire)
    BY <2>1 DEF Ingest
  <2> HIDE DEF i
  <2> QED BY <2>2 DEF Access
<1>3. \/ UNCHANGED <<pol, watched>>
      \/ e.kind = "member" /\ ingestMember(s, e)
      \/ e.kind = "repo" /\ ingestRepo(s, e)
      \/ e.kind = "collaborator" /\ ingestCollaborator(s, e)
  BY DEF Ingest
<1> HIDE DEF e
<1>4. CASE UNCHANGED <<pol, watched>>
  BY <1>1, <1>4 DEF Access, SecretsByInvited
<1>5. CASE e.kind = "member" /\ ingestMember(s, e)
  <2>1. CASE UNCHANGED pol
    BY <1>4, <1>5, <2>1 DEF ingestMember
  <2>2. CASE \E p : pol' = [pol EXCEPT ![s] = p] /\ PolicyOK(p, s, named, collabs)
    <3>1. watched' = watched
      BY <1>5 DEF ingestMember
    <3> QED BY <1>1, <2>2, <3>1, SpindleAccess DEF Access
  <2>3. UNCHANGED pol \/ \E p : pol' = [pol EXCEPT ![s] = p] /\ PolicyOK(p, s, named, collabs)
    <3>1. /\ PolicyOK(AddMember(pol[s], SpindleDom, e.sub), s, named, collabs)
          /\ PolicyOK(RemoveMember(pol[s], SpindleDom, e.sub), s, named, collabs)
      BY <1>1, GroupingOK
    <3> QED BY <1>5, <3>1 DEF ingestMember
  <2> QED BY <2>1, <2>2, <2>3
<1>6. CASE e.kind = "repo" /\ ingestRepo(s, e)
  <2>1. CASE e.spindle # s
    BY <1>4, <1>6, <2>1 DEF ingestRepo
  <2>2. CASE e.spindle = s
    <3> DEFINE r == e.repo
               added == AddRepo(pol[s], RepoOwner[r], Dom, r)
               full == fetchAndAddCollaborators(added, r)
    <3>1. r \in Repo /\ <<r, s>> \in named
      BY <1>2, <1>6, <2>2 DEF FireEvent, FireOK
    <3>2. watched' = [watched EXCEPT ![s] = @ \cup {r}]
          /\ (pol' = [pol EXCEPT ![s] = full] \/ pol' = [pol EXCEPT ![s] = added])
      BY <1>6, <2>2 DEF ingestRepo
    <3> HIDE DEF r
    <3>3. PolicyOK(added, s, named, collabs)
      BY <1>1, <3>1, AddRepoOK
    <3>4. PolicyOK(full, s, named, collabs)
      <4> HIDE DEF added
      <4> QED BY <3>1, <3>3, FetchedOK
    <3>5. watched' \in [Spindle -> SUBSET Repo]
          /\ \A t \in Spindle : \A x \in watched'[t] : x \in watched[t] \/ <<x, t>> \in named
      BY <3>1, <3>2 DEF Access
    <3> HIDE DEF added, full
    <3> QED BY <1>1, <3>2, <3>3, <3>4, <3>5, SpindleAccess
  <2> QED BY <2>1, <2>2
<1>7. CASE e.kind = "collaborator" /\ ingestCollaborator(s, e)
  <2> DEFINE r == e.repo
             u == e.sub
             p == AddCollaborator(pol[s], u, Dom, r)
  <2>1. r \in Repo /\ u \in User /\ <<r, u>> \in collabs
    BY <1>2, <1>7 DEF FireEvent, FireOK
  <2>2. watched' = watched
    BY <1>7 DEF ingestCollaborator
  <2>3. CASE Enforce(pol[s], RepoOwner[r], Dom, r, "repo:invite")
    <3>1. pol' = [pol EXCEPT ![s] = p]
      BY <1>7, <2>3 DEF ingestCollaborator
    <3>2. RepoOwner[r] \in User
      BY <2>1, PipelinesAssumption
    <3> HIDE DEF r, u
    <3>3. <<r, s>> \in named
      BY <2>3, <3>2, EnforceFacts
    <3>4. Invited(r, u, collabs)
      <4> DEFINE c == <<r, u>>
      <4>1. c \in collabs /\ c[1] = r /\ c[2] = u
        BY <2>1
      <4> HIDE DEF c
      <4> QED BY <4>1 DEF Invited
    <3>5. PolicyOK(p, s, named, collabs)
      BY <1>1, <2>1, <3>3, <3>4, AddCollaboratorOK
    <3> HIDE DEF p
    <3> QED BY <1>1, <2>2, <3>1, <3>5, SpindleAccess DEF Access
  <2>4. CASE ~ Enforce(pol[s], RepoOwner[r], Dom, r, "repo:invite")
    BY <1>4, <1>7, <2>4 DEF ingestCollaborator
  <2> QED BY <2>3, <2>4
<1> QED
  BY <1>3, <1>4, <1>5, <1>6, <1>7

(* A secret is put or removed by who may change the settings.              *)
LEMMA AddSecretAccess ==
  ASSUME Access, NEW s \in Spindle, NEW r \in Repo, NEW u \in User,
         AddSecret(s, r, u) \/ RemoveSecret(s, r, u)
  PROVE  Access'
<1>1. UNCHANGED <<fire, named, collabs, pol, watched>>
  BY DEF AddSecret, RemoveSecret, pdsVars
<1>2. PICK x \in User \cup {None} :
        /\ secrets' = [secrets EXCEPT ![s][r] = x]
        /\ x = None \/ (x = u /\ Enforce(pol[s], u, Dom, r, "repo:settings"))
  BY DEF AddSecret, RemoveSecret
<1>3. x # None => <<r, s>> \in named /\ (x = RepoOwner[r] \/ Invited(r, x, collabs))
  BY <1>2, EnforceFacts
<1>4. secrets' \in [Spindle -> [Repo -> User \cup {None}]]
      /\ \A t \in Spindle, z \in Repo :
           secrets'[t][z] = IF t = s /\ z = r THEN x ELSE secrets[t][z]
  BY <1>2 DEF Access
<1>5. SecretsByInvited'
  <2>1. \A t \in Spindle, z \in Repo : SecretOK(t, z, secrets, named, collabs)
    BY SecretsAre DEF Access
  <2>2. \A t \in Spindle, z \in Repo : SecretOK(t, z, secrets', named', collabs')
    BY <1>1, <1>3, <1>4, <2>1 DEF SecretOK
  <2> QED BY <2>2, SecretsAre
<1> QED
  BY <1>1, <1>4, <1>5 DEF Access

Positions == pos \in [Spindle -> Nat]

(* The other handlers leave the records, the spindles' policies and their  *)
(* secrets alone.                                                          *)
LEMMA AccessFrame ==
  ASSUME Next
  PROVE  \/ UNCHANGED <<accessVars, pos>>
         \/ \E r \in Repo, s \in Spindle \cup {None} : PutSpindle(r, s) /\ UNCHANGED pos
         \/ \E r \in Repo, u \in User : Invite(r, u) /\ UNCHANGED pos
         \/ \E r \in Repo, u \in User, s \in Spindle :
              (AddSecret(s, r, u) \/ RemoveSecret(s, r, u)) /\ UNCHANGED pos
         \/ \E s \in Spindle, u \in User, in \in BOOLEAN : SetMember(s, u, in) /\ UNCHANGED pos
         \/ \E s \in Spindle : Ingest(s)
<1> USE DEF accessVars, pdsVars, ingestVars
<1>1. ASSUME NEW r \in Repo, NEW s \in Spindle \cup {None},
             EditSpindle(r, s) \/ PutSpindleFails(r, s)
      PROVE  UNCHANGED <<accessVars, pos>>
  BY <1>1 DEF EditSpindle, PutSpindleFails
<1>2. ASSUME NEW r \in Repo, NEW s \in Spindle \cup {None}, PutSpindle(r, s) PROVE UNCHANGED pos
  BY <1>2 DEF PutSpindle
<1>3. ASSUME NEW r \in Repo, NEW u \in User, Invite(r, u) PROVE UNCHANGED pos
  BY <1>3 DEF Invite
<1>4. ASSUME NEW r \in Repo, NEW u \in User, NEW s \in Spindle,
             AddSecret(s, r, u) \/ RemoveSecret(s, r, u)
      PROVE  UNCHANGED pos
  BY <1>4 DEF AddSecret, RemoveSecret
<1>5. ASSUME NEW s \in Spindle, NEW u \in User, NEW in \in BOOLEAN, SetMember(s, u, in)
      PROVE  UNCHANGED pos
  BY <1>5 DEF SetMember
<1>6. ASSUME NEW s \in Spindle, StartWorkflows(s) \/ Restart(s) PROVE UNCHANGED <<accessVars, pos>>
  BY <1>6 DEF StartWorkflows, Restart
<1>7. ASSUME NEW r \in Repo, NEW u \in User, NEW p \in Push, PostReceiveHook(r, u, p)
      PROVE  UNCHANGED <<accessVars, pos>>
  BY <1>7 DEF PostReceiveHook
<1>8. ASSUME NEW s \in Spindle, NEW i \in DOMAIN events, HandleKnotEvent(s, i)
      PROVE  UNCHANGED <<accessVars, pos>>
  BY <1>8 DEF HandleKnotEvent
<1>9. ASSUME NEW s \in Spindle, NEW i, NEW name, NEW kind, FinishWorkflow(s, i, name, kind)
      PROVE  UNCHANGED <<accessVars, pos>>
  BY <1>9 DEF FinishWorkflow
<1>10. ASSUME NEW r \in Repo, NEW i, NEW name, Cancel(r, i, name) PROVE UNCHANGED <<accessVars, pos>>
  BY <1>10 DEF Cancel
<1>11. ASSUME NEW i, knotIngester(i) \/ ingestPipelineStatus(i) PROVE UNCHANGED <<accessVars, pos>>
  BY <1>11 DEF knotIngester, ingestPipelineStatus
<1>12. CASE Tick
  BY <1>12 DEF Tick
<1> USE DEF accessVars
<1> HIDE DEF accessVars, pdsVars, ingestVars
<1> QED
  BY <1>1, <1>2, <1>3, <1>4, <1>5, <1>6, <1>7, <1>8, <1>9, <1>10, <1>11, <1>12 DEF Next

(* Who changes none of them keeps them in order.                           *)
LEMMA AccessSame ==
  ASSUME Access, UNCHANGED accessVars
  PROVE  Access'
  BY DEF Access, accessVars, SecretsByInvited

(* Every step keeps the records, the policies and the secrets in order.    *)
LEMMA AccessStep == Access /\ Positions /\ [Next]_vars => Access' /\ Positions'
<1> SUFFICES ASSUME Access, Positions, [Next]_vars PROVE Access' /\ Positions'
  OBVIOUS
<1>1. CASE UNCHANGED <<accessVars, pos>>
  BY <1>1, AccessSame DEF Positions
<1>2. CASE UNCHANGED vars
  BY <1>1, <1>2 DEF vars, accessVars, pdsVars, ingestVars
<1>3. ASSUME NEW s \in Spindle, Ingest(s) PROVE Access' /\ Positions'
  <2>1. pos[s] \in Nat /\ pos' = [pos EXCEPT ![s] = @ + 1]
    BY <1>3 DEF Positions, Ingest
  <2>2. Positions'
    BY <2>1 DEF Positions
  <2> QED BY <1>3, <2>1, <2>2, IngestAccess
<1> QED
  BY <1>1, <1>2, <1>3, AccessFrame, PutSpindleAccess, InviteAccess, SetMemberAccess, AddSecretAccess
  DEF Positions

(* They start in order: a spindle starts with rules of its own only.       *)
LEMMA InitAccess == Init => Access /\ Positions
<1> SUFFICES ASSUME Init PROVE Access /\ Positions
  OBVIOUS
<1>1. /\ collabs = {} /\ fire = << >> /\ named = {}
      /\ watched = [s \in Spindle |-> {}] /\ secrets = [s \in Spindle |-> [r \in Repo |-> None]]
      /\ pos = [s \in Spindle |-> 0]
      /\ pol = [s \in Spindle |->
                  [InitPolicies EXCEPT !.g = @ \cup
                     {<<RepoOwner[r], Member, SpindleDom>> : r \in Repo}]]
  BY DEF Init
<1>2. fire \in Seq(FireEvent) /\ Len(fire) = 0
  BY <1>1
<1>3. IsPolicy(InitPolicies) /\ InitPolicies.p = serverPolicies(SpindleDom)
  <2>1. IsPolicy(NoPolicies) /\ NoPolicies.p = {}
    BY DEF IsPolicy, NoPolicies
  <2>2. \A p, rules : IsPolicy(p) =>
          LET q == [p EXCEPT !.p = @ \cup rules] IN IsPolicy(q) /\ q.p = p.p \cup rules
    BY DEF IsPolicy
  <2>3. \A p, g : IsPolicy(p) =>
          LET q == [p EXCEPT !.g = @ \cup g] IN IsPolicy(q) /\ q.p = p.p
    BY DEF IsPolicy
  <2> DEFINE p1 == AddServer(NoPolicies, SpindleDom)
  <2>4. IsPolicy(p1) /\ p1.p = serverPolicies(SpindleDom)
    <3> DEFINE rules == serverPolicies(SpindleDom)
               p0 == [NoPolicies EXCEPT !.p = @ \cup rules]
    <3>1. AddPolicies(NoPolicies, rules) = p0
      <4> HIDE DEF rules
      <4> QED BY <2>1 DEF AddPolicies
    <3>2. IsPolicy(p0) /\ p0.p = rules
      <4> HIDE DEF rules
      <4> QED BY <2>1, <2>2
    <3> HIDE DEF p0, rules
    <3> QED BY <2>3, <3>1, <3>2 DEF AddServer, AddGroupingPolicy, rules
  <2> HIDE DEF p1
  <2> QED BY <2>3, <2>4 DEF InitPolicies, AddOwner, AddGroupingPolicy, p1
<1>4. ASSUME NEW rule \in serverPolicies(SpindleDom), NEW s PROVE RuleOK(rule, s, named, collabs)
  BY DEF serverPolicies, SpindleDom, RuleOK
<1>5. ASSUME NEW s \in Spindle PROVE PolicyOK(pol[s], s, named, collabs)
  <2> DEFINE members == {<<RepoOwner[r], Member, SpindleDom>> : r \in Repo}
  <2>a. pol[s] = [InitPolicies EXCEPT !.g = @ \cup members]
    BY <1>1
  <2>b. \A p, m : IsPolicy(p) =>
          LET q == [p EXCEPT !.g = @ \cup m] IN IsPolicy(q) /\ q.p = p.p
    BY DEF IsPolicy
  <2>1. IsPolicy(pol[s]) /\ pol[s].p = InitPolicies.p
    <3> HIDE DEF members
    <3> QED BY <1>3, <2>a, <2>b
  <2> QED BY <1>3, <1>4, <2>1 DEF PolicyOK
<1>6. SecretsByInvited
  BY <1>1 DEF SecretsByInvited
<1>7. Positions /\ DOMAIN pol = Spindle /\ watched \in [Spindle -> SUBSET Repo]
      /\ secrets \in [Spindle -> [Repo -> User \cup {None}]]
  BY <1>1 DEF Positions
<1> QED
  BY <1>1, <1>2, <1>5, <1>6, <1>7 DEF Access

(***************************************************************************)
(* The compiler.                                                           *)
(***************************************************************************)

(* A set of natural numbers has a least element, *)
LEMMA NatMin ==
  ASSUME NEW T \in SUBSET Nat, T # {}
  PROVE  \E m \in T : \A k \in T : m <= k
<1> DEFINE R == OpToRel(<, Nat)
<1>1. IsWellFoundedOn(R, Nat)
  BY NatLessThanWellFounded
<1> HIDE DEF R
<1>2. PICK m \in T : \A y \in T : <<y, m>> \notin R
  BY <1>1, WFMin
<1>3. \A y \in T : ~ (y < m)
  BY <1>2 DEF OpToRel, R
<1> QED
  BY <1>3

(* and Min is in it. *)
LEMMA MinIn ==
  ASSUME NEW T \in SUBSET Nat, T # {}
  PROVE  Min(T) \in T /\ \A k \in T : Min(T) <= k
<1>1. \E m \in T : \A k \in T : m <= k
  BY NatMin
<1> QED BY <1>1 DEF Min

(* Constraints over the texts N. *)
Constraints(N) == [event : SUBSET N, branch : Seq(SUBSET N), tag : Seq(SUBSET N)]

(* A pattern that matched has the name. *)
LEMMA MatchedPattern ==
  ASSUME NEW N, NEW name, NEW q \in Seq(SUBSET N), matchesPattern(name, q) = "yes"
  PROVE  name \in UNION Range(q)
<1> DEFINE Answer_(p) == IF p = BadPattern THEN "error" ELSE IF name \in p THEN "yes" ELSE "no"
           T == {i \in DOMAIN q : Answer_(q[i]) # "no"}
<1>1. T \in SUBSET Nat
  OBVIOUS
<1>2. T # {} /\ Answer_(q[Min(T)]) = "yes"
  BY DEF matchesPattern, FirstAnswer
<1>3. Min(T) \in T
  <2> HIDE DEF T
  <2> QED BY <1>1, <1>2, MinIn
<1>4. PICK i \in DOMAIN q : Answer_(q[i]) = "yes"
  BY <1>2, <1>3
<1>5. name \in q[i] /\ q[i] \in Range(q)
  BY <1>4 DEF Range
<1> QED
  BY <1>5

(* A constraint that matched names the event, and a branch or a tag.       *)
LEMMA MatchedConstraint ==
  ASSUME NEW N, NEW c \in Constraints(N), NEW t, MatchConstraint(c, t) \notin {"no", "error"}
  PROVE  /\ t.kind \in c.event
         /\ \/ t.type = "branch" /\ t.name \in UNION Range(c.branch)
            \/ t.type = "tag" /\ t.name \in UNION Range(c.tag)
<1>1. \A q : matchesPattern(t.name, q) \in {"yes", "no", "error"}
  BY DEF matchesPattern, FirstAnswer
<1>2. MatchRef(c, t) = "yes" /\ t.kind \in c.event
  BY <1>1 DEF MatchConstraint, MatchRef
<1>3. \/ t.type = "branch" /\ matchesPattern(t.name, c.branch) = "yes"
      \/ t.type = "tag" /\ matchesPattern(t.name, c.tag) = "yes"
  BY <1>2 DEF MatchRef
<1>4. c.branch \in Seq(SUBSET N) /\ c.tag \in Seq(SUBSET N)
  BY DEF Constraints
<1> QED
  BY <1>2, <1>3, <1>4, MatchedPattern

(* What Compile runs of a push asks to run on it. *)
LEMMA CompiledIsWanted ==
  ASSUME NEW p \in Push, NEW f \in p.files, f.parses, compileWorkflow(f, p.trigger) = "compiled"
  PROVE  Wanted(f, p)
<1> DEFINE t == p.trigger
           T == {i \in DOMAIN f.when : MatchConstraint(f.when[i], t) # "no"}
<1>1. t.kind = "push" /\ f.when \in Seq(Constraints(STRING))
  BY PushAssumption DEF Constraints
<1>2. f.engine # "" /\ Match(f, t) \notin {"no", "error"}
  BY DEF compileWorkflow
<1>3. CASE f.when = <<>>
  BY <1>2, <1>3 DEF Wanted
<1>4. CASE f.when # <<>>
  <2>1. T # {} /\ MatchConstraint(f.when[Min(T)], t) \notin {"no", "error"}
    BY <1>1, <1>2, <1>4 DEF Match, FirstAnswer
  <2>2. T \in SUBSET Nat
    BY <1>1
  <2>3. Min(T) \in T
    <3> HIDE DEF T
    <3> QED BY <2>1, <2>2, MinIn
  <2>4. PICK i \in DOMAIN f.when : MatchConstraint(f.when[i], t) \notin {"no", "error"}
    BY <2>1, <2>3
  <2>5. f.when[i] \in Constraints(STRING) /\ f.when[i] \in Range(f.when)
    BY <1>1 DEF Range
  <2> HIDE DEF t
  <2>6. /\ t.kind \in f.when[i].event
        /\ \/ t.type = "branch" /\ t.name \in UNION Range(f.when[i].branch)
           \/ t.type = "tag" /\ t.name \in UNION Range(f.when[i].tag)
    BY <2>4, <2>5, MatchedConstraint
  <2> QED BY <1>2, <2>5, <2>6 DEF Wanted, t
<1> QED
  BY <1>3, <1>4

(***************************************************************************)
(* Events, jobs and statuses.                                              *)
(***************************************************************************)
AWorkflow ==
  {[name |-> f.name, engine |-> f.engine, raw |-> f.raw] : f \in UNION {p.files : p \in Push}}

AnyEvent ==
  [kind : {"refUpdate"}, repo : Repo, by : User, push : Push]
  \cup [kind : {"pipeline"}, repo : Repo, by : User, push : Push, workflows : SUBSET AWorkflow]

(* An event tells of a push somebody was allowed to make; a pipeline is    *)
(* what the compiler makes of its files.                                   *)
AnEvent ==
  {e \in AnyEvent :
     /\ e.by \in MayPush[e.repo]
     /\ e.kind = "pipeline" =>
          /\ ~e.push.skipCi
          /\ e.workflows = Compile(e.push.files, e.push.trigger).workflows}

AStatus ==
  [spindle : Spindle, pipeline : Nat, workflow : Name, status : StatusKind, created : Nat]

IsPipeline(i, ev) == i \in 1..Len(ev) /\ ev[i].kind = "pipeline"

(* A status is of a workflow of a pipeline, or a cancellation, and comes   *)
(* from a spindle that the repository's record has named.                  *)
StatusOK(st, ev, nm) ==
  /\ IsPipeline(st.pipeline, ev)
  /\ <<ev[st.pipeline].repo, st.spindle>> \in nm
  /\ st.status = "cancelled" \/ \E w \in ev[st.pipeline].workflows : w.name = st.workflow

(* Statuses are in the order of their seconds. *)
StatusesOK(sts, ev, nm, now) ==
  /\ sts \in Seq(AStatus)
  /\ \A k \in 1..Len(sts) : StatusOK(sts[k], ev, nm) /\ sts[k].created <= now
  /\ \A j, k \in 1..Len(sts) : j <= k => sts[j].created <= sts[k].created

(* Work of a spindle: pipelines of repositories it watches. *)
Due(s, i, ev, wt) == IsPipeline(i, ev) /\ ev[i].repo \in wt[s]

KnownOf(e) == {w.name : w \in {x \in e.workflows : x.engine \in Engine}}

JobsOK(jb, ev, wt) ==
  \A s \in Spindle : jb[s] \in Seq(Nat) /\ \A j \in 1..Len(jb[s]) : Due(s, jb[s][j], ev, wt)

RunsOK(rn, ev, wt) ==
  \A s \in Spindle : \A x \in rn[s] :
    /\ x = <<x[1], x[2]>> /\ Due(s, x[1], ev, wt)
    /\ x[2] \in KnownOf(ev[x[1]])

Grows(ev, ev2) ==
  /\ Len(ev) \in Nat /\ Len(ev2) \in Nat /\ Len(ev) <= Len(ev2)
  /\ \A i \in 1..Len(ev) : ev2[i] = ev[i]

(* The workflows of known engines, in the model and as an operator.        *)
LEMMA KnownIs == \A i : Known(i) = KnownOf(events[i])
  BY DEF Known, KnownOf

(* The pipeline events are those of the log that say so.                   *)
LEMMA PipelinesAre == events \in Seq(AnEvent) => \A i : i \in PipelineEvents <=> IsPipeline(i, events)
  BY DEF PipelineEvents, IsPipeline

(* The log only grows, and so does what explains a status or a job. *)
LEMMA MoreEvents ==
  ASSUME NEW ev, NEW ev2, Grows(ev, ev2), NEW nm, NEW nm2, nm \subseteq nm2,
         NEW wt, NEW wt2, \A s \in Spindle : wt[s] \subseteq wt2[s]
  PROVE  /\ \A i : IsPipeline(i, ev) => IsPipeline(i, ev2) /\ ev2[i] = ev[i]
         /\ \A st : StatusOK(st, ev, nm) => StatusOK(st, ev2, nm2)
         /\ \A s \in Spindle : \A i : Due(s, i, ev, wt) => Due(s, i, ev2, wt2)
         /\ \A sts : \A n \in Nat, n2 \in Nat :
              n <= n2 /\ StatusesOK(sts, ev, nm, n) => StatusesOK(sts, ev2, nm2, n2)
         /\ \A jb : JobsOK(jb, ev, wt) => JobsOK(jb, ev2, wt2)
         /\ \A rn : RunsOK(rn, ev, wt) => RunsOK(rn, ev2, wt2)
<1>1. \A i : IsPipeline(i, ev) => IsPipeline(i, ev2) /\ ev2[i] = ev[i]
  BY DEF Grows, IsPipeline
<1>2. \A st : StatusOK(st, ev, nm) => StatusOK(st, ev2, nm2)
  BY <1>1 DEF StatusOK
<1>3. \A s \in Spindle : \A i : Due(s, i, ev, wt) => Due(s, i, ev2, wt2)
  BY <1>1 DEF Due
<1>4. ASSUME NEW sts, NEW n \in Nat, NEW n2 \in Nat, n <= n2, StatusesOK(sts, ev, nm, n)
      PROVE  StatusesOK(sts, ev2, nm2, n2)
  <2>1. \A k \in 1..Len(sts) : StatusOK(sts[k], ev2, nm2)
    BY <1>2, <1>4 DEF StatusesOK
  <2>2. ASSUME NEW k \in 1..Len(sts) PROVE sts[k].created <= n2
    <3>1. sts[k] \in AStatus /\ sts[k].created <= n
      BY <1>4 DEF StatusesOK
    <3>2. sts[k].created \in Nat
      BY <3>1 DEF AStatus
    <3> QED BY <1>4, <3>1, <3>2
  <2> QED BY <1>4, <2>1, <2>2 DEF StatusesOK
<1>5. \A jb : JobsOK(jb, ev, wt) => JobsOK(jb, ev2, wt2)
  BY <1>3 DEF JobsOK
<1>6. ASSUME NEW rn, RunsOK(rn, ev, wt) PROVE RunsOK(rn, ev2, wt2)
  <2> SUFFICES ASSUME NEW s \in Spindle, NEW x \in rn[s]
               PROVE  x = <<x[1], x[2]>> /\ Due(s, x[1], ev2, wt2) /\ x[2] \in KnownOf(ev2[x[1]])
    BY DEF RunsOK
  <2>1. x = <<x[1], x[2]>> /\ Due(s, x[1], ev, wt) /\ x[2] \in KnownOf(ev[x[1]])
    BY <1>6 DEF RunsOK
  <2>2. ev2[x[1]] = ev[x[1]]
    BY <1>1, <2>1 DEF Due
  <2> QED BY <1>3, <2>1, <2>2
<1> QED
  BY <1>1, <1>2, <1>3, <1>4, <1>5, <1>6

(* The statuses stay explained when the log grows,                         *)
LEMMA MoreStatuses ==
  ASSUME NEW ev, NEW ev2, Grows(ev, ev2), NEW nm, NEW sts, NEW n \in Nat, StatusesOK(sts, ev, nm, n)
  PROVE  StatusesOK(sts, ev2, nm, n)
<1>1. PICK nm2, wt, wt2 : nm2 = nm /\ nm \subseteq nm2 /\ \A s \in Spindle : wt[s] \subseteq wt2[s]
  <2> DEFINE w == [s \in Spindle |-> {}]
  <2> WITNESS nm, w, w
  <2> QED OBVIOUS
<1>2. \A n1 \in Nat, n2 \in Nat :
        n1 <= n2 /\ StatusesOK(sts, ev, nm, n1) => StatusesOK(sts, ev2, nm2, n2)
  BY <1>1, MoreEvents
<1> QED
  BY <1>1, <1>2

(* and so do the jobs and the runs.                                        *)
LEMMA MoreWork ==
  ASSUME NEW ev, NEW ev2, Grows(ev, ev2), NEW wt
  PROVE  /\ \A jb : JobsOK(jb, ev, wt) => JobsOK(jb, ev2, wt)
         /\ \A rn : RunsOK(rn, ev, wt) => RunsOK(rn, ev2, wt)
         /\ \A s \in Spindle : \A i : Due(s, i, ev, wt) => Due(s, i, ev2, wt)
         /\ \A i : IsPipeline(i, ev) => IsPipeline(i, ev2) /\ ev2[i] = ev[i]
<1>1. PICK wt2 : wt2 = wt /\ \A s \in Spindle : wt[s] \subseteq wt2[s]
  OBVIOUS
<1>2. PICK nm, nm2 : nm \subseteq nm2
  <2> WITNESS {}, {}
  <2> QED OBVIOUS
<1> QED
  BY <1>1, <1>2, MoreEvents

(* Two lists one after the other. *)
LEMMA ConcatFacts ==
  ASSUME NEW S, NEW q \in Seq(S), NEW t \in Seq(S)
  PROVE  LET v == q \o t
         IN  /\ v \in Seq(S) /\ Len(v) = Len(q) + Len(t) /\ Len(q) \in Nat /\ Len(t) \in Nat
             /\ \A i \in 1..Len(v) : v[i] = IF i <= Len(q) THEN q[i] ELSE t[i - Len(q)]
             /\ \A i \in 1..Len(q) : v[i] = q[i]
             /\ \A i \in 1..Len(t) : v[Len(q) + i] = t[i]
  OBVIOUS

(* Statuses of the present are added. *)
LEMMA AppendStatuses ==
  ASSUME NEW sts, NEW ev, NEW nm, NEW now \in Nat, StatusesOK(sts, ev, nm, now),
         NEW q \in Seq(AStatus), \A k \in 1..Len(q) : StatusOK(q[k], ev, nm) /\ q[k].created = now
  PROVE  StatusesOK(sts \o q, ev, nm, now)
<1> DEFINE v == sts \o q
<1>1. /\ v \in Seq(AStatus) /\ Len(v) = Len(sts) + Len(q) /\ Len(sts) \in Nat /\ Len(q) \in Nat
      /\ \A i \in 1..Len(v) : v[i] = IF i <= Len(sts) THEN sts[i] ELSE q[i - Len(sts)]
  BY ConcatFacts DEF StatusesOK
<1> HIDE DEF v
<1>2. ASSUME NEW k \in 1..Len(v)
      PROVE  \/ k \in 1..Len(sts) /\ v[k] = sts[k]
             \/ ~(k <= Len(sts)) /\ \E i \in 1..Len(q) : v[k] = q[i]
  <2>1. CASE k <= Len(sts)
    BY <1>1, <2>1
  <2>2. CASE ~ (k <= Len(sts))
    <3>1. k - Len(sts) \in 1..Len(q)
      BY <1>1, <2>2
    <3> QED BY <1>1, <2>2, <3>1
  <2> QED BY <2>1, <2>2
<1>3. \A k \in 1..Len(v) : StatusOK(v[k], ev, nm) /\ v[k].created <= now
  BY <1>2 DEF StatusesOK
<1>4. ASSUME NEW j \in 1..Len(v), NEW k \in 1..Len(v), j <= k PROVE v[j].created <= v[k].created
  <2>1. CASE k <= Len(sts)
    <3>1. j \in 1..Len(sts) /\ k \in 1..Len(sts) /\ v[j] = sts[j] /\ v[k] = sts[k]
      BY <1>1, <1>4, <2>1
    <3> QED BY <1>4, <3>1 DEF StatusesOK
  <2>2. CASE ~ (k <= Len(sts))
    BY <1>2, <1>3, <2>2
  <2> QED BY <2>1, <2>2
<1> QED
  BY <1>1, <1>3, <1>4 DEF StatusesOK, v

(* The languages of a branch are those of one push the appview has read of. *)
LangsOK(lg, sn, ev) ==
  /\ DOMAIN lg = Repo \X {p.trigger.name : p \in Push}
  /\ \A x \in DOMAIN lg :
       lg[x] # {} =>
         \E i \in sn : /\ ev[i].kind = "refUpdate" /\ ev[i].repo = x[1]
                       /\ ev[i].push.trigger.name = x[2]
                       /\ ev[i].push.langs = lg[x]

RowsOK(rw, sts) == rw \in Seq(Nat) /\ \A a \in 1..Len(rw) : rw[a] \in 1..Len(sts)

Work ==
  /\ events \in Seq(AnEvent) /\ second \in Nat
  /\ StatusesOK(statuses, events, named, second)
  /\ DOMAIN jobs = Spindle /\ JobsOK(jobs, events, watched)
  /\ DOMAIN runs = Spindle /\ RunsOK(runs, events, watched)
  /\ row \in [Repo -> Spindle \cup {None}]
  /\ editing \subseteq Repo \X (Spindle \cup {None})
  /\ seen \subseteq 1..Len(events)
  /\ \A i \in pipelines : IsPipeline(i, events)
  /\ LangsOK(langs, seen, events)
  /\ RowsOK(rows, statuses)

(* Other steps of the appview, of the PDS and of the spindles' ingesters,  *)
(* and of the clock.                                                       *)
Elsewhere ==
  /\ UNCHANGED <<jobVars, events, ready, appVars>>
  /\ named \subseteq named' /\ row' \in [Repo -> Spindle \cup {None}]
  /\ editing' \subseteq Repo \X (Spindle \cup {None})
  /\ second' \in Nat /\ second <= second'
  /\ \A s \in Spindle : watched[s] \subseteq watched'[s]
  /\ \A s \in Spindle : since'[s] = since[s] \/ (since[s] = None /\ since'[s] = Len(events) + 1)
  /\ DOMAIN since' = Spindle

ElsewhereStep ==
  \/ \E r \in Repo, s \in Spindle \cup {None} : EditSpindle(r, s) \/ PutSpindle(r, s) \/ PutSpindleFails(r, s)
  \/ \E r \in Repo, u \in User : Invite(r, u) \/ \E s \in Spindle : AddSecret(s, r, u) \/ RemoveSecret(s, r, u)
  \/ \E s \in Spindle, u \in User, in \in BOOLEAN : SetMember(s, u, in)
  \/ \E s \in Spindle : Ingest(s)
  \/ Tick
  \/ UNCHANGED vars

(* The steps named above are such steps.                                   *)
LEMMA ElsewhereIs ==
  ASSUME Access, Positions, Work, DOMAIN since = Spindle, ElsewhereStep
  PROVE  Elsewhere
<1> USE DEF jobVars, appVars, ingestVars, pdsVars, appEditVars
<1>0. /\ row \in [Repo -> Spindle \cup {None}] /\ second \in Nat
      /\ editing \subseteq Repo \X (Spindle \cup {None})
      /\ watched \in [Spindle -> SUBSET Repo]
  BY DEF Access, Work
<1>1. ASSUME NEW r \in Repo, NEW s \in Spindle \cup {None}, EditSpindle(r, s) PROVE Elsewhere
  BY <1>0, <1>1 DEF EditSpindle, Elsewhere
<1>2. ASSUME NEW r \in Repo, NEW s \in Spindle \cup {None}, PutSpindle(r, s) PROVE Elsewhere
  BY <1>0, <1>2 DEF PutSpindle, Elsewhere
<1>3. ASSUME NEW r \in Repo, NEW s \in Spindle \cup {None}, PutSpindleFails(r, s) PROVE Elsewhere
  BY <1>0, <1>3 DEF PutSpindleFails, Elsewhere
<1>4. ASSUME NEW r \in Repo, NEW u \in User, Invite(r, u) PROVE Elsewhere
  BY <1>0, <1>4 DEF Invite, Elsewhere
<1>5. ASSUME NEW r \in Repo, NEW u \in User, NEW s \in Spindle,
             AddSecret(s, r, u) \/ RemoveSecret(s, r, u)
      PROVE  Elsewhere
  BY <1>0, <1>5 DEF AddSecret, RemoveSecret, Elsewhere
<1>6. ASSUME NEW s \in Spindle, NEW u \in User, NEW in \in BOOLEAN, SetMember(s, u, in)
      PROVE  Elsewhere
  BY <1>0, <1>6 DEF SetMember, Elsewhere
<1>7. ASSUME NEW s \in Spindle, Ingest(s) PROVE Elsewhere
  <2>1. UNCHANGED <<jobVars, events, ready, appVars, named, row, editing, second>>
    BY <1>7 DEF Ingest
  <2> DEFINE e == fire[pos[s] + 1]
  <2>2. \/ UNCHANGED <<watched, since>>
        \/ ingestRepo(s, e)
    BY <1>7 DEF Ingest, ingestMember, ingestCollaborator
  <2> HIDE DEF e
  <2>3. /\ \A t \in Spindle : watched[t] \subseteq watched'[t]
        /\ \A t \in Spindle : since'[t] = since[t] \/ (since[t] = None /\ since'[t] = Len(events) + 1)
        /\ DOMAIN since' = Spindle
    <3>1. CASE UNCHANGED <<watched, since>>
      BY <3>1
    <3>2. CASE ingestRepo(s, e)
      <4>1. \/ UNCHANGED watched
            \/ watched' = [watched EXCEPT ![s] = @ \cup {e.repo}]
        BY <3>2 DEF ingestRepo
      <4>2. \/ UNCHANGED since
            \/ since' = [since EXCEPT ![s] = IF @ = None THEN Len(events) + 1 ELSE @]
        BY <3>2 DEF ingestRepo
      <4> QED BY <1>0, <4>1, <4>2
    <3> QED BY <2>2, <3>1, <3>2
  <2> QED BY <1>0, <2>1, <2>3 DEF Elsewhere
<1>8. CASE Tick
  BY <1>0, <1>8 DEF Tick, Elsewhere
<1>9. CASE UNCHANGED vars
  BY <1>0, <1>9 DEF vars, Elsewhere
<1> QED
  BY <1>1, <1>2, <1>3, <1>4, <1>5, <1>6, <1>7, <1>8, <1>9 DEF ElsewhereStep

(* They keep events, statuses and jobs in order.                           *)
LEMMA ElsewhereWork ==
  ASSUME Work, Elsewhere
  PROVE  Work'
<1>1. UNCHANGED <<jobs, runs, statuses, events, seen, pipelines, langs, rows>>
  BY DEF Elsewhere, jobVars, appVars
<1>2. Grows(events, events)
  BY DEF Work, Grows
<1>3. /\ StatusesOK(statuses, events, named', second')
      /\ JobsOK(jobs, events, watched') /\ RunsOK(runs, events, watched')
  <2>1. /\ named \subseteq named' /\ \A s \in Spindle : watched[s] \subseteq watched'[s]
        /\ second \in Nat /\ second' \in Nat /\ second <= second'
    BY DEF Work, Elsewhere
  <2>2. /\ StatusesOK(statuses, events, named, second)
        /\ JobsOK(jobs, events, watched) /\ RunsOK(runs, events, watched)
    BY DEF Work
  <2>3. /\ \A sts : \A n \in Nat, n2 \in Nat :
              n <= n2 /\ StatusesOK(sts, events, named, n) => StatusesOK(sts, events, named', n2)
        /\ \A jb : JobsOK(jb, events, watched) => JobsOK(jb, events, watched')
        /\ \A rn : RunsOK(rn, events, watched) => RunsOK(rn, events, watched')
    BY <1>2, <2>1, MoreEvents
  <2> QED BY <2>1, <2>2, <2>3
<1> QED
  BY <1>1, <1>3 DEF Work, Elsewhere

(***************************************************************************)
(* A push.                                                                 *)
(***************************************************************************)

(* What Compile runs are workflows of the files, finitely many. *)
LEMMA CompiledAre ==
  ASSUME NEW p \in Push
  PROVE  LET c == Compile(p.files, p.trigger).workflows
         IN  /\ c \subseteq AWorkflow /\ IsFiniteSet(c)
             /\ \A w \in c : w.name \in Name
                  /\ \E f \in p.files : f.name = w.name /\ f.parses /\ compileWorkflow(f, p.trigger) = "compiled"
<1> DEFINE T == {f \in p.files : f.parses /\ compileWorkflow(f, p.trigger) = "compiled"}
           Of(f) == [name |-> f.name, engine |-> f.engine, raw |-> f.raw]
           c == Compile(p.files, p.trigger).workflows
<1>1. c = {Of(f) : f \in T}
  BY DEF Compile, Parsed
<1>2. T \in SUBSET p.files /\ IsFiniteSet(p.files)
  BY PushAssumption
<1>3. IsFiniteSet(T)
  BY <1>2, FS_Subset
<1> HIDE DEF c
<1>4. IsFiniteSet(c)
  <2> DEFINE g == [f \in T |-> Of(f)]
  <2>1. g \in Surjection(T, c)
    <3>1. g \in [T -> c] /\ \A w \in c : \E f \in T : g[f] = w
      BY <1>1
    <3> HIDE DEF g, T
    <3> QED BY <3>1, Fun_IsSurj
  <2> HIDE DEF g, T
  <2> QED BY <1>3, <2>1, FS_Surjection
<1>5. c \subseteq AWorkflow
  BY <1>1, <1>2 DEF AWorkflow
<1>6. ASSUME NEW w \in c
      PROVE  w.name \in Name /\ \E f \in p.files : f.name = w.name /\ f.parses /\ compileWorkflow(f, p.trigger) = "compiled"
  <2>1. PICK f \in T : w = Of(f)
    BY <1>1
  <2>2. f \in p.files /\ w.name = f.name
    BY <2>1
  <2> QED BY <2>1, <2>2 DEF Name
<1> QED
  BY <1>4, <1>5, <1>6 DEF c

(* What an event of the log tells.                                         *)
LEMMA EventFacts ==
  ASSUME NEW e \in AnEvent
  PROVE  /\ e.kind \in {"refUpdate", "pipeline"} /\ e.repo \in Repo /\ e.by \in MayPush[e.repo]
         /\ e.push \in Push
         /\ e.kind = "pipeline" =>
              /\ ~e.push.skipCi /\ e.workflows \subseteq AWorkflow /\ IsFiniteSet(e.workflows)
              /\ \A w \in e.workflows :
                   w.name \in Name /\ \E f \in e.push.files : f.name = w.name /\ Wanted(f, e.push)
<1>1. /\ e.kind \in {"refUpdate", "pipeline"} /\ e.repo \in Repo /\ e.by \in MayPush[e.repo]
      /\ e.push \in Push
  BY DEF AnEvent, AnyEvent
<1>2. e.kind = "pipeline" =>
        ~e.push.skipCi /\ e.workflows = Compile(e.push.files, e.push.trigger).workflows
  BY DEF AnEvent
<1>3. ASSUME NEW p \in Push, NEW w \in Compile(p.files, p.trigger).workflows
      PROVE  w.name \in Name /\ \E f \in p.files : f.name = w.name /\ Wanted(f, p)
  <2>1. w.name \in Name /\ \E f \in p.files : f.name = w.name /\ f.parses /\ compileWorkflow(f, p.trigger) = "compiled"
    BY CompiledAre
  <2>2. PICK f \in p.files : f.name = w.name /\ f.parses /\ compileWorkflow(f, p.trigger) = "compiled"
    BY <2>1
  <2>3. Wanted(f, p)
    BY <2>2, CompiledIsWanted
  <2> QED BY <2>1, <2>2, <2>3
<1> QED
  BY <1>1, <1>2, <1>3, CompiledAre

(* A push adds events of its own repository to the log.                    *)
LEMMA PushedEvents ==
  ASSUME Work, NEW r \in Repo, NEW u \in User, NEW p \in Push, PostReceiveHook(r, u, p)
  PROVE  /\ events' \in Seq(AnEvent) /\ Grows(events, events')
         /\ \A i \in 1..Len(events') : i > Len(events) => events'[i].repo = r
<1> DEFINE a == insertRefUpdate(r, u, p)
           b == triggerPipeline(r, u, p)
           c == Compile(p.files, p.trigger).workflows
           Fresh == {e \in AnEvent : e.repo = r}
<1>0. u \in MayPush[r] /\ events' = (events \o a) \o b /\ events \in Seq(AnEvent)
  BY DEF PostReceiveHook, Work
<1>1. a \in Seq(Fresh)
  <2>1. CASE ~p.exists
    BY <2>1 DEF insertRefUpdate
  <2>2. CASE p.exists
    <3> DEFINE e == [kind |-> "refUpdate", repo |-> r, by |-> u, push |-> p]
    <3>1. a = <<e>>
      BY <2>2 DEF insertRefUpdate
    <3>2. e \in Fresh
      BY <1>0 DEF AnEvent, AnyEvent
    <3> HIDE DEF e
    <3> QED BY <3>1, <3>2
  <2> QED BY <2>1, <2>2
<1>2. b \in Seq(Fresh)
  <2>1. CASE p.skipCi \/ ~p.exists \/ c = {}
    BY <2>1 DEF triggerPipeline
  <2>2. CASE ~(p.skipCi \/ ~p.exists \/ c = {})
    <3> DEFINE e == [kind |-> "pipeline", repo |-> r, by |-> u, push |-> p, workflows |-> c]
    <3>1. b = <<e>>
      BY <2>2 DEF triggerPipeline
    <3>2. c \subseteq AWorkflow
      BY CompiledAre
    <3>3. e \in Fresh
      <4> HIDE DEF c
      <4>1. e \in AnyEvent
        BY <3>2 DEF AnyEvent
      <4> QED BY <1>0, <2>2, <4>1 DEF AnEvent, c
    <3> HIDE DEF e
    <3> QED BY <3>1, <3>3
  <2> QED BY <2>1, <2>2
<1> HIDE DEF a, b, c
<1>3. a \in Seq(AnEvent) /\ b \in Seq(AnEvent)
  BY <1>1, <1>2
<1> DEFINE v == events \o a
<1>4. /\ v \in Seq(AnEvent) /\ Len(v) = Len(events) + Len(a) /\ Len(events) \in Nat /\ Len(a) \in Nat
      /\ \A i \in 1..Len(v) : v[i] = IF i <= Len(events) THEN events[i] ELSE a[i - Len(events)]
  BY <1>0, <1>3, ConcatFacts
<1> HIDE DEF v
<1>5. /\ events' \in Seq(AnEvent) /\ Len(events') = Len(v) + Len(b) /\ Len(b) \in Nat
      /\ \A i \in 1..Len(events') : events'[i] = IF i <= Len(v) THEN v[i] ELSE b[i - Len(v)]
  BY <1>0, <1>3, <1>4, ConcatFacts DEF v
<1>6. Grows(events, events')
  BY <1>4, <1>5 DEF Grows
<1>7. ASSUME NEW i \in 1..Len(events'), i > Len(events) PROVE events'[i].repo = r
  <2>1. CASE i <= Len(v)
    <3>1. i - Len(events) \in 1..Len(a) /\ events'[i] = a[i - Len(events)]
      BY <1>4, <1>5, <1>7, <2>1
    <3> QED BY <1>1, <3>1
  <2>2. CASE ~ (i <= Len(v))
    <3>1. i - Len(v) \in 1..Len(b) /\ events'[i] = b[i - Len(v)]
      BY <1>4, <1>5, <1>7, <2>2
    <3> QED BY <1>2, <3>1
  <2> QED BY <2>1, <2>2
<1> QED
  BY <1>5, <1>6, <1>7

(* A push keeps events, statuses and jobs in order.                        *)
LEMMA PushWork ==
  ASSUME Work, NEW r \in Repo, NEW u \in User, NEW p \in Push, PostReceiveHook(r, u, p)
  PROVE  Work'
<1>1. UNCHANGED <<jobs, runs, statuses, second, named, watched, row, editing, seen, pipelines, langs, rows>>
  BY DEF PostReceiveHook, pdsVars, appEditVars, ingestVars, jobVars, appVars
<1>2. events' \in Seq(AnEvent) /\ Grows(events, events')
  BY PushedEvents
<1>3. second \in Nat /\ StatusesOK(statuses, events, named, second)
        /\ JobsOK(jobs, events, watched) /\ RunsOK(runs, events, watched)
        /\ \A i \in pipelines : IsPipeline(i, events)
  BY DEF Work
<1>5. /\ StatusesOK(statuses, events', named, second)
      /\ JobsOK(jobs, events', watched) /\ RunsOK(runs, events', watched)
      /\ \A i \in pipelines : IsPipeline(i, events')
  BY <1>2, <1>3, MoreStatuses, MoreWork
<1>6. seen \subseteq 1..Len(events) /\ seen \subseteq 1..Len(events')
  BY <1>2 DEF Work, Grows
<1>7. LangsOK(langs, seen, events')
  <2>1. LangsOK(langs, seen, events) /\ \A i \in seen : events'[i] = events[i]
    BY <1>2, <1>6 DEF Work, Grows
  <2> QED BY <2>1 DEF LangsOK
<1> QED
  BY <1>1, <1>2, <1>5, <1>6, <1>7 DEF Work

(***************************************************************************)
(* The spindle's queue and its statuses.                                   *)
(***************************************************************************)

(* Every way to enumerate a finite set lists all of it. *)
LEMMA Enumerated ==
  ASSUME NEW S, IsFiniteSet(S), NEW order \in SetToSeqs(S)
  PROVE  order \in Seq(S) /\ \A w \in S : \E k \in 1..Len(order) : order[k] = w
<1> DEFINE n == Cardinality(S)
<1>1. n \in Nat /\ IsFiniteSet(1..n) /\ Cardinality(1..n) = n
  BY FS_CardinalityType, FS_Interval
<1>2. order \in [1..n -> S] /\ \A j, k \in 1..n : j # k => order[j] # order[k]
  BY DEF SetToSeqs
<1> HIDE DEF n
<1>3. order \in Injection(1..n, S)
  BY <1>2, Fun_IsInj
<1>4. order \in Surjection(1..n, S)
  BY <1>1, <1>3, FS_Injection DEF n
<1>5. \A w \in S : \E k \in 1..n : order[k] = w
  BY <1>4 DEF Surjection
<1>6. order \in Seq(S) /\ Len(order) = n
  BY <1>1, <1>2
<1> QED
  BY <1>5, <1>6

(* And there is one.                                                       *)
LEMMA OneEnumeration ==
  ASSUME NEW S, IsFiniteSet(S)
  PROVE  SetToSeq(S) \in Seq(S)
<1> DEFINE n == Cardinality(S)
<1>1. n \in Nat /\ ExistsBijection(1..n, S)
  BY FS_CardinalityType
<1> HIDE DEF n
<1>2. PICK f : f \in Bijection(1..n, S)
  BY <1>1, Fun_ExistsBij
<1>3. f \in [1..n -> S] /\ \A a, b \in 1..n : f[a] = f[b] => a = b
  BY <1>2, Fun_BijectionProperties
<1>4. \E g \in [1..n -> S] : IsInjective(g)
  BY <1>3 DEF IsInjective
<1>5. SetToSeq(S) \in [1..n -> S]
  BY <1>4 DEF SetToSeq, n
<1> QED
  BY <1>1, <1>5

(* The workflows of known engines are finitely many of the pipeline.       *)
LEMMA KnownAre ==
  ASSUME NEW e \in AnEvent, e.kind = "pipeline"
  PROVE  /\ IsFiniteSet(KnownOf(e)) /\ KnownOf(e) \subseteq Name
         /\ \A name \in KnownOf(e) : \E w \in e.workflows : w.name = name
<1> DEFINE T == {w \in e.workflows : w.engine \in Engine}
           g == [w \in T |-> w.name]
           K == KnownOf(e)
<1>1. IsFiniteSet(e.workflows) /\ \A w \in e.workflows : w.name \in Name
  BY EventFacts
<1>2. IsFiniteSet(T)
  <2>1. T \in SUBSET e.workflows
    OBVIOUS
  <2> HIDE DEF T
  <2> QED BY <1>1, <2>1, FS_Subset
<1>3. g \in [T -> K] /\ \A name \in K : \E w \in T : g[w] = name
  BY DEF KnownOf
<1>4. IsFiniteSet(K)
  <2> HIDE DEF g, T, K
  <2>1. g \in Surjection(T, K)
    BY <1>3, Fun_IsSurj
  <2> QED BY <1>2, <2>1, FS_Surjection
<1>5. \A name \in K : \E w \in e.workflows : w.name = name
  BY DEF KnownOf
<1> HIDE DEF K
<1> QED
  BY <1>1, <1>4, <1>5 DEF K

(* The first statuses of a pipeline are of its workflows and of now; when  *)
(* the record was read to its end, workflows of unknown engines have       *)
(* failed.                                                                 *)
LEMMA FirstFacts ==
  ASSUME Work, NEW s \in Spindle, NEW i, IsPipeline(i, events), NEW order \in SetToSeqs(events[i].workflows)
  PROVE  LET first == FirstStatuses(s, i, order)
             W == events[i].workflows
         IN  /\ first \in Seq(AStatus)
             /\ \A k \in 1..Len(first) :
                  /\ first[k].spindle = s /\ first[k].pipeline = i /\ first[k].created = second
                  /\ \E w \in W : first[k].workflow = w.name
             /\ Len(first) = Len(order) =>
                  \A w \in W : w.engine \in Engine \/ \E k \in 1..Len(first) :
                                 first[k].workflow = w.name /\ first[k].status = "failed"
<1> DEFINE W == events[i].workflows
           bad == {k \in DOMAIN order : order[k].engine \in Engine /\ order[k].raw = "invalid"}
           until == IF bad = {} THEN Len(order) ELSE Min(bad) - 1
           first == FirstStatuses(s, i, order)
           St(k) == Status(s, i, order[k].name, IF order[k].engine \in Engine THEN "pending" ELSE "failed")
<1>1. events[i] \in AnEvent /\ events[i].kind = "pipeline" /\ i \in Nat /\ second \in Nat
  BY DEF IsPipeline, Work
<1>2. IsFiniteSet(W) /\ \A w \in W : w.name \in Name
  BY <1>1, EventFacts
<1> HIDE DEF W
<1>3. /\ order \in Seq(W) /\ \A w \in W : \E k \in 1..Len(order) : order[k] = w
  BY <1>2, Enumerated DEF W
<1>4. until \in Nat /\ until <= Len(order)
  <2>1. bad \in SUBSET (1..Len(order)) /\ Len(order) \in Nat
    BY <1>3
  <2>2. CASE bad # {}
    <3>1. Min(bad) \in bad
      <4> HIDE DEF bad
      <4> QED BY <2>1, <2>2, MinIn
    <3>2. Min(bad) \in 1..Len(order)
      <4> HIDE DEF bad
      <4> QED BY <2>1, <3>1
    <3>3. until = Min(bad) - 1
      BY <2>2
    <3> HIDE DEF bad, until
    <3> QED BY <2>1, <3>2, <3>3
  <2>3. CASE bad = {}
    <3>1. until = Len(order)
      BY <2>3
    <3> QED BY <2>1, <3>1
  <2> QED BY <2>2, <2>3
<1>5. first = [k \in 1..until |-> St(k)]
  BY DEF FirstStatuses
<1> HIDE DEF until, first
<1>6. ASSUME NEW k \in 1..until
      PROVE  /\ St(k) \in AStatus /\ St(k).spindle = s /\ St(k).pipeline = i /\ St(k).created = second
             /\ St(k).workflow = order[k].name /\ order[k] \in W
             /\ order[k].engine \notin Engine => St(k).status = "failed"
  <2>1. k \in 1..Len(order) /\ order[k] \in W
    BY <1>3, <1>4
  <2>2. order[k].name \in Name
    BY <1>2, <2>1
  <2> DEFINE kind == IF order[k].engine \in Engine THEN "pending" ELSE "failed"
  <2>3. kind \in StatusKind /\ (order[k].engine \notin Engine => kind = "failed")
    BY DEF StatusKind, FinishStates
  <2>4. St(k) = [spindle |-> s, pipeline |-> i, workflow |-> order[k].name, status |-> kind,
                 created |-> second]
    BY DEF Status
  <2> HIDE DEF kind, St
  <2> QED BY <1>1, <2>1, <2>2, <2>3, <2>4 DEF AStatus
<1> HIDE DEF St
<1>7. first \in Seq(AStatus) /\ Len(first) = until /\ \A k \in 1..until : first[k] = St(k)
  BY <1>4, <1>5, <1>6
<1>8. \A k \in 1..Len(first) :
        /\ first[k].spindle = s /\ first[k].pipeline = i /\ first[k].created = second
        /\ \E w \in W : first[k].workflow = w.name
  BY <1>6, <1>7
<1>9. ASSUME Len(first) = Len(order), NEW w \in W, w.engine \notin Engine
      PROVE  \E k \in 1..Len(first) : first[k].workflow = w.name /\ first[k].status = "failed"
  <2>1. PICK k \in 1..Len(order) : order[k] = w
    BY <1>3
  <2> QED BY <1>6, <1>7, <1>9, <2>1
<1> QED
  BY <1>7, <1>8, <1>9 DEF first, W

(* Statuses made now by a spindle the repository has named. *)
LEMMA EmitFacts ==
  ASSUME Work, NEW s \in Spindle, NEW i, IsPipeline(i, events), <<events[i].repo, s>> \in named,
         NEW names \in Seq(Name), NEW kind \in StatusKind,
         kind = "cancelled" \/ \A k \in 1..Len(names) : \E w \in events[i].workflows : w.name = names[k],
         Emit(s, i, names, kind)
  PROVE  /\ StatusesOK(statuses', events, named, second) /\ Grows(statuses, statuses')
         /\ \A k \in 1..Len(names) : \E j \in 1..Len(statuses') :
              /\ statuses'[j].spindle = s /\ statuses'[j].pipeline = i
              /\ statuses'[j].workflow = names[k] /\ statuses'[j].status = kind
<1> DEFINE q == [k \in DOMAIN names |-> Status(s, i, names[k], kind)]
<1>1. statuses' = statuses \o q
  BY DEF Emit
<1>2. i \in Nat /\ second \in Nat /\ StatusesOK(statuses, events, named, second) /\ statuses \in Seq(AStatus)
  <2>1. events \in Seq(AnEvent) /\ second \in Nat /\ StatusesOK(statuses, events, named, second)
    BY DEF Work
  <2>2. i \in 1..Len(events) /\ Len(events) \in Nat
    BY <2>1 DEF IsPipeline
  <2>3. i \in Nat
    BY ONLY <2>2
  <2>4. statuses \in Seq(AStatus)
    BY <2>1 DEF StatusesOK
  <2> QED BY <2>1, <2>3, <2>4
<1>3. \A k \in 1..Len(names) :
        /\ Status(s, i, names[k], kind) \in AStatus
        /\ Status(s, i, names[k], kind).spindle = s /\ Status(s, i, names[k], kind).pipeline = i
        /\ Status(s, i, names[k], kind).workflow = names[k] /\ Status(s, i, names[k], kind).status = kind
        /\ Status(s, i, names[k], kind).created = second
  BY <1>2 DEF Status, AStatus
<1>4. /\ q \in Seq(AStatus) /\ Len(q) = Len(names) /\ Len(names) \in Nat
      /\ \A k \in 1..Len(names) : q[k] = Status(s, i, names[k], kind)
  BY <1>3
<1> HIDE DEF q
<1>5. \A k \in 1..Len(q) : StatusOK(q[k], events, named) /\ q[k].created = second
  BY <1>3, <1>4 DEF StatusOK
<1>6. StatusesOK(statuses', events, named, second)
  BY <1>1, <1>2, <1>4, <1>5, AppendStatuses
<1>7. /\ Len(statuses') = Len(statuses) + Len(q) /\ Len(statuses) \in Nat /\ Len(q) \in Nat
      /\ \A k \in 1..Len(statuses) : statuses'[k] = statuses[k]
      /\ \A k \in 1..Len(q) : statuses'[Len(statuses) + k] = q[k]
  <2> DEFINE v == statuses \o q
  <2>1. /\ Len(v) = Len(statuses) + Len(q) /\ Len(statuses) \in Nat /\ Len(q) \in Nat
        /\ \A k \in 1..Len(statuses) : v[k] = statuses[k]
        /\ \A k \in 1..Len(q) : v[Len(statuses) + k] = q[k]
    <3>1. statuses \in Seq(AStatus) /\ q \in Seq(AStatus)
      BY <1>2, <1>4
    <3> QED BY ONLY <3>1
  <2> QED BY <1>1, <2>1
<1>8. Grows(statuses, statuses')
  BY <1>7 DEF Grows
<1>9. ASSUME NEW k \in 1..Len(names)
      PROVE  \E j \in 1..Len(statuses') :
              /\ statuses'[j].spindle = s /\ statuses'[j].pipeline = i
              /\ statuses'[j].workflow = names[k] /\ statuses'[j].status = kind
  <2>1. Len(statuses) + k \in 1..Len(statuses') /\ statuses'[Len(statuses) + k] = q[k]
    BY <1>4, <1>7
  <2> QED BY <1>3, <1>4, <2>1
<1> QED
  BY <1>6, <1>8, <1>9

(* A spindle's step adds statuses. *)
SpindleStep ==
  /\ UNCHANGED <<second, named, watched, row, editing, events, seen, pipelines, langs, rows>>
  /\ StatusesOK(statuses', events, named, second) /\ Grows(statuses, statuses')

(* Such a step keeps the appview's tables in order.                        *)
LEMMA SpindleWork ==
  ASSUME Work, SpindleStep, DOMAIN jobs' = Spindle, JobsOK(jobs', events, watched),
         DOMAIN runs' = Spindle, RunsOK(runs', events, watched)
  PROVE  Work'
<1>1. RowsOK(rows, statuses')
  BY DEF RowsOK, Work, SpindleStep, Grows
<1> QED
  BY <1>1 DEF Work, SpindleStep

(* Who watches a repository was named by its record. *)
LEMMA DueFacts ==
  ASSUME Access, Work, NEW s \in Spindle, NEW i, Due(s, i, events, watched)
  PROVE  /\ IsPipeline(i, events) /\ i \in Nat /\ events[i] \in AnEvent /\ events[i].kind = "pipeline"
         /\ <<events[i].repo, s>> \in named
  BY DEF Access, Work, Due, IsPipeline

(* A job is taken from the head of the queue. *)
LEMMA HeadFacts ==
  ASSUME NEW q \in Seq(Nat), q # <<>>
  PROVE  /\ Head(q) \in Range(q) /\ Head(q) = q[1] /\ 1 \in 1..Len(q)
         /\ Tail(q) \in Seq(Nat)
         /\ \A j \in 1..Len(Tail(q)) : j + 1 \in 1..Len(q) /\ Tail(q)[j] = q[j + 1]
         /\ \A x \in Range(q) : x = Head(q) \/ x \in Range(Tail(q))
<1>1. /\ Head(q) = q[1] /\ 1 \in 1..Len(q) /\ Tail(q) \in Seq(Nat) /\ Len(Tail(q)) = Len(q) - 1
      /\ \A j \in 1..Len(Tail(q)) : j + 1 \in 1..Len(q) /\ Tail(q)[j] = q[j + 1]
  OBVIOUS
<1>2. DOMAIN q = 1..Len(q) /\ DOMAIN Tail(q) = 1..Len(Tail(q)) /\ Len(q) \in Nat
  BY <1>1
<1>3. ASSUME NEW x \in Range(q), x # Head(q) PROVE x \in Range(Tail(q))
  <2>1. PICK k \in 1..Len(q) : q[k] = x
    BY <1>2 DEF Range
  <2>2. k - 1 \in 1..Len(Tail(q)) /\ (k - 1) + 1 = k
    BY <1>1, <1>2, <1>3, <2>1
  <2> QED BY <1>1, <1>2, <2>1, <2>2 DEF Range
<1> QED
  BY <1>1, <1>2, <1>3 DEF Range

(* No status added is a case of it.                                        *)
LEMMA NoStatuses == Work => StatusesOK(statuses, events, named, second) /\ Grows(statuses, statuses)
  BY DEF Work, StatusesOK, Grows

(* A pipeline of a repository the spindle watches: its workflows are       *)
(* reported, and it is enqueued unless the queue is full or the record     *)
(* could not be read to its end.                                           *)
LEMMA HandleFacts ==
  ASSUME Access, Work, NEW s \in Spindle, NEW i \in DOMAIN events, HandleKnotEvent(s, i)
  PROVE  /\ SpindleStep /\ IsPipeline(i, events)
         /\ UNCHANGED <<runs, since, ready>> /\ read' = [read EXCEPT ![s] = @ \cup {i}]
         /\ \/ UNCHANGED <<jobs, lost>> /\ ~ Due(s, i, events, watched)
            \/ UNCHANGED jobs /\ lost' = lost \cup {<<s, i>>}
            \/ /\ Due(s, i, events, watched) /\ UNCHANGED lost
               /\ jobs' = [jobs EXCEPT ![s] = Append(@, i)]
               /\ \A w \in events[i].workflows : w.engine \in Engine \/
                    \E k \in 1..Len(statuses') :
                      /\ statuses'[k].spindle = s /\ statuses'[k].pipeline = i
                      /\ statuses'[k].workflow = w.name /\ statuses'[k].status = "failed"
<1>1. /\ UNCHANGED <<second, named, watched, row, editing, events, seen, pipelines, langs, rows, runs,
                     since, ready>>
      /\ read' = [read EXCEPT ![s] = @ \cup {i}]
      /\ i \in PipelineEvents /\ processPipeline(s, i)
  BY DEF HandleKnotEvent, pdsVars, appEditVars, ingestVars, appVars
<1>2. IsPipeline(i, events)
  BY <1>1, PipelinesAre DEF Work
<1>3. Due(s, i, events, watched) <=> GetRepo(s, i)
  BY <1>2 DEF Due, GetRepo
<1>4. CASE ~GetRepo(s, i)
  <2>1. UNCHANGED <<statuses, jobs, lost>>
    BY <1>1, <1>4 DEF processPipeline
  <2> QED BY <1>1, <1>2, <1>3, <1>4, <2>1, NoStatuses DEF SpindleStep
<1>5. CASE GetRepo(s, i)
  <2>1. PICK order \in SetToSeqs(events[i].workflows) :
          LET first == FirstStatuses(s, i, order)
          IN  /\ statuses' = statuses \o first
              /\ IF Len(first) = Len(order) THEN Enqueue(s, i)
                 ELSE lost' = lost \cup {<<s, i>>} /\ UNCHANGED jobs
    BY <1>1, <1>5 DEF processPipeline
  <2> DEFINE first == FirstStatuses(s, i, order)
  <2>2. /\ first \in Seq(AStatus)
        /\ \A k \in 1..Len(first) :
             /\ first[k].spindle = s /\ first[k].pipeline = i /\ first[k].created = second
             /\ \E w \in events[i].workflows : first[k].workflow = w.name
        /\ Len(first) = Len(order) =>
             \A w \in events[i].workflows : w.engine \in Engine \/ \E k \in 1..Len(first) :
                            first[k].workflow = w.name /\ first[k].status = "failed"
    BY <1>2, FirstFacts
  <2>3. statuses' = statuses \o first
        /\ IF Len(first) = Len(order) THEN Enqueue(s, i)
           ELSE lost' = lost \cup {<<s, i>>} /\ UNCHANGED jobs
    BY <2>1
  <2> HIDE DEF first
  <2>4. <<events[i].repo, s>> \in named
    BY <1>3, <1>5, DueFacts
  <2>5. \A k \in 1..Len(first) : StatusOK(first[k], events, named) /\ first[k].created = second
    BY <1>2, <2>2, <2>4 DEF StatusOK
  <2>6. StatusesOK(statuses, events, named, second) /\ second \in Nat /\ statuses \in Seq(AStatus)
    BY DEF Work, StatusesOK
  <2>7. StatusesOK(statuses', events, named, second)
    BY <2>2, <2>3, <2>5, <2>6, AppendStatuses
  <2>8. /\ Len(statuses') = Len(statuses) + Len(first) /\ Len(statuses) \in Nat /\ Len(first) \in Nat
        /\ \A k \in 1..Len(statuses) : statuses'[k] = statuses[k]
        /\ \A k \in 1..Len(first) : statuses'[Len(statuses) + k] = first[k]
    <3> DEFINE v == statuses \o first
    <3>1. /\ Len(v) = Len(statuses) + Len(first) /\ Len(statuses) \in Nat /\ Len(first) \in Nat
          /\ \A k \in 1..Len(statuses) : v[k] = statuses[k]
          /\ \A k \in 1..Len(first) : v[Len(statuses) + k] = first[k]
      <4>1. statuses \in Seq(AStatus) /\ first \in Seq(AStatus)
        BY <2>2, <2>6
      <4> QED BY ONLY <4>1
    <3> QED BY <2>3, <3>1
  <2>9. SpindleStep
    BY <1>1, <2>7, <2>8 DEF SpindleStep, Grows
  <2>10. CASE Len(first) = Len(order) /\ Len(jobs[s]) < QueueSize
    <3>1. jobs' = [jobs EXCEPT ![s] = Append(@, i)] /\ UNCHANGED lost
      BY <2>3, <2>10 DEF Enqueue
    <3>2. ASSUME NEW w \in events[i].workflows, w.engine \notin Engine
          PROVE  \E k \in 1..Len(statuses') :
                   /\ statuses'[k].spindle = s /\ statuses'[k].pipeline = i
                   /\ statuses'[k].workflow = w.name /\ statuses'[k].status = "failed"
      <4>1. PICK k \in 1..Len(first) : first[k].workflow = w.name /\ first[k].status = "failed"
        BY <2>2, <2>10, <3>2
      <4>2. Len(statuses) + k \in 1..Len(statuses') /\ statuses'[Len(statuses) + k] = first[k]
        BY <2>8
      <4> QED BY <2>2, <4>1, <4>2
    <3> QED BY <1>1, <1>2, <1>3, <1>5, <2>9, <3>1, <3>2
  <2>11. CASE ~(Len(first) = Len(order) /\ Len(jobs[s]) < QueueSize)
    <3>1. lost' = lost \cup {<<s, i>>} /\ UNCHANGED jobs
      BY <2>3, <2>11 DEF Enqueue
    <3> QED BY <1>1, <1>2, <2>9, <3>1
  <2> QED BY <2>10, <2>11
<1> QED
  BY <1>4, <1>5

(* Handling keeps events, statuses and jobs in order.                      *)
LEMMA HandleWork ==
  ASSUME Access, Work, NEW s \in Spindle, NEW i \in DOMAIN events, HandleKnotEvent(s, i)
  PROVE  Work'
<1>1. /\ SpindleStep /\ IsPipeline(i, events) /\ UNCHANGED runs
      /\ \/ UNCHANGED jobs
         \/ /\ Due(s, i, events, watched)
            /\ jobs' = [jobs EXCEPT ![s] = Append(@, i)]
  BY HandleFacts
<1>2. /\ DOMAIN jobs = Spindle /\ JobsOK(jobs, events, watched)
      /\ DOMAIN runs = Spindle /\ RunsOK(runs, events, watched)
  BY DEF Work
<1>3. CASE UNCHANGED jobs
  BY <1>1, <1>2, <1>3, SpindleWork
<1>4. CASE Due(s, i, events, watched) /\ jobs' = [jobs EXCEPT ![s] = Append(@, i)]
  <2>1. i \in Nat
    BY <1>1 DEF IsPipeline
  <2>2. JobsOK(jobs', events, watched)
    <3> SUFFICES ASSUME NEW t \in Spindle
                 PROVE  jobs'[t] \in Seq(Nat) /\ \A j \in 1..Len(jobs'[t]) : Due(t, jobs'[t][j], events, watched)
      BY DEF JobsOK
    <3>1. jobs[t] \in Seq(Nat) /\ \A j \in 1..Len(jobs[t]) : Due(t, jobs[t][j], events, watched)
      BY <1>2 DEF JobsOK
    <3>2. CASE t # s
      <4>1. jobs'[t] = jobs[t]
        BY <1>2, <1>4, <3>2
      <4> QED BY <3>1, <4>1
    <3>3. CASE t = s
      <4>1. jobs'[t] = Append(jobs[t], i)
        BY <1>2, <1>4, <3>3
      <4> QED BY <1>4, <2>1, <3>1, <3>3, <4>1, AppendFacts
    <3> QED BY <3>2, <3>3
  <2>3. DOMAIN jobs' = Spindle
    BY <1>2, <1>4
  <2> QED BY <1>1, <1>2, <2>2, <2>3, SpindleWork
<1> QED
  BY <1>1, <1>3, <1>4

(* A worker starts every workflow of the head of the queue.                *)
LEMMA StartFacts ==
  ASSUME Access, Work, NEW s \in Spindle, StartWorkflows(s)
  PROVE  /\ SpindleStep /\ UNCHANGED <<read, since, ready, lost>>
         /\ jobs[s] # <<>> /\ runs[s] = {} /\ Due(s, Head(jobs[s]), events, watched)
         /\ jobs' = [jobs EXCEPT ![s] = Tail(@)]
         /\ runs' = [runs EXCEPT ![s] = {<<Head(jobs[s]), name>> : name \in KnownOf(events[Head(jobs[s])])}]
<1> DEFINE i == Head(jobs[s])
           K == KnownOf(events[i])
<1>1. /\ UNCHANGED <<second, named, watched, row, editing, events, seen, pipelines, langs, rows,
                     read, since, ready, lost>>
      /\ jobs[s] # <<>> /\ runs[s] = {} /\ jobs' = [jobs EXCEPT ![s] = Tail(@)]
      /\ runs' = [runs EXCEPT ![s] = {<<i, name>> : name \in K}]
      /\ Emit(s, i, SetToSeq(K), "running")
  BY KnownIs DEF StartWorkflows, pdsVars, appEditVars, ingestVars, appVars
<1>2. jobs[s] \in Seq(Nat) /\ \A j \in 1..Len(jobs[s]) : Due(s, jobs[s][j], events, watched)
  BY DEF Work, JobsOK
<1>3. Due(s, i, events, watched)
  BY <1>1, <1>2, HeadFacts
<1> HIDE DEF i
<1>4. /\ IsPipeline(i, events) /\ events[i] \in AnEvent /\ events[i].kind = "pipeline"
      /\ <<events[i].repo, s>> \in named
  BY <1>3, DueFacts
<1>5. IsFiniteSet(K) /\ K \subseteq Name /\ \A name \in K : \E w \in events[i].workflows : w.name = name
  BY <1>4, KnownAre
<1>6. SetToSeq(K) \in Seq(K)
  BY <1>5, OneEnumeration
<1> DEFINE names == SetToSeq(K)
<1>7. names \in Seq(Name) /\ \A k \in 1..Len(names) : \E w \in events[i].workflows : w.name = names[k]
  <2> HIDE DEF K
  <2>1. names \in Seq(K)
    BY <1>6
  <2> HIDE DEF names
  <2>2. names \in Seq(Name) /\ \A k \in 1..Len(names) : names[k] \in K
    BY <1>5, <2>1
  <2> QED BY <1>5, <2>2
<1>8. "running" \in StatusKind
  BY DEF StatusKind
<1> HIDE DEF K, names
<1>9. Emit(s, i, names, "running")
  BY <1>1 DEF names
<1>10. StatusesOK(statuses', events, named, second) /\ Grows(statuses, statuses')
  BY <1>4, <1>7, <1>8, <1>9, EmitFacts
<1> QED
  BY <1>1, <1>3, <1>10 DEF SpindleStep, i, K

(* Starting keeps events, statuses and jobs in order.                      *)
LEMMA StartWork ==
  ASSUME Access, Work, NEW s \in Spindle, StartWorkflows(s)
  PROVE  Work'
<1> DEFINE i == Head(jobs[s])
<1>1. /\ SpindleStep /\ jobs[s] # <<>> /\ Due(s, i, events, watched)
      /\ jobs' = [jobs EXCEPT ![s] = Tail(@)]
      /\ runs' = [runs EXCEPT ![s] = {<<i, name>> : name \in KnownOf(events[i])}]
  BY StartFacts
<1>2. /\ DOMAIN jobs = Spindle /\ JobsOK(jobs, events, watched)
      /\ DOMAIN runs = Spindle /\ RunsOK(runs, events, watched)
  BY DEF Work
<1> HIDE DEF i
<1>3. JobsOK(jobs', events, watched)
  <2> SUFFICES ASSUME NEW t \in Spindle
               PROVE  jobs'[t] \in Seq(Nat) /\ \A j \in 1..Len(jobs'[t]) : Due(t, jobs'[t][j], events, watched)
    BY DEF JobsOK
  <2>1. jobs[t] \in Seq(Nat) /\ \A j \in 1..Len(jobs[t]) : Due(t, jobs[t][j], events, watched)
    BY <1>2 DEF JobsOK
  <2>2. CASE t # s
    <3>1. jobs'[t] = jobs[t]
      BY <1>1, <1>2, <2>2
    <3> QED BY <2>1, <3>1
  <2>3. CASE t = s
    <3>1. jobs'[t] = Tail(jobs[t])
      BY <1>1, <1>2, <2>3
    <3> DEFINE q == jobs[t]
    <3>2. q \in Seq(Nat) /\ q # <<>> /\ \A j \in 1..Len(q) : Due(t, q[j], events, watched)
      BY <1>1, <2>1, <2>3
    <3> HIDE DEF q
    <3>3. Tail(q) \in Seq(Nat) /\ \A j \in 1..Len(Tail(q)) : Due(t, Tail(q)[j], events, watched)
      BY <3>2, HeadFacts
    <3> QED BY <3>1, <3>3 DEF q
  <2> QED BY <2>2, <2>3
<1>4. RunsOK(runs', events, watched)
  <2> SUFFICES ASSUME NEW t \in Spindle, NEW x \in runs'[t]
               PROVE  x = <<x[1], x[2]>> /\ Due(t, x[1], events, watched) /\ x[2] \in KnownOf(events[x[1]])
    BY DEF RunsOK
  <2>1. CASE t # s
    <3>1. runs'[t] = runs[t]
      BY <1>1, <1>2, <2>1
    <3> QED BY <1>2, <3>1 DEF RunsOK
  <2>2. CASE t = s
    <3>1. PICK name \in KnownOf(events[i]) : x = <<i, name>>
      BY <1>1, <1>2, <2>2
    <3> QED BY <1>1, <2>2, <3>1
  <2> QED BY <2>1, <2>2
<1>5. DOMAIN jobs' = Spindle /\ DOMAIN runs' = Spindle
  BY <1>1, <1>2
<1> QED
  BY <1>1, <1>3, <1>4, <1>5, SpindleWork

(* A status that is now there. *)
Told(sts, s, i, name, kinds) ==
  \E k \in 1..Len(sts) :
    /\ sts[k].spindle = s /\ sts[k].pipeline = i
    /\ sts[k].workflow = name /\ sts[k].status \in kinds

(* A run ends and its outcome is reported.                                 *)
LEMMA FinishFacts ==
  ASSUME Access, Work, NEW s \in Spindle, NEW i, NEW name \in Name, NEW kind \in Outcome,
         FinishWorkflow(s, i, name, kind)
  PROVE  /\ SpindleStep /\ UNCHANGED <<read, since, ready, lost, jobs>>
         /\ runs' = [runs EXCEPT ![s] = @ \ {<<i, name>>}]
         /\ Told(statuses', s, i, name, FinishStates)
<1>1. /\ UNCHANGED <<second, named, watched, row, editing, events, seen, pipelines, langs, rows,
                     read, since, ready, lost, jobs>>
      /\ <<i, name>> \in runs[s] /\ runs' = [runs EXCEPT ![s] = @ \ {<<i, name>>}]
      /\ Emit(s, i, <<name>>, kind)
  BY DEF FinishWorkflow, pdsVars, appEditVars, ingestVars, appVars
<1>2. Due(s, i, events, watched) /\ name \in KnownOf(events[i])
  <2> DEFINE x == <<i, name>>
  <2>1. x \in runs[s] /\ x[1] = i /\ x[2] = name
    BY <1>1
  <2> HIDE DEF x
  <2> QED BY <2>1 DEF Work, RunsOK
<1>3. /\ IsPipeline(i, events) /\ events[i] \in AnEvent /\ events[i].kind = "pipeline"
      /\ <<events[i].repo, s>> \in named
  BY <1>2, DueFacts
<1>4. \E w \in events[i].workflows : w.name = name
  BY <1>2, <1>3, KnownAre
<1>5. kind \in StatusKind /\ kind \in FinishStates
  BY PipelinesAssumption DEF StatusKind
<1> DEFINE names == <<name>>
<1>6. names \in Seq(Name) /\ Len(names) = 1 /\ names[1] = name
  OBVIOUS
<1> HIDE DEF names
<1>7. Emit(s, i, names, kind) /\ \A k \in 1..Len(names) : \E w \in events[i].workflows : w.name = names[k]
  BY <1>1, <1>4, <1>6 DEF names
<1>8. /\ StatusesOK(statuses', events, named, second) /\ Grows(statuses, statuses')
      /\ \A k \in 1..Len(names) : \E j \in 1..Len(statuses') :
              /\ statuses'[j].spindle = s /\ statuses'[j].pipeline = i
              /\ statuses'[j].workflow = names[k] /\ statuses'[j].status = kind
  BY <1>3, <1>5, <1>6, <1>7, EmitFacts
<1>9. Told(statuses', s, i, name, FinishStates)
  BY <1>5, <1>6, <1>8 DEF Told
<1> QED
  BY <1>1, <1>8, <1>9 DEF SpindleStep

(* Ending keeps events, statuses and jobs in order.                        *)
LEMMA FinishWork ==
  ASSUME Access, Work, NEW s \in Spindle, NEW i, NEW name \in Name, NEW kind \in Outcome,
         FinishWorkflow(s, i, name, kind)
  PROVE  Work'
<1>1. SpindleStep /\ UNCHANGED jobs /\ runs' = [runs EXCEPT ![s] = @ \ {<<i, name>>}]
  BY FinishFacts
<1>2. /\ DOMAIN jobs = Spindle /\ JobsOK(jobs, events, watched)
      /\ DOMAIN runs = Spindle /\ RunsOK(runs, events, watched)
  BY DEF Work
<1>3. DOMAIN runs' = Spindle /\ \A t \in Spindle : runs'[t] \subseteq runs[t]
  BY <1>1, <1>2
<1>4. RunsOK(runs', events, watched)
  BY <1>2, <1>3 DEF RunsOK
<1> QED
  BY <1>1, <1>2, <1>3, <1>4, SpindleWork

(* Only the owner of a repository that the record gave the spindle may     *)
(* have a run of it cancelled.                                             *)
LEMMA CancelFacts ==
  ASSUME Access, Work, NEW r \in Repo, NEW i, NEW name \in Name, Cancel(r, i, name)
  PROVE  SpindleStep /\ UNCHANGED <<read, since, ready, lost, jobs, runs>>
<1> DEFINE s == row[r]
<1>1. /\ UNCHANGED <<second, named, watched, row, editing, events, seen, pipelines, langs, rows,
                     read, since, ready, lost, jobs, runs>>
      /\ i \in pipelines /\ events[i].repo = r /\ s # None
      /\ Enforce(pol[s], RepoOwner[r], Dom, r, "repo:owner")
      /\ Emit(s, i, <<name>>, "cancelled")
  BY DEF Cancel, pdsVars, appEditVars, ingestVars, appVars
<1>2. s \in Spindle /\ IsPipeline(i, events) /\ RepoOwner[r] \in User
  BY <1>1, PipelinesAssumption DEF Work
<1> HIDE DEF s
<1>3. <<events[i].repo, s>> \in named
  BY <1>1, <1>2, EnforceFacts
<1>4. "cancelled" \in StatusKind
  BY DEF StatusKind, FinishStates
<1> DEFINE names == <<name>>
<1>5. names \in Seq(Name)
  OBVIOUS
<1> HIDE DEF names
<1>6. Emit(s, i, names, "cancelled")
  BY <1>1 DEF names
<1>7. StatusesOK(statuses', events, named, second) /\ Grows(statuses, statuses')
  BY <1>2, <1>3, <1>4, <1>5, <1>6, EmitFacts
<1> QED
  BY <1>1, <1>7 DEF SpindleStep

(* Cancelling keeps events, statuses and jobs in order.                    *)
LEMMA CancelWork ==
  ASSUME Access, Work, NEW r \in Repo, NEW i, NEW name \in Name, Cancel(r, i, name)
  PROVE  Work'
<1>1. SpindleStep /\ UNCHANGED <<jobs, runs>>
  BY CancelFacts
<1> QED
  BY <1>1, SpindleWork DEF Work

(* A restart of the spindle forgets its queue and its runs.                *)
LEMMA RestartWork ==
  ASSUME Work, NEW s \in Spindle, Restart(s)
  PROVE  SpindleStep /\ Work'
<1>1. /\ UNCHANGED <<second, named, watched, row, editing, events, seen, pipelines, langs, rows, statuses>>
      /\ jobs' = [jobs EXCEPT ![s] = <<>>] /\ runs' = [runs EXCEPT ![s] = {}]
  BY DEF Restart, pdsVars, appEditVars, ingestVars, appVars
<1>2. /\ DOMAIN jobs = Spindle /\ JobsOK(jobs, events, watched)
      /\ DOMAIN runs = Spindle /\ RunsOK(runs, events, watched)
  BY DEF Work
<1>3. SpindleStep
  BY <1>1, NoStatuses DEF SpindleStep
<1>4. DOMAIN jobs' = Spindle /\ DOMAIN runs' = Spindle
  BY <1>1, <1>2
<1>5. JobsOK(jobs', events, watched)
  <2>1. \A t \in Spindle : jobs'[t] = IF t = s THEN <<>> ELSE jobs[t]
    BY <1>1, <1>2
  <2>2. <<>> \in Seq(Nat) /\ Len(<<>>) = 0
    OBVIOUS
  <2> SUFFICES ASSUME NEW t \in Spindle
               PROVE  jobs'[t] \in Seq(Nat) /\ \A j \in 1..Len(jobs'[t]) : Due(t, jobs'[t][j], events, watched)
    BY DEF JobsOK
  <2>3. CASE t = s
    <3>1. jobs'[t] = <<>>
      BY <2>1, <2>3
    <3>2. jobs'[t] \in Seq(Nat) /\ Len(jobs'[t]) = 0
      BY <2>2, <3>1
    <3> QED BY <3>2
  <2>4. CASE t # s
    BY <1>2, <2>1, <2>4 DEF JobsOK
  <2> QED BY <2>3, <2>4
<1>6. RunsOK(runs', events, watched)
  <2>1. \A t \in Spindle : runs'[t] \subseteq runs[t]
    BY <1>1, <1>2
  <2> QED BY <1>2, <2>1 DEF RunsOK
<1> QED
  BY <1>3, <1>4, <1>5, <1>6, SpindleWork

(***************************************************************************)
(* The appview's ingesters.                                                *)
(***************************************************************************)
LEMMA AppviewWork ==
  ASSUME Work, UNCHANGED <<second, named, watched, row, editing, events, statuses, jobs, runs>>,
         seen' \subseteq 1..Len(events), \A i \in pipelines' : IsPipeline(i, events),
         LangsOK(langs', seen', events), RowsOK(rows', statuses)
  PROVE  Work'
  BY DEF Work

(* The appview reads an event of the knot.                                 *)
LEMMA KnotIngesterWork ==
  ASSUME Work, NEW i \in DOMAIN events, knotIngester(i)
  PROVE  Work'
<1>1. /\ UNCHANGED <<second, named, watched, row, editing, events, statuses, jobs, runs, rows>>
      /\ seen' = seen \cup {i}
      /\ \/ ingestRefUpdate(events[i]) /\ events[i].kind = "refUpdate"
         \/ ingestPipeline(i) /\ events[i].kind = "pipeline"
  BY DEF knotIngester, pdsVars, appEditVars, ingestVars, jobVars
<1>2. events \in Seq(AnEvent) /\ i \in 1..Len(events) /\ events[i] \in AnEvent
  BY DEF Work
<1>3. /\ seen' \subseteq 1..Len(events)
      /\ LangsOK(langs, seen, events) /\ \A j \in pipelines : IsPipeline(j, events)
      /\ RowsOK(rows', statuses)
  BY <1>1, <1>2 DEF Work
<1>4. LangsOK(langs, seen', events)
  BY <1>1, <1>3 DEF LangsOK
<1>5. CASE ingestPipeline(i) /\ events[i].kind = "pipeline"
  <2>1. UNCHANGED langs /\ \A j \in pipelines' : IsPipeline(j, events)
    BY <1>2, <1>3, <1>5 DEF ingestPipeline, IsPipeline
  <2> QED BY <1>1, <1>3, <1>4, <2>1, AppviewWork
<1>6. CASE ingestRefUpdate(events[i]) /\ events[i].kind = "refUpdate"
  <2> DEFINE e == events[i]
             x == <<e.repo, e.push.trigger.name>>
  <2>1. UNCHANGED pipelines
        /\ \/ UNCHANGED langs
           \/ langs' = [langs EXCEPT ![x] = e.push.langs]
    BY <1>6 DEF ingestRefUpdate, UpdateRepoLanguages
  <2>2. CASE UNCHANGED langs
    BY <1>1, <1>3, <1>4, <2>1, <2>2, AppviewWork
  <2>3. CASE langs' = [langs EXCEPT ![x] = e.push.langs]
    <3>1. x[1] = e.repo /\ x[2] = e.push.trigger.name
      OBVIOUS
    <3> HIDE DEF x
    <3>2. LangsOK(langs', seen', events)
      <4>1. DOMAIN langs' = DOMAIN langs
            /\ \A y \in DOMAIN langs : langs'[y] = IF y = x THEN e.push.langs ELSE langs[y]
        BY <2>3
      <4>2. i \in seen' /\ e.kind = "refUpdate"
        BY <1>1, <1>6
      <4> QED BY <1>4, <3>1, <4>1, <4>2 DEF LangsOK
    <3>3. \A j \in pipelines' : IsPipeline(j, events)
      BY <1>3, <2>1
    <3> QED BY <1>1, <1>3, <3>2, <3>3, AppviewWork
  <2> QED BY <2>1, <2>2, <2>3
<1> QED
  BY <1>1, <1>5, <1>6

(* The appview reads a status of a spindle.                                *)
LEMMA StatusIngestedWork ==
  ASSUME Work, NEW k \in DOMAIN statuses, ingestPipelineStatus(k)
  PROVE  Work'
<1>1. /\ UNCHANGED <<second, named, watched, row, editing, events, statuses, jobs, runs, seen, pipelines, langs>>
      /\ rows' = rows \/ rows' = Append(rows, k)
  BY DEF ingestPipelineStatus, AddPipelineStatus, pdsVars, appEditVars, ingestVars, jobVars
<1>2. statuses \in Seq(AStatus) /\ k \in 1..Len(statuses) /\ k \in Nat
  BY DEF Work, StatusesOK
<1>3. RowsOK(rows', statuses)
  <2>1. rows \in Seq(Nat) /\ RowsOK(rows, statuses)
    BY DEF Work, RowsOK
  <2>2. CASE rows' = rows
    BY <2>1, <2>2
  <2>3. CASE rows' = Append(rows, k)
    BY <1>2, <2>1, <2>3, AppendFacts DEF RowsOK
  <2> QED BY <1>1, <2>2, <2>3
<1> QED
  BY <1>1, <1>3 DEF Work

NextCases ==
  \/ ElsewhereStep
  \/ \E s \in Spindle : StartWorkflows(s) \/ Restart(s)
  \/ \E r \in Repo, u \in User, p \in Push : PostReceiveHook(r, u, p)
  \/ \E s \in Spindle, i \in DOMAIN events : HandleKnotEvent(s, i)
  \/ \E s \in Spindle, i \in PipelineEvents, name \in Name, kind \in Outcome :
       FinishWorkflow(s, i, name, kind)
  \/ \E r \in Repo, i \in PipelineEvents, name \in Name : Cancel(r, i, name)
  \/ \E i \in DOMAIN events : knotIngester(i)
  \/ \E k \in DOMAIN statuses : ingestPipelineStatus(k)

(* The steps of the specification, by what they disturb.                   *)
LEMMA NextIs == [Next]_vars => NextCases
  BY DEF Next, NextCases, ElsewhereStep

(* Every step keeps events, statuses, jobs and rows in order.              *)
LEMMA WorkStep ==
  ASSUME Access, Positions, Work, DOMAIN since = Spindle, [Next]_vars
  PROVE  Work'
<1>1. CASE ElsewhereStep
  BY <1>1, ElsewhereIs, ElsewhereWork
<1>2. ASSUME NEW s \in Spindle, StartWorkflows(s) PROVE Work'
  BY <1>2, StartWork
<1>3. ASSUME NEW s \in Spindle, Restart(s) PROVE Work'
  BY <1>3, RestartWork
<1>4. ASSUME NEW r \in Repo, NEW u \in User, NEW p \in Push, PostReceiveHook(r, u, p) PROVE Work'
  BY <1>4, PushWork
<1>5. ASSUME NEW s \in Spindle, NEW i \in DOMAIN events, HandleKnotEvent(s, i) PROVE Work'
  BY <1>5, HandleWork
<1>6. ASSUME NEW s \in Spindle, NEW i \in PipelineEvents, NEW name \in Name, NEW kind \in Outcome,
             FinishWorkflow(s, i, name, kind)
      PROVE  Work'
  BY <1>6, FinishWork
<1>7. ASSUME NEW r \in Repo, NEW i \in PipelineEvents, NEW name \in Name, Cancel(r, i, name) PROVE Work'
  BY <1>7, CancelWork
<1>8. ASSUME NEW i \in DOMAIN events, knotIngester(i) PROVE Work'
  BY <1>8, KnotIngesterWork
<1>9. ASSUME NEW k \in DOMAIN statuses, ingestPipelineStatus(k) PROVE Work'
  BY <1>9, StatusIngestedWork
<1> QED
  BY <1>1, <1>2, <1>3, <1>4, <1>5, <1>6, <1>7, <1>8, <1>9, NextIs DEF NextCases

(* There are none at first.                                                *)
LEMMA InitWork == Init => Work /\ since = [s \in Spindle |-> None]
<1> SUFFICES ASSUME Init PROVE Work /\ since = [s \in Spindle |-> None]
  OBVIOUS
<1>1. /\ events = <<>> /\ statuses = <<>> /\ second = 0 /\ rows = <<>>
      /\ jobs = [s \in Spindle |-> <<>>] /\ runs = [s \in Spindle |-> {}]
      /\ row = [r \in Repo |-> None] /\ editing = {} /\ seen = {} /\ pipelines = {}
      /\ langs = [x \in Repo \X {p.trigger.name : p \in Push} |-> {}]
      /\ since = [s \in Spindle |-> None]
  BY DEF Init
<1>2. \A S : <<>> \in Seq(S) /\ Len(<<>>) = 0
  OBVIOUS
<1>3. StatusesOK(statuses, events, named, second)
  BY <1>1, <1>2 DEF StatusesOK
<1>4. JobsOK(jobs, events, watched) /\ RunsOK(runs, events, watched)
  <2>1. \A s \in Spindle : jobs[s] = <<>> /\ runs[s] = {}
    BY <1>1
  <2>2. \A s \in Spindle : jobs[s] \in Seq(Nat) /\ Len(jobs[s]) = 0
    BY <1>2, <2>1
  <2> QED BY <2>1, <2>2 DEF JobsOK, RunsOK
<1>5. LangsOK(langs, seen, events)
  BY <1>1 DEF LangsOK
<1>6. RowsOK(rows, statuses)
  BY <1>1, <1>2 DEF RowsOK
<1>7. DOMAIN jobs = Spindle /\ DOMAIN runs = Spindle
  BY <1>1
<1> QED
  BY <1>1, <1>2, <1>3, <1>4, <1>5, <1>6, <1>7 DEF Work

(* Then every status is explained by a push and by a record.               *)
LEMMA WorkExplains == Work => StatusExplained
<1> SUFFICES ASSUME Work PROVE StatusExplained
  OBVIOUS
<1>1. ASSUME NEW k \in Range(rows)
      PROVE  LET st == statuses[k]
                 e  == events[st.pipeline]
             IN /\ e.by \in MayPush[e.repo]
                /\ <<e.repo, st.spindle>> \in named
                /\ ~e.push.skipCi
                /\ \/ st.status = "cancelled"
                   \/ \E f \in e.push.files : f.name = st.workflow /\ Wanted(f, e.push)
  <2> DEFINE st == statuses[k]
             e  == events[st.pipeline]
  <2>1. rows \in Seq(Nat) /\ \A a \in 1..Len(rows) : rows[a] \in 1..Len(statuses)
    BY DEF Work, RowsOK
  <2>2. k \in 1..Len(statuses)
    BY <2>1 DEF Range
  <2>3. StatusOK(st, events, named)
    BY <2>2 DEF Work, StatusesOK
  <2> HIDE DEF st
  <2>4. e \in AnEvent /\ e.kind = "pipeline" /\ <<e.repo, st.spindle>> \in named
        /\ (st.status = "cancelled" \/ \E w \in e.workflows : w.name = st.workflow)
    BY <2>3 DEF StatusOK, IsPipeline, Work
  <2> HIDE DEF e
  <2>5. /\ e.by \in MayPush[e.repo] /\ ~e.push.skipCi
        /\ \A w \in e.workflows : \E f \in e.push.files : f.name = w.name /\ Wanted(f, e.push)
    BY <2>4, EventFacts
  <2>6. \/ st.status = "cancelled"
        \/ \E f \in e.push.files : f.name = st.workflow /\ Wanted(f, e.push)
    BY <2>4, <2>5
  <2> QED BY <2>4, <2>5, <2>6 DEF st, e
<1>2. \A x \in DOMAIN langs :
       langs[x] # {} =>
         \E i \in seen : /\ events[i].kind = "refUpdate" /\ events[i].repo = x[1]
                         /\ events[i].push.trigger.name = x[2]
                         /\ events[i].push.langs = langs[x]
  BY DEF Work, LangsOK
<1> QED
  BY <1>1, <1>2 DEF StatusExplained

(***************************************************************************)
(* The page.                                                               *)
(***************************************************************************)

(* The greatest of some numbers up to n. *)
LEMMA Greatest ==
  ASSUME NEW n \in Nat, NEW T \in SUBSET (0..n), T # {}
  PROVE  \E m \in T : \A k \in T : k <= m
<1> DEFINE U == {n - k : k \in T}
<1>1. U \in SUBSET Nat /\ U # {}
  <2>1. ASSUME NEW k \in T PROVE n - k \in Nat
    OBVIOUS
  <2>2. PICK k \in T : TRUE
    OBVIOUS
  <2>3. n - k \in U
    OBVIOUS
  <2>4. \A u \in U : u \in Nat
    BY <2>1
  <2> HIDE DEF U
  <2> QED BY <2>3, <2>4
<1>2. PICK u \in U : \A v \in U : u <= v
  <2> HIDE DEF U
  <2> QED BY <1>1, NatMin
<1>3. PICK m \in T : u = n - m
  BY <1>2
<1>4. ASSUME NEW k \in T PROVE k <= m
  <2>1. n - k \in U /\ n - m <= n - k
    BY <1>2, <1>3
  <2>2. n \in Nat /\ m \in Nat /\ k \in Nat
    OBVIOUS
  <2> QED BY ONLY <2>1, <2>2
<1> QED
  BY <1>4

(* And the row that is shown is the latest: rows of one second apart.      *)
LEMMA WorkShows == Work => ShownIsLatest
<1> SUFFICES ASSUME Work, NEW i \in pipelines, NEW name \in Name,
                    NEW k \in {rows[a] : a \in StatusesOf(i, name)}, k # LatestRow(i, name),
                    k > LatestRow(i, name)
             PROVE  statuses[k].created = statuses[LatestRow(i, name)].created
  BY DEF ShownIsLatest
<1> DEFINE A == StatusesOf(i, name)
           at(a) == statuses[rows[a]].created
           best == CHOOSE a \in A : \A b \in A \ {a} : Later(a, b)
<1>1. /\ A \subseteq 1..Len(rows) /\ Len(rows) \in Nat /\ second \in Nat
      /\ \A a \in A : rows[a] \in 1..Len(statuses) /\ rows[a] \in Nat
      /\ statuses \in Seq(AStatus)
      /\ \A j \in 1..Len(statuses) : statuses[j].created <= second
      /\ \A j, l \in 1..Len(statuses) : j <= l => statuses[j].created <= statuses[l].created
  <2>1. rows \in Seq(Nat) /\ DOMAIN rows = 1..Len(rows) /\ Len(rows) \in Nat
    BY DEF Work, RowsOK
  <2>2. A \subseteq DOMAIN rows
    BY DEF StatusesOf
  <2> HIDE DEF A
  <2> QED BY <2>1, <2>2 DEF Work, RowsOK, StatusesOK
<1> HIDE DEF A
<1>2. \A a \in A : at(a) \in 0..second
  <2> SUFFICES ASSUME NEW a \in A PROVE at(a) \in 0..second
    OBVIOUS
  <2>1. rows[a] \in 1..Len(statuses) /\ statuses[rows[a]] \in AStatus
    BY <1>1
  <2>2. at(a) \in Nat /\ at(a) <= second
    BY <1>1, <2>1 DEF AStatus
  <2> QED BY <1>1, <2>2
<1> HIDE DEF at
<1>3. PICK x \in A : k = rows[x]
  BY DEF A
<1>4. \E a \in A : \A b \in A \ {a} : Later(a, b)
  <2> DEFINE T == {at(a) : a \in A}
  <2>1. PICK t \in T : \A u \in T : u <= t
    <3>1. T \in SUBSET (0..second) /\ T # {}
      BY <1>2, <1>3
    <3> HIDE DEF T
    <3> QED BY <1>1, <3>1, Greatest
  <2> DEFINE B == {a \in A : at(a) = t}
  <2>2. PICK a \in B : \A b \in B : b <= a
    <3>1. B \in SUBSET (0..Len(rows)) /\ B # {}
      BY <1>1
    <3> HIDE DEF B
    <3> QED BY <1>1, <3>1, Greatest
  <2>3. ASSUME NEW b \in A \ {a} PROVE Later(a, b)
    <3>1. a \in A /\ at(a) = t /\ at(b) <= t /\ a \in Nat /\ b \in Nat /\ a # b /\ at(b) \in Nat /\ t \in Nat
      BY <1>1, <1>2, <2>1
    <3>2. CASE at(b) = t
      <4>1. b <= a
        BY <2>2, <3>2
      <4> QED BY <3>1, <3>2, <4>1 DEF Later, at
    <3>3. CASE at(b) # t
      <4>1. at(a) > at(b)
        BY <3>1, <3>3
      <4> QED BY <4>1 DEF Later, at
    <3> QED BY <3>2, <3>3
  <2> QED BY <2>2, <2>3
<1>5. best \in A /\ \A b \in A \ {best} : Later(best, b)
  BY <1>4
<1>6. LatestRow(i, name) = rows[best]
  BY DEF LatestRow, A
<1> HIDE DEF best
<1>7. x # best /\ Later(best, x)
  BY <1>3, <1>5, <1>6
<1>8. at(x) <= at(best)
  BY <1>2, <1>5, <1>7 DEF Later, at
<1>9. at(best) <= at(x)
  <2>1. rows[best] \in 1..Len(statuses) /\ rows[x] \in 1..Len(statuses) /\ rows[best] <= rows[x]
    BY <1>1, <1>3, <1>5, <1>6
  <2> QED BY <1>1, <2>1 DEF at
<1>10. at(x) = at(best)
  BY <1>2, <1>5, <1>8, <1>9
<1> QED
  BY <1>3, <1>6, <1>10 DEF at

(***************************************************************************)
(* Every push is answered.                                                 *)
(***************************************************************************)

(* A workflow is queued, runs, or was reported.                            *)
Answered(s, i, ev, jb, rn, sts) ==
  \A w \in ev[i].workflows :
    \/ w.engine \in Engine /\ i \in Range(jb[s])
    \/ <<i, w.name>> \in rn[s]
    \/ Told(sts, s, i, w.name, FinishStates)

SinceOK(since_, ev) ==
  /\ DOMAIN since_ = Spindle
  /\ \A s \in Spindle : since_[s] # None => since_[s] \in 1..Len(ev) + 1

(* A spindle that watched and listened goes on watching and listening. *)
ReadyOK(rd, ev, wt, since_) ==
  \A x \in rd :
    /\ x = <<x[1], x[2]>> /\ x[1] \in Spindle /\ x[2] \in 1..Len(ev)
    /\ ev[x[2]].repo \in wt[x[1]]
    /\ since_[x[1]] # None /\ since_[x[1]] <= x[2]

ReadOK(read_, ev) == DOMAIN read_ = Spindle /\ \A s \in Spindle : read_[s] \subseteq 1..Len(ev)

Answering ==
  /\ SinceOK(since, events) /\ ReadyOK(ready, events, watched, since) /\ ReadOK(read, events)
  /\ \A s \in Spindle : \A i \in read[s] :
       <<s, i>> \in ready \ lost /\ IsPipeline(i, events) =>
         Answered(s, i, events, jobs, runs, statuses)

(* A step of the spindles: what was answered stays so unless it is lost. *)
LEMMA AnsweringKept ==
  ASSUME Answering, Work, UNCHANGED <<events, ready>>, lost \subseteq lost',
         \A s \in Spindle : watched[s] \subseteq watched'[s],
         DOMAIN since' = Spindle,
         \A s \in Spindle : since'[s] = since[s] \/ (since[s] = None /\ since'[s] = Len(events) + 1),
         ReadOK(read', events),
         \A s \in Spindle : \A i \in read'[s] :
           <<s, i>> \in ready \ lost' /\ IsPipeline(i, events)
             /\ (i \in read[s] => Answered(s, i, events, jobs, runs, statuses)) =>
               Answered(s, i, events, jobs', runs', statuses')
  PROVE  Answering'
<1>1. Len(events) \in Nat
  BY DEF Work
<1>2. SinceOK(since', events)
  BY <1>1 DEF Answering, SinceOK
<1>3. ReadyOK(ready, events, watched', since')
  <2> SUFFICES ASSUME NEW x \in ready
               PROVE  /\ x = <<x[1], x[2]>> /\ x[1] \in Spindle /\ x[2] \in 1..Len(events)
                      /\ events[x[2]].repo \in watched'[x[1]]
                      /\ since'[x[1]] # None /\ since'[x[1]] <= x[2]
    BY DEF ReadyOK
  <2>1. /\ x = <<x[1], x[2]>> /\ x[1] \in Spindle /\ x[2] \in 1..Len(events)
        /\ events[x[2]].repo \in watched[x[1]]
        /\ since[x[1]] # None /\ since[x[1]] <= x[2]
    BY DEF Answering, ReadyOK
  <2>2. since'[x[1]] = since[x[1]] /\ watched[x[1]] \subseteq watched'[x[1]]
    BY <2>1
  <2> QED BY <2>1, <2>2
<1>4. \A s \in Spindle : \A i \in read'[s] :
       <<s, i>> \in ready \ lost' /\ IsPipeline(i, events) =>
         Answered(s, i, events, jobs', runs', statuses')
  BY DEF Answering
<1> QED
  BY <1>2, <1>3, <1>4 DEF Answering

(* What a spindle told it told. *)
LEMMA ToldStays ==
  ASSUME NEW sts, NEW sts2, Grows(sts, sts2)
  PROVE  \A s, i, name, kinds : Told(sts, s, i, name, kinds) => Told(sts2, s, i, name, kinds)
<1> SUFFICES ASSUME NEW s, NEW i, NEW name, NEW kinds, Told(sts, s, i, name, kinds)
             PROVE  Told(sts2, s, i, name, kinds)
  OBVIOUS
<1>1. PICK k \in 1..Len(sts) :
        /\ sts[k].spindle = s /\ sts[k].pipeline = i
        /\ sts[k].workflow = name /\ sts[k].status \in kinds
  BY DEF Told
<1>2. k \in 1..Len(sts2) /\ sts2[k] = sts[k]
  BY DEF Grows
<1> QED
  BY <1>1, <1>2 DEF Told

(* Steps elsewhere leave the answers alone.                                *)
LEMMA ElsewhereAnswering ==
  ASSUME Answering, Work, Elsewhere
  PROVE  Answering'
<1>1. UNCHANGED <<events, ready, lost, read, jobs, runs, statuses>>
  BY DEF Elsewhere, jobVars
<1>2. ReadOK(read', events)
  BY <1>1 DEF Answering
<1> QED
  BY <1>1, <1>2, AnsweringKept DEF Elsewhere

(* So do those of the appview.                                             *)
LEMMA AppviewAnswering ==
  ASSUME Answering, Work, UNCHANGED <<events, ready, lost, read, jobs, runs, statuses, since, watched>>
  PROVE  Answering'
  BY DEF Answering

(* A push finds some spindles ready, and nothing of it is answered yet.    *)
LEMMA PushAnswering ==
  ASSUME Answering, Work, NEW r \in Repo, NEW u \in User, NEW p \in Push, PostReceiveHook(r, u, p)
  PROVE  Answering'
<1>1. /\ UNCHANGED <<lost, read, jobs, runs, statuses, since, watched>>
      /\ ready' = ready \cup {x \in Spindle \X DOMAIN events' :
                                x[2] > Len(events) /\ r \in watched[x[1]] /\ Listening(x[1])}
  BY DEF PostReceiveHook, ingestVars, jobVars
<1>2. /\ events' \in Seq(AnEvent) /\ Grows(events, events')
      /\ \A i \in 1..Len(events') : i > Len(events) => events'[i].repo = r
  BY PushedEvents
<1>3. /\ Len(events) \in Nat /\ Len(events') \in Nat /\ Len(events) <= Len(events')
      /\ \A i \in 1..Len(events) : i \in 1..Len(events') /\ events'[i] = events[i]
      /\ DOMAIN events' = 1..Len(events')
  BY <1>2 DEF Grows
<1>4. SinceOK(since, events) /\ ReadyOK(ready, events, watched, since) /\ ReadOK(read, events)
  BY DEF Answering
<1>5. SinceOK(since, events')
  BY <1>3, <1>4 DEF SinceOK
<1>6. ReadOK(read, events')
  BY <1>3, <1>4 DEF ReadOK
<1>7. ReadyOK(ready', events', watched, since)
  <2> SUFFICES ASSUME NEW x \in ready'
               PROVE  /\ x = <<x[1], x[2]>> /\ x[1] \in Spindle /\ x[2] \in 1..Len(events')
                      /\ events'[x[2]].repo \in watched[x[1]]
                      /\ since[x[1]] # None /\ since[x[1]] <= x[2]
    BY DEF ReadyOK
  <2>1. CASE x \in ready
    BY <1>3, <1>4, <2>1 DEF ReadyOK
  <2>2. CASE x \notin ready
    <3>1. /\ x \in Spindle \X (1..Len(events')) /\ x[2] > Len(events) /\ r \in watched[x[1]]
          /\ since[x[1]] # None
      BY <1>1, <1>3, <2>2 DEF Listening
    <3>2. x = <<x[1], x[2]>> /\ x[1] \in Spindle /\ x[2] \in 1..Len(events')
      BY <3>1
    <3>3. events'[x[2]].repo = r
      BY <1>2, <3>1, <3>2
    <3>4. since[x[1]] \in 1..Len(events) + 1
      BY <1>4, <3>1, <3>2 DEF SinceOK
    <3>5. since[x[1]] <= x[2]
      BY <1>3, <3>1, <3>2, <3>4
    <3> QED BY <3>1, <3>2, <3>3, <3>5
  <2> QED BY <2>1, <2>2
<1>8. ASSUME NEW s \in Spindle, NEW i \in read[s], <<s, i>> \in ready' \ lost, IsPipeline(i, events')
      PROVE  Answered(s, i, events', jobs, runs, statuses)
  <2>1. i \in 1..Len(events) /\ events'[i] = events[i]
    BY <1>3, <1>4 DEF ReadOK
  <2>2. <<s, i>> \in ready
    <3> DEFINE x == <<s, i>>
    <3>1. x[2] = i /\ ~(i > Len(events)) /\ x \in ready'
      BY <1>3, <1>8, <2>1
    <3> HIDE DEF x
    <3>2. x \in ready
      BY <1>1, <3>1
    <3> QED BY <3>2 DEF x
  <2>3. IsPipeline(i, events)
    BY <1>8, <2>1 DEF IsPipeline
  <2>4. Answered(s, i, events, jobs, runs, statuses)
    BY <1>8, <2>2, <2>3 DEF Answering
  <2> QED BY <2>1, <2>4 DEF Answered
<1> QED
  BY <1>1, <1>5, <1>6, <1>7, <1>8 DEF Answering

(* A spindle that handles a pipeline it is ready for enqueues it or loses  *)
(* it.                                                                     *)
LEMMA HandleAnswering ==
  ASSUME Access, Answering, Work, NEW s \in Spindle, NEW i \in DOMAIN events, HandleKnotEvent(s, i)
  PROVE  Answering'
<1>1. /\ SpindleStep /\ IsPipeline(i, events)
      /\ UNCHANGED <<runs, since, ready>> /\ read' = [read EXCEPT ![s] = @ \cup {i}]
      /\ \/ UNCHANGED <<jobs, lost>> /\ ~ Due(s, i, events, watched)
         \/ UNCHANGED jobs /\ lost' = lost \cup {<<s, i>>}
         \/ /\ Due(s, i, events, watched) /\ UNCHANGED lost
            /\ jobs' = [jobs EXCEPT ![s] = Append(@, i)]
            /\ \A w \in events[i].workflows : w.engine \in Engine \/
                 \E k \in 1..Len(statuses') :
                   /\ statuses'[k].spindle = s /\ statuses'[k].pipeline = i
                   /\ statuses'[k].workflow = w.name /\ statuses'[k].status = "failed"
  BY HandleFacts
<1>2. UNCHANGED <<events, watched>> /\ Grows(statuses, statuses')
  BY <1>1 DEF SpindleStep
<1>3. /\ DOMAIN jobs = Spindle /\ \A t \in Spindle : jobs[t] \in Seq(Nat)
      /\ i \in Nat /\ i \in 1..Len(events)
  BY <1>1 DEF Work, JobsOK, IsPipeline
<1>4. ReadOK(read', events)
  BY <1>1, <1>3 DEF Answering, ReadOK
<1>5. \A t \in Spindle : Range(jobs[t]) \subseteq Range(jobs'[t])
  <2> SUFFICES ASSUME NEW t \in Spindle PROVE Range(jobs[t]) \subseteq Range(jobs'[t])
    OBVIOUS
  <2>1. jobs'[t] = jobs[t] \/ jobs'[t] = Append(jobs[t], i)
    BY <1>1, <1>3
  <2>2. CASE jobs'[t] = Append(jobs[t], i)
    <3> DEFINE q == jobs[t]
    <3>1. q \in Seq(Nat)
      BY <1>3
    <3> HIDE DEF q
    <3>2. Range(q) \subseteq Range(Append(q, i))
      <4> DEFINE v == Append(q, i)
      <4>1. /\ DOMAIN v = 1..Len(v) /\ DOMAIN q = 1..Len(q)
            /\ \A k \in 1..Len(q) : k \in 1..Len(v) /\ v[k] = q[k]
        BY <1>3, <3>1
      <4> HIDE DEF v
      <4>2. Range(q) \subseteq Range(v)
        BY <4>1 DEF Range
      <4> QED BY <4>2 DEF v
    <3> QED BY <2>2, <3>2 DEF q
  <2> QED BY <2>1, <2>2
<1>6. ASSUME NEW t \in Spindle, NEW j \in read'[t], <<t, j>> \in ready \ lost', IsPipeline(j, events),
             j \in read[t] => Answered(t, j, events, jobs, runs, statuses)
      PROVE  Answered(t, j, events, jobs', runs', statuses')
  <2>1. CASE j \in read[t]
    <3> SUFFICES ASSUME NEW w \in events[j].workflows
                 PROVE  \/ w.engine \in Engine /\ j \in Range(jobs'[t])
                        \/ <<j, w.name>> \in runs'[t]
                        \/ Told(statuses', t, j, w.name, FinishStates)
      BY DEF Answered
    <3>1. \/ w.engine \in Engine /\ j \in Range(jobs[t])
          \/ <<j, w.name>> \in runs[t]
          \/ Told(statuses, t, j, w.name, FinishStates)
      BY <1>6, <2>1 DEF Answered
    <3>2. Told(statuses, t, j, w.name, FinishStates) => Told(statuses', t, j, w.name, FinishStates)
      BY <1>2, ToldStays
    <3> QED BY <1>1, <1>5, <3>1, <3>2
  <2>2. CASE j \notin read[t]
    <3>1. t = s /\ j = i
      BY <1>1, <1>6, <2>2 DEF Answering, ReadOK
    <3>2. Due(s, i, events, watched)
      <4> DEFINE x == <<s, i>>
      <4>1. x \in ready /\ x[1] = s /\ x[2] = i
        BY <1>6, <3>1
      <4> HIDE DEF x
      <4> QED BY <1>1, <4>1 DEF Answering, ReadyOK, Due
    <3>3. /\ jobs' = [jobs EXCEPT ![s] = Append(@, i)]
          /\ \A w \in events[i].workflows : w.engine \in Engine \/
                 \E k \in 1..Len(statuses') :
                   /\ statuses'[k].spindle = s /\ statuses'[k].pipeline = i
                   /\ statuses'[k].workflow = w.name /\ statuses'[k].status = "failed"
      BY <1>1, <1>6, <3>1, <3>2
    <3>4. i \in Range(jobs'[s])
      <4> DEFINE q == jobs[s]
      <4>1. q \in Seq(Nat) /\ jobs'[s] = Append(q, i)
        BY <1>3, <3>3
      <4> HIDE DEF q
      <4>2. Len(q) + 1 \in DOMAIN Append(q, i) /\ Append(q, i)[Len(q) + 1] = i
        BY <1>3, <4>1
      <4> QED BY <4>1, <4>2 DEF Range
    <3>5. "failed" \in FinishStates
      BY DEF FinishStates
    <3> QED BY <3>1, <3>3, <3>4, <3>5 DEF Answered, Told
  <2> QED BY <2>1, <2>2
<1>7. lost \subseteq lost'
  BY <1>1
<1> QED
  BY <1>1, <1>2, <1>4, <1>6, <1>7, AnsweringKept DEF Answering, SinceOK

(* Jobs, runs and statuses of one spindle change. *)
LEMMA SpindleAnswering ==
  ASSUME Answering, Work, SpindleStep, UNCHANGED <<read, ready>>, lost \subseteq lost',
         DOMAIN since' = Spindle,
         \A s \in Spindle : since'[s] = since[s] \/ (since[s] = None /\ since'[s] = Len(events) + 1),
         \A s \in Spindle : \A i, name :
           <<s, i>> \notin lost' /\ <<i, name>> \in runs[s] =>
             <<i, name>> \in runs'[s] \/ Told(statuses', s, i, name, FinishStates),
         \A s \in Spindle : \A i : \A w \in events[i].workflows :
           <<s, i>> \notin lost' /\ w.engine \in Engine /\ i \in Range(jobs[s]) =>
             i \in Range(jobs'[s]) \/ <<i, w.name>> \in runs'[s]
  PROVE  Answering'
<1>1. UNCHANGED <<events, watched>> /\ Grows(statuses, statuses')
  BY DEF SpindleStep
<1>2. ReadOK(read', events)
  BY DEF Answering
<1>3. ASSUME NEW s \in Spindle, NEW i \in read'[s], <<s, i>> \in ready \ lost', IsPipeline(i, events),
             i \in read[s] => Answered(s, i, events, jobs, runs, statuses)
      PROVE  Answered(s, i, events, jobs', runs', statuses')
  <2> SUFFICES ASSUME NEW w \in events[i].workflows
               PROVE  \/ w.engine \in Engine /\ i \in Range(jobs'[s])
                      \/ <<i, w.name>> \in runs'[s]
                      \/ Told(statuses', s, i, w.name, FinishStates)
    BY DEF Answered
  <2>1. \/ w.engine \in Engine /\ i \in Range(jobs[s])
        \/ <<i, w.name>> \in runs[s]
        \/ Told(statuses, s, i, w.name, FinishStates)
    BY <1>3 DEF Answered
  <2>2. CASE w.engine \in Engine /\ i \in Range(jobs[s])
    BY <1>3, <2>2
  <2>3. CASE <<i, w.name>> \in runs[s]
    BY <1>3, <2>3
  <2>4. CASE Told(statuses, s, i, w.name, FinishStates)
    BY <1>1, <2>4, ToldStays
  <2> QED BY <2>1, <2>2, <2>3, <2>4
<1> QED
  BY <1>1, <1>2, <1>3, AnsweringKept

(* What leaves the queue runs.                                             *)
LEMMA StartAnswering ==
  ASSUME Access, Answering, Work, NEW s \in Spindle, StartWorkflows(s)
  PROVE  Answering'
<1> DEFINE h == Head(jobs[s])
<1>1. /\ SpindleStep /\ UNCHANGED <<read, since, ready, lost>>
      /\ jobs[s] # <<>> /\ runs[s] = {}
      /\ jobs' = [jobs EXCEPT ![s] = Tail(@)]
      /\ runs' = [runs EXCEPT ![s] = {<<h, name>> : name \in KnownOf(events[h])}]
  BY StartFacts
<1>2. DOMAIN jobs = Spindle /\ DOMAIN runs = Spindle /\ jobs[s] \in Seq(Nat)
  BY DEF Work, JobsOK
<1>3. \A x \in Range(jobs[s]) : x = h \/ x \in Range(Tail(jobs[s]))
  BY <1>1, <1>2, HeadFacts
<1> HIDE DEF h
<1>4. ASSUME NEW t \in Spindle, NEW i, NEW name, <<i, name>> \in runs[t]
      PROVE  <<i, name>> \in runs'[t]
  BY <1>1, <1>2, <1>4
<1>5. ASSUME NEW t \in Spindle, NEW i, NEW w \in events[i].workflows, w.engine \in Engine, i \in Range(jobs[t])
      PROVE  i \in Range(jobs'[t]) \/ <<i, w.name>> \in runs'[t]
  <2>1. CASE t # s
    <3>1. jobs'[t] = jobs[t]
      BY <1>1, <1>2, <2>1
    <3> QED BY <1>5, <3>1
  <2>2. CASE t = s /\ i # h
    <3>1. jobs'[t] = Tail(jobs[s])
      BY <1>1, <1>2, <2>2
    <3>2. i \in Range(Tail(jobs[s]))
      BY <1>3, <1>5, <2>2
    <3> QED BY <3>1, <3>2
  <2>3. CASE t = s /\ i = h
    <3>1. w.name \in KnownOf(events[h])
      BY <1>5, <2>3 DEF KnownOf
    <3> QED BY <1>1, <1>2, <2>3, <3>1
  <2> QED BY <2>1, <2>2, <2>3
<1>6. /\ \A t \in Spindle : \A i, name :
           <<t, i>> \notin lost' /\ <<i, name>> \in runs[t] =>
             <<i, name>> \in runs'[t] \/ Told(statuses', t, i, name, FinishStates)
      /\ \A t \in Spindle : \A i : \A w \in events[i].workflows :
           <<t, i>> \notin lost' /\ w.engine \in Engine /\ i \in Range(jobs[t]) =>
             i \in Range(jobs'[t]) \/ <<i, w.name>> \in runs'[t]
  BY <1>4, <1>5
<1> QED
  BY <1>1, <1>6, SpindleAnswering DEF Answering, SinceOK

(* What stops running was reported.                                        *)
LEMMA FinishAnswering ==
  ASSUME Access, Answering, Work, NEW s \in Spindle, NEW i, NEW name \in Name, NEW kind \in Outcome,
         FinishWorkflow(s, i, name, kind)
  PROVE  Answering'
<1>1. /\ SpindleStep /\ UNCHANGED <<read, since, ready, lost, jobs>>
      /\ runs' = [runs EXCEPT ![s] = @ \ {<<i, name>>}]
      /\ Told(statuses', s, i, name, FinishStates)
  BY FinishFacts
<1>2. DOMAIN runs = Spindle
  BY DEF Work
<1>3. ASSUME NEW t \in Spindle, NEW j, NEW n, <<j, n>> \in runs[t]
      PROVE  <<j, n>> \in runs'[t] \/ Told(statuses', t, j, n, FinishStates)
  <2>1. CASE t = s /\ j = i /\ n = name
    BY <1>1, <2>1
  <2>2. CASE ~(t = s /\ j = i /\ n = name)
    BY <1>1, <1>2, <1>3, <2>2
  <2> QED BY <2>1, <2>2
<1>4. /\ \A t \in Spindle : \A j, n :
           <<t, j>> \notin lost' /\ <<j, n>> \in runs[t] =>
             <<j, n>> \in runs'[t] \/ Told(statuses', t, j, n, FinishStates)
      /\ \A t \in Spindle : \A j : \A w \in events[j].workflows :
           <<t, j>> \notin lost' /\ w.engine \in Engine /\ j \in Range(jobs[t]) =>
             j \in Range(jobs'[t]) \/ <<j, w.name>> \in runs'[t]
  BY <1>1, <1>3
<1> QED
  BY <1>1, <1>4, SpindleAnswering DEF Answering, SinceOK

(* A cancellation leaves queue and runs alone.                             *)
LEMMA CancelAnswering ==
  ASSUME Access, Answering, Work, NEW r \in Repo, NEW i, NEW name \in Name, Cancel(r, i, name)
  PROVE  Answering'
<1>1. SpindleStep /\ UNCHANGED <<read, since, ready, lost, jobs, runs>>
  BY CancelFacts
<1> QED
  BY <1>1, SpindleAnswering DEF Answering, SinceOK

(* A restart loses what was queued or ran.                                 *)
LEMMA RestartAnswering ==
  ASSUME Answering, Work, NEW s \in Spindle, Restart(s)
  PROVE  Answering'
<1>1. SpindleStep
  BY RestartWork
<1>2. /\ UNCHANGED <<read, ready>>
      /\ lost' = lost \cup {<<s, i>> : i \in Range(jobs[s]) \cup {x[1] : x \in runs[s]}}
      /\ jobs' = [jobs EXCEPT ![s] = <<>>] /\ runs' = [runs EXCEPT ![s] = {}]
      /\ since' = since \/ (since[s] = None /\ since' = [since EXCEPT ![s] = Len(events) + 1])
  BY DEF Restart, Listening
<1>3. DOMAIN jobs = Spindle /\ DOMAIN runs = Spindle /\ DOMAIN since = Spindle
  BY DEF Work, Answering, SinceOK
<1>4. DOMAIN since' = Spindle
      /\ \A t \in Spindle : since'[t] = since[t] \/ (since[t] = None /\ since'[t] = Len(events) + 1)
  BY <1>2, <1>3
<1>5. ASSUME NEW t \in Spindle, NEW i, NEW name, <<t, i>> \notin lost', <<i, name>> \in runs[t]
      PROVE  <<i, name>> \in runs'[t]
  <2>1. CASE t = s
    <3> DEFINE x == <<i, name>>
    <3>1. x \in runs[s] /\ x[1] = i
      BY <1>5, <2>1
    <3> HIDE DEF x
    <3>2. i \in {y[1] : y \in runs[s]}
      BY <3>1
    <3> QED BY <1>2, <1>5, <2>1, <3>2
  <2>2. CASE t # s
    BY <1>2, <1>3, <1>5, <2>2
  <2> QED BY <2>1, <2>2
<1>6. ASSUME NEW t \in Spindle, NEW i, <<t, i>> \notin lost', i \in Range(jobs[t])
      PROVE  i \in Range(jobs'[t])
  <2>1. t # s
    BY <1>2, <1>6
  <2>2. jobs'[t] = jobs[t]
    BY <1>2, <1>3, <2>1
  <2> QED BY <1>6, <2>2
<1>7. lost \subseteq lost'
  BY <1>2
<1> QED
  BY <1>1, <1>2, <1>4, <1>5, <1>6, <1>7, SpindleAnswering

(* Every step keeps each handled pipeline answered.                        *)
LEMMA AnsweringStep ==
  ASSUME Access, Positions, Work, Answering, [Next]_vars
  PROVE  Answering'
<1>0. DOMAIN since = Spindle
  BY DEF Answering, SinceOK
<1>1. CASE ElsewhereStep
  BY <1>0, <1>1, ElsewhereIs, ElsewhereAnswering
<1>2. ASSUME NEW s \in Spindle, StartWorkflows(s) PROVE Answering'
  BY <1>2, StartAnswering
<1>3. ASSUME NEW s \in Spindle, Restart(s) PROVE Answering'
  BY <1>3, RestartAnswering
<1>4. ASSUME NEW r \in Repo, NEW u \in User, NEW p \in Push, PostReceiveHook(r, u, p) PROVE Answering'
  BY <1>4, PushAnswering
<1>5. ASSUME NEW s \in Spindle, NEW i \in DOMAIN events, HandleKnotEvent(s, i) PROVE Answering'
  BY <1>5, HandleAnswering
<1>6. ASSUME NEW s \in Spindle, NEW i \in PipelineEvents, NEW name \in Name, NEW kind \in Outcome,
             FinishWorkflow(s, i, name, kind)
      PROVE  Answering'
  BY <1>6, FinishAnswering
<1>7. ASSUME NEW r \in Repo, NEW i \in PipelineEvents, NEW name \in Name, Cancel(r, i, name) PROVE Answering'
  BY <1>7, CancelAnswering
<1>8. ASSUME NEW i \in DOMAIN events, knotIngester(i) PROVE Answering'
  BY <1>8, AppviewAnswering DEF knotIngester, ingestVars, jobVars
<1>9. ASSUME NEW k \in DOMAIN statuses, ingestPipelineStatus(k) PROVE Answering'
  BY <1>9, AppviewAnswering DEF ingestPipelineStatus, ingestVars, jobVars
<1> QED
  BY <1>1, <1>2, <1>3, <1>4, <1>5, <1>6, <1>7, <1>8, <1>9, NextIs DEF NextCases

(* Nothing is handled at first.                                            *)
LEMMA InitAnswering == Init => Answering
<1> SUFFICES ASSUME Init PROVE Answering
  OBVIOUS
<1>1. /\ since = [s \in Spindle |-> None] /\ read = [s \in Spindle |-> {}] /\ ready = {} /\ events = <<>>
  BY DEF Init
<1> QED
  BY <1>1 DEF Answering, SinceOK, ReadyOK, ReadOK

(* When all is quiet nothing is queued or runs, so it was reported. *)
LEMMA QuietAnswered == Work /\ Answering => PushAnswered
<1> SUFFICES ASSUME Work, Answering, Quiet, NEW x \in ready \ lost, x[2] \in pipelines,
                    NEW w \in events[x[2]].workflows
             PROVE  \E k \in DOMAIN statuses :
                      /\ statuses[k].spindle = x[1] /\ statuses[k].pipeline = x[2]
                      /\ statuses[k].workflow = w.name /\ statuses[k].status \in FinishStates
  BY DEF PushAnswered
<1> DEFINE s == x[1]
           i == x[2]
<1>1. IsPipeline(i, events) /\ i \in PipelineEvents
  BY PipelinesAre DEF Work
<1>2. x = <<s, i>> /\ s \in Spindle /\ since[s] # None /\ since[s] <= i /\ since[s] \in Nat /\ i \in Nat
  BY <1>1 DEF Answering, ReadyOK, SinceOK, IsPipeline, Work
<1>3. i \in read[s] /\ jobs[s] = <<>> /\ runs[s] = {}
  BY <1>1, <1>2 DEF Quiet, Listening
<1>4. Answered(s, i, events, jobs, runs, statuses)
  BY <1>1, <1>2, <1>3 DEF Answering
<1>5. Range(jobs[s]) = {}
  BY <1>3 DEF Range
<1>6. Told(statuses, s, i, w.name, FinishStates)
  BY <1>3, <1>4, <1>5 DEF Answered
<1> QED
  BY <1>6 DEF Told, Work, StatusesOK

(***************************************************************************)
(* The inductive invariant.                                                *)
(***************************************************************************)
IInv == Access /\ Positions /\ Work /\ Answering

(* It holds at first,                                                      *)
LEMMA InitIInv == Init => IInv
  BY InitAccess, InitWork, InitAnswering DEF IInv

(* and every step keeps it.                                                *)
LEMMA NextIInv == IInv /\ [Next]_vars => IInv'
<1> SUFFICES ASSUME IInv, [Next]_vars PROVE IInv'
  OBVIOUS
<1>1. Access' /\ Positions'
  BY AccessStep DEF IInv
<1>2. Work'
  BY WorkStep DEF IInv, Answering, SinceOK
<1>3. Answering'
  BY AnsweringStep DEF IInv
<1> QED
  BY <1>1, <1>2, <1>3 DEF IInv

(* The secret of a repository on a spindle was put by its owner or by      *)
(* somebody whom its owner had invited, and only where the record of the   *)
(* repository once named the spindle: enforcement in spindle/xrpc rests on *)
(* the policies that ingester.go makes of the firehose.                    *)
THEOREM SecretsAreOfInvited == Spec => []SecretsByInvited
<1>1. IInv => SecretsByInvited
  BY DEF IInv, Access
<1> QED
  BY <1>1, InitIInv, NextIInv, PTL DEF Spec

(* Every status that a spindle published is of a pipeline that a permitted *)
(* push made without skip-ci, of a workflow that the compiler kept of a    *)
(* file asking for that push, and of a repository whose record named the   *)
(* spindle.                                                                *)
THEOREM StatusesAreExplained == Spec => []StatusExplained
<1>1. IInv => StatusExplained
  BY WorkExplains DEF IInv
<1> QED
  BY <1>1, InitIInv, NextIInv, PTL DEF Spec

(* The row that GetPipelineStatuses and LatestStatus show of a workflow is *)
(* of no earlier second than any other the appview has of it.              *)
THEOREM LatestIsShown == Spec => []ShownIsLatest
<1>1. IInv => ShownIsLatest
  BY WorkShows DEF IInv
<1> QED
  BY <1>1, InitIInv, NextIInv, PTL DEF Spec

(* Once the queue and the runs of the spindles are empty, every workflow   *)
(* of a pipeline that a listening spindle handled has a final status,      *)
(* unless the job was lost with a restart or a full queue.                 *)
THEOREM PushesAreAnswered == Spec => []PushAnswered
<1>1. IInv => PushAnswered
  BY QuietAnswered DEF IInv
<1> QED
  BY <1>1, InitIInv, NextIInv, PTL DEF Spec

(***************************************************************************)
(* One event: who is told.                                                 *)
(***************************************************************************)

(* The rows of one call tell each recipient but the actor, once.           *)
LEMMA CallRows ==
  ASSUME NEW w, NEW call, NEW actor, NEW recipients, NEW type, NEW r,
         r \in notifyEvent(w, call, actor, recipients, type)
  PROVE  /\ r = <<call, r[2], type>>
         /\ r[2] \in recipients \ {actor}
  BY DEF notifyEvent

(* A user without a row of preferences is told of everything.              *)
LEMMA CallTells ==
  ASSUME NEW w, NEW call, NEW actor, NEW recipients, NEW type, NEW u \in recipients \ {actor},
         w.prefs[u] = NoRow, PrefOf(type) \in Pref,
         type = "UserMentioned" => ~(Cardinality(recipients) > MaxMentions)
  PROVE  \E r \in notifyEvent(w, call, actor, recipients, type) : r[2] = u
<1>1. ShouldNotify(Preferences(w, u), type)
  BY DEF ShouldNotify, Preferences, DefaultNotificationPreferences
<1>2. <<call, u, type>> \in notifyEvent(w, call, actor, recipients, type)
  BY <1>1 DEF notifyEvent
<1> QED BY <1>2

(* Every notifier is one call for one type, or such a call without the     *)
(* users mentioned and one for them.                                       *)
OneCall(w, e, told) ==
  \E recipients, type :
    /\ told = notifyEvent(w, 1, e.actor, recipients, type)
    /\ PrefOf(type) \in Pref /\ type # "UserMentioned"
    /\ e.kind # "follow" => w.owner \in recipients

TwoCalls(w, e, told) ==
  \E recipients, type :
    /\ told = notifyEvent(w, 1, e.actor, recipients \ e.mentions, type) \cup Mentions(w, e)
    /\ PrefOf(type) \in Pref /\ type # "UserMentioned"
    /\ w.owner \in recipients

MentioningKinds == {"issue", "issueComment", "pullComment"}

LEMMA NotifiersAreCalls ==
  ASSUME NEW w, NEW e,
         e.kind \in {"star", "follow", "issue", "issueComment", "issueState", "pull",
                     "pullComment", "pullState"},
         e.kind = "pullState" => e.state \in {"open", "closed", "merged"}
  PROVE  IF e.kind \in MentioningKinds THEN TwoCalls(w, e, Notified(w, e))
         ELSE OneCall(w, e, Notified(w, e))
<1> DEFINE types == {"RepoStarred", "Followed", "IssueCreated", "IssueCommented", "IssueReopen",
                     "IssueClosed", "PullCreated", "PullCommented", "PullClosed", "PullReopen",
                     "PullMerged"}
<1>0. \A type \in types : PrefOf(type) \in Pref /\ type # "UserMentioned"
  BY DEF PrefOf, Pref
<1> HIDE DEF types
<1>1. CASE e.kind = "star"
  <2>1. Notified(w, e) = notifyEvent(w, 1, e.actor, {w.owner}, "RepoStarred")
    BY <1>1 DEF Notified, NewStar
  <2> QED BY <2>1, <1>0, <1>1 DEF OneCall, types, MentioningKinds
<1>2. CASE e.kind = "follow"
  <2>1. Notified(w, e) = notifyEvent(w, 1, e.actor, {w.author}, "Followed")
    BY <1>2 DEF Notified, NewFollow
  <2> QED BY <2>1, <1>0, <1>2 DEF OneCall, types, MentioningKinds
<1>3. CASE e.kind = "issue"
  <2>1. Notified(w, e) =
          notifyEvent(w, 1, e.actor, ({w.owner} \cup w.collaborators) \ e.mentions, "IssueCreated")
            \cup Mentions(w, e)
    BY <1>3 DEF Notified, NewIssue
  <2> QED BY <2>1, <1>0, <1>3 DEF TwoCalls, types, MentioningKinds
<1>4. CASE e.kind = "issueComment"
  <2> DEFINE thread == IF e.parent # 0 THEN ThreadParticipants(w, e.parent) ELSE {w.author}
  <2>1. Notified(w, e) =
          notifyEvent(w, 1, e.actor, ({w.owner} \cup thread) \ e.mentions, "IssueCommented")
            \cup Mentions(w, e)
    BY <1>4 DEF Notified, NewIssueComment
  <2> HIDE DEF thread
  <2> QED BY <2>1, <1>0, <1>4 DEF TwoCalls, types, MentioningKinds
<1>5. CASE e.kind = "issueState"
  <2> DEFINE type == IF e.state = "open" THEN "IssueReopen" ELSE "IssueClosed"
  <2>1. Notified(w, e) = notifyEvent(w, 1, e.actor,
                           {w.owner} \cup w.collaborators \cup Participants(w), type)
    BY <1>5 DEF Notified, NewIssueState
  <2>2. type \in types
    BY DEF types
  <2> HIDE DEF type
  <2> QED BY <2>1, <2>2, <1>0, <1>5 DEF OneCall, MentioningKinds
<1>6. CASE e.kind = "pull"
  <2>1. Notified(w, e) = notifyEvent(w, 1, e.actor, {w.owner} \cup w.collaborators, "PullCreated")
    BY <1>6 DEF Notified, NewPull
  <2> QED BY <2>1, <1>0, <1>6 DEF OneCall, types, MentioningKinds
<1>7. CASE e.kind = "pullComment"
  <2>1. Notified(w, e) =
          notifyEvent(w, 1, e.actor, ({w.owner} \cup Participants(w)) \ e.mentions, "PullCommented")
            \cup Mentions(w, e)
    BY <1>7 DEF Notified, NewPullComment
  <2> QED BY <2>1, <1>0, <1>7 DEF TwoCalls, types, MentioningKinds
<1>8. CASE e.kind = "pullState"
  <2> DEFINE type == CASE e.state = "closed" -> "PullClosed"
                       [] e.state = "open" -> "PullReopen"
                       [] e.state = "merged" -> "PullMerged"
  <2>1. Notified(w, e) = notifyEvent(w, 1, e.actor,
                           {w.owner} \cup w.collaborators \cup Participants(w), type)
    BY <1>8 DEF Notified, NewPullState
  <2>2. type \in types
    <3>1. CASE e.state = "closed"
      BY <3>1 DEF types
    <3>2. CASE e.state = "open"
      BY <3>2 DEF types
    <3>3. CASE e.state = "merged"
      BY <3>3 DEF types
    <3> QED BY <1>8, <3>1, <3>2, <3>3
  <2>3. PrefOf(type) \in Pref /\ type # "UserMentioned"
    BY <2>2, <1>0
  <2> HIDE DEF type
  <2> DEFINE recipients == {w.owner} \cup w.collaborators \cup Participants(w)
  <2>4. w.owner \in recipients
    OBVIOUS
  <2>5. Notified(w, e) = notifyEvent(w, 1, e.actor, recipients, type)
    BY <2>1
  <2> HIDE DEF recipients
  <2>6. OneCall(w, e, Notified(w, e))
    BY <2>3, <2>4, <2>5 DEF OneCall
  <2> QED BY <2>6, <1>8 DEF MentioningKinds
<1> QED BY <1>1, <1>2, <1>3, <1>4, <1>5, <1>6, <1>7, <1>8

(* What an event tells its recipients. *)
ToldAsDue(w, e, told) ==
  LET Rows(u) == {r \in told : r[2] = u}
  IN /\ \A u \in Account : Cardinality(Rows(u)) <= 1
     /\ Rows(e.actor) = {}
     /\ \A u \in Account \ {e.actor} :
          /\ w.prefs[u] = NoRow
          /\ \/ u = w.owner /\ e.kind # "follow" /\ u \notin e.mentions
             \/ u \in e.mentions /\ e.kind \in MentioningKinds
                  /\ Cardinality(e.mentions) <= MaxMentions
          => Rows(u) # {}

LEMMA AtMostOne ==
  ASSUME NEW S, NEW x, S \subseteq {x}
  PROVE  Cardinality(S) <= 1
<1>1. S = {} \/ S = {x}
  OBVIOUS
<1>2. Cardinality({}) = 0 /\ Cardinality({x}) = 1
  BY FS_EmptySet, FS_Singleton
<1> QED BY <1>1, <1>2

LEMMA EventTold ==
  ASSUME NEW w, NEW e,
         e.kind \in {"star", "follow", "issue", "issueComment", "issueState", "pull",
                     "pullComment", "pullState"},
         e.kind = "pullState" => e.state \in {"open", "closed", "merged"},
         IsFiniteSet(e.mentions)
  PROVE  ToldAsDue(w, e, Notified(w, e))
<1> DEFINE told == Notified(w, e)
           Rows(u) == {r \in told : r[2] = u}
<1>m. /\ Cardinality(e.mentions) \in Nat /\ MaxMentions \in Nat
      /\ PrefOf("UserMentioned") \in Pref
  BY FS_CardinalityType, MentionsAssumption DEF PrefOf, Pref
<1>1. CASE e.kind \in MentioningKinds
  <2>0. TwoCalls(w, e, told)
    BY <1>1, NotifiersAreCalls
  <2>1. PICK recipients, type :
          /\ told = notifyEvent(w, 1, e.actor, recipients \ e.mentions, type) \cup Mentions(w, e)
          /\ PrefOf(type) \in Pref /\ type # "UserMentioned"
          /\ w.owner \in recipients
    BY <2>0 DEF TwoCalls
  <2> HIDE DEF told
  <2> DEFINE first == notifyEvent(w, 1, e.actor, recipients \ e.mentions, type)
  <2>2. \A r \in first : r = <<1, r[2], type>> /\ r[2] \in (recipients \ e.mentions) \ {e.actor}
    BY CallRows
  <2>3. \A r \in Mentions(w, e) : r = <<2, r[2], "UserMentioned">> /\ r[2] \in e.mentions \ {e.actor}
    BY CallRows DEF Mentions
  <2>4. ASSUME NEW u \in Account PROVE Cardinality(Rows(u)) <= 1
    <3>1. CASE u \in e.mentions
      <4>1. Rows(u) \subseteq {<<2, u, "UserMentioned">>}
        BY <3>1, <2>1, <2>2, <2>3
      <4> QED BY <4>1, AtMostOne
    <3>2. CASE u \notin e.mentions
      <4>1. Rows(u) \subseteq {<<1, u, type>>}
        BY <3>2, <2>1, <2>2, <2>3
      <4> QED BY <4>1, AtMostOne
    <3> QED BY <3>1, <3>2
  <2>5. Rows(e.actor) = {}
    BY <2>1, <2>2, <2>3
  <2>6. ASSUME NEW u \in Account \ {e.actor}, w.prefs[u] = NoRow,
               \/ u = w.owner /\ u \notin e.mentions
               \/ u \in e.mentions /\ Cardinality(e.mentions) <= MaxMentions
        PROVE  Rows(u) # {}
    <3>1. CASE u = w.owner /\ u \notin e.mentions
      <4>1. u \in (recipients \ e.mentions) \ {e.actor}
        BY <3>1, <2>1
      <4>2. \E r \in first : r[2] = u
        BY <4>1, <2>1, <2>6, CallTells
      <4> HIDE DEF first
      <4> QED BY <4>2, <2>1 DEF first
    <3>2. CASE u \in e.mentions /\ Cardinality(e.mentions) <= MaxMentions
      <4>1. \E r \in Mentions(w, e) : r[2] = u
        BY <3>2, <2>6, <1>m, CallTells DEF Mentions
      <4> QED BY <4>1, <2>1
    <3> QED BY <2>6, <3>1, <3>2
  <2> QED BY <2>4, <2>5, <2>6 DEF ToldAsDue, told
<1>2. CASE e.kind \notin MentioningKinds
  <2>0. OneCall(w, e, told)
    BY <1>2, NotifiersAreCalls
  <2>1. PICK recipients, type :
          /\ told = notifyEvent(w, 1, e.actor, recipients, type)
          /\ PrefOf(type) \in Pref /\ type # "UserMentioned"
          /\ e.kind # "follow" => w.owner \in recipients
    BY <2>0 DEF OneCall
  <2> HIDE DEF told
  <2>2. \A r \in told : r = <<1, r[2], type>> /\ r[2] \in recipients \ {e.actor}
    BY <2>1, CallRows
  <2>4. ASSUME NEW u \in Account PROVE Cardinality(Rows(u)) <= 1
    <3>1. Rows(u) \subseteq {<<1, u, type>>}
      BY <2>2
    <3> QED BY <3>1, AtMostOne
  <2>5. Rows(e.actor) = {}
    BY <2>2
  <2>6. ASSUME NEW u \in Account \ {e.actor}, w.prefs[u] = NoRow, u = w.owner, e.kind # "follow"
        PROVE  Rows(u) # {}
    <3>1. u \in recipients \ {e.actor}
      BY <2>6, <2>1
    <3>2. \E r \in told : r[2] = u
      BY <3>1, <2>1, <2>6, CallTells
    <3> QED BY <3>2
  <2> QED BY <2>4, <2>5, <2>6, <1>2 DEF ToldAsDue, told
<1> QED BY <1>1, <1>2
(***************************************************************************)
(* What becomes of a file.                                                 *)
(***************************************************************************)

(* Every answer of the compiler has its cause. *)
LEMMA PatternAnswers ==
  ASSUME NEW N, NEW name, NEW q \in Seq(SUBSET N), name \notin BadPattern
  PROVE  /\ matchesPattern(name, q) \in {"yes", "no", "error"}
         /\ matchesPattern(name, q) = "error" => BadPattern \in ToSet(q)
         /\ name \in UNION ToSet(q) => matchesPattern(name, q) # "no"
<1> DEFINE Answer_(p) == IF p = BadPattern THEN "error" ELSE IF name \in p THEN "yes" ELSE "no"
           T == {i \in DOMAIN q : Answer_(q[i]) # "no"}
<1>1. matchesPattern(name, q) = IF T = {} THEN "no" ELSE Answer_(q[Min(T)])
  BY DEF matchesPattern, FirstAnswer
<1>2. T # {} => Min(T) \in T
  <2>1. T \in SUBSET Nat
    OBVIOUS
  <2> HIDE DEF T
  <2> QED BY <2>1, MinIn
<1>3. matchesPattern(name, q) = "error" => BadPattern \in ToSet(q)
  BY <1>1, <1>2 DEF ToSet
<1>4. ASSUME name \in UNION ToSet(q) PROVE T # {}
  <2>1. PICK i \in DOMAIN q : name \in q[i]
    BY <1>4 DEF ToSet
  <2>2. q[i] # BadPattern
    BY <2>1
  <2>3. Answer_(q[i]) = "yes"
    BY <2>1, <2>2
  <2> QED BY <2>3
<1>5. \A p : Answer_(p) \in {"yes", "no", "error"}
  OBVIOUS
<1> QED BY <1>1, <1>2, <1>3, <1>4, <1>5

LEMMA ConstraintAnswers ==
  ASSUME NEW N, NEW c \in Constraints(N), NEW t, t.name \notin BadPattern
  PROVE  /\ MatchConstraint(c, t) \in {"yes", "no", "error"}
         /\ MatchConstraint(c, t) = "error" => BadPattern \in ToSet(c.branch) \cup ToSet(c.tag)
         /\ MatchConstraint(c, t) = "yes" => Satisfies(t, c)
         /\ Satisfies(t, c) => MatchConstraint(c, t) # "no"
<1>1. c.branch \in Seq(SUBSET N) /\ c.tag \in Seq(SUBSET N)
  BY DEF Constraints
<1>2. /\ matchesPattern(t.name, c.branch) \in {"yes", "no", "error"}
      /\ matchesPattern(t.name, c.branch) = "error" => BadPattern \in ToSet(c.branch)
      /\ t.name \in UNION ToSet(c.branch) => matchesPattern(t.name, c.branch) # "no"
  BY <1>1, PatternAnswers
<1>3. /\ matchesPattern(t.name, c.tag) \in {"yes", "no", "error"}
      /\ matchesPattern(t.name, c.tag) = "error" => BadPattern \in ToSet(c.tag)
      /\ t.name \in UNION ToSet(c.tag) => matchesPattern(t.name, c.tag) # "no"
  BY <1>1, PatternAnswers
<1>4. MatchConstraint(c, t) = "yes" => Satisfies(t, c)
  <2>1. \A q : Range(q) = ToSet(q)
    BY DEF Range, ToSet
  <2> QED BY <2>1, MatchedConstraint DEF Satisfies
<1>5. /\ MatchRef(c, t) \in {"yes", "no", "error"}
      /\ MatchRef(c, t) = "error" => BadPattern \in ToSet(c.branch) \cup ToSet(c.tag)
  <2>1. CASE t.type = "branch"
    BY <2>1, <1>2 DEF MatchRef
  <2>2. CASE t.type = "tag"
    BY <2>2, <1>3 DEF MatchRef
  <2>3. CASE t.type \notin {"branch", "tag"}
    BY <2>3 DEF MatchRef
  <2> QED BY <2>1, <2>2, <2>3
<1>6. Satisfies(t, c) => MatchConstraint(c, t) # "no"
  <2> SUFFICES ASSUME Satisfies(t, c) PROVE MatchRef(c, t) # "no" /\ t.kind \in c.event
    BY <1>5 DEF MatchConstraint
  <2>1. CASE t.type = "branch"
    BY <2>1, <1>2 DEF MatchRef, Satisfies
  <2>2. CASE t.type = "tag"
    BY <2>2, <1>3 DEF MatchRef, Satisfies
  <2> QED BY <2>1, <2>2 DEF Satisfies
<1> QED BY <1>4, <1>5, <1>6 DEF MatchConstraint

LEMMA FileAnswers ==
  ASSUME NEW N, NEW f, NEW t, f.when \in Seq(Constraints(N)), t.name \notin BadPattern
  PROVE  /\ Match(f, t) \in {"yes", "no", "error"}
         /\ Match(f, t) = "error" =>
              \E c \in ToSet(f.when) : BadPattern \in ToSet(c.branch) \cup ToSet(c.tag)
         /\ Match(f, t) = "yes" =>
              t.kind = "manual" \/ f.when = <<>> \/ \E c \in ToSet(f.when) : Satisfies(t, c)
         /\ Match(f, t) = "no" => ~ \E c \in ToSet(f.when) : Satisfies(t, c)
<1> DEFINE T == {i \in DOMAIN f.when : MatchConstraint(f.when[i], t) # "no"}
<1>1. CASE t.kind = "manual" \/ f.when = <<>>
  BY <1>1 DEF Match
<1>2. CASE ~(t.kind = "manual" \/ f.when = <<>>)
  <2>1. Match(f, t) = IF T = {} THEN "no" ELSE MatchConstraint(f.when[Min(T)], t)
    BY <1>2 DEF Match, FirstAnswer
  <2>2. T # {} => Min(T) \in T
    <3>1. T \in SUBSET Nat
      OBVIOUS
    <3> HIDE DEF T
    <3> QED BY <3>1, MinIn
  <2>3. ASSUME NEW i \in DOMAIN f.when
        PROVE  /\ f.when[i] \in ToSet(f.when)
               /\ MatchConstraint(f.when[i], t) \in {"yes", "no", "error"}
               /\ MatchConstraint(f.when[i], t) = "error" =>
                    BadPattern \in ToSet(f.when[i].branch) \cup ToSet(f.when[i].tag)
               /\ MatchConstraint(f.when[i], t) = "yes" => Satisfies(t, f.when[i])
               /\ Satisfies(t, f.when[i]) => MatchConstraint(f.when[i], t) # "no"
    <3>1. f.when[i] \in Constraints(N) /\ f.when[i] \in ToSet(f.when)
      BY DEF ToSet
    <3> QED BY <3>1, ConstraintAnswers
  <2>4. T # {} => Match(f, t) \in {"yes", "error"}
    BY <2>1, <2>2, <2>3
  <2>5. T = {} => ~ \E c \in ToSet(f.when) : Satisfies(t, c)
    BY <2>3 DEF ToSet
  <2>6. T # {} => LET c == f.when[Min(T)]
                  IN /\ c \in ToSet(f.when)
                     /\ Match(f, t) = "error" => BadPattern \in ToSet(c.branch) \cup ToSet(c.tag)
                     /\ Match(f, t) = "yes" => Satisfies(t, c)
    BY <2>1, <2>2, <2>3
  <2> HIDE DEF T
  <2>7. CASE T = {}
    BY <2>7, <2>1, <2>5
  <2>8. CASE T # {}
    BY <2>8, <2>4, <2>6
  <2> QED BY <2>7, <2>8
<1> QED BY <1>1, <1>2

(* What is reported of a file. *)
Accounted(f, t, result) ==
  LET compiled == \E w \in result.workflows : w.name = f.name
      error    == f.name \in result.errors
      skipped  == f.name \in result.skipped
      satisfied == \E c \in ToSet(f.when) : Satisfies(t, c)
      bad == \E c \in ToSet(f.when) : BadPattern \in ToSet(c.branch) \cup ToSet(c.tag)
  IN /\ Cardinality({b \in {<<"c", compiled>>, <<"e", error>>, <<"s", skipped>>} : b[2]}) = 1
     /\ compiled => t.kind = "manual" \/ f.when = <<>> \/ satisfied
     /\ skipped => ~satisfied
     /\ error => ~f.parses \/ f.engine = "" \/ bad
     /\ result.warnings # {} => ~skipped

LEMMA OneReport ==
  ASSUME NEW A \in BOOLEAN, NEW B \in BOOLEAN, NEW C \in BOOLEAN,
         \/ A /\ ~B /\ ~C
         \/ ~A /\ B /\ ~C
         \/ ~A /\ ~B /\ C
  PROVE  Cardinality({b \in {<<"c", A>>, <<"e", B>>, <<"s", C>>} : b[2]}) = 1
<1> DEFINE a == <<"c", A>>
           b == <<"e", B>>
           c == <<"s", C>>
           S == {x \in {a, b, c} : x[2]}
<1>0. a[2] = A /\ b[2] = B /\ c[2] = C
  OBVIOUS
<1>1. \E x : S = {x}
  <2> HIDE DEF a, b, c
  <2>1. CASE A /\ ~B /\ ~C
    <3>1. a[2] /\ ~b[2] /\ ~c[2]
      BY ONLY <1>0, <2>1
    <3>2. S = {a}
      BY ONLY <3>1, Zenon DEF S
    <3> QED BY <3>2
  <2>2. CASE ~A /\ B /\ ~C
    <3>1. ~a[2] /\ b[2] /\ ~c[2]
      BY ONLY <1>0, <2>2
    <3>2. S = {b}
      BY ONLY <3>1, Zenon DEF S
    <3> QED BY <3>2
  <2>3. CASE ~A /\ ~B /\ C
    <3>1. ~a[2] /\ ~b[2] /\ c[2]
      BY ONLY <1>0, <2>3
    <3>2. S = {c}
      BY ONLY <3>1, Zenon DEF S
    <3> QED BY <3>2
  <2> QED BY <2>1, <2>2, <2>3
<1> HIDE DEF S
<1>2. Cardinality(S) = 1
  BY <1>1, FS_Singleton
<1> QED BY <1>2 DEF S

LEMMA FileAccounted ==
  ASSUME NEW N, NEW f, NEW t, f.when \in Seq(Constraints(N)), f.parses \in BOOLEAN, t.name \notin BadPattern
  PROVE  Accounted(f, t, Compile({f}, t))
<1> DEFINE r == Compile({f}, t)
           outcome == compileWorkflow(f, t)
           compiled == \E w \in r.workflows : w.name = f.name
           error    == f.name \in r.errors
           skipped  == f.name \in r.skipped
           P == Parsed({f})
           Of(outcomes) == {w \in P : compileWorkflow(w, t) \in outcomes}
<1>0. /\ r.workflows = {[name |-> w.name, engine |-> w.engine, raw |-> w.raw] : w \in Of({"compiled"})}
      /\ r.errors = {g.name : g \in {f} \ P}
                     \cup {w.name : w \in Of({"failed to execute workflow", "missing engine"})}
      /\ r.skipped = {w.name : w \in Of({"skipped"})}
      /\ r.warnings = {w.name : w \in {v \in Of({"compiled", "missing engine"}) : BadCloneOptions(v)}}
  BY DEF Compile
<1>p. P = IF f.parses THEN {f} ELSE {}
  BY DEF Parsed
<1>o. \A outcomes, w : w \in Of(outcomes) <=> w = f /\ f.parses /\ outcome \in outcomes
  BY <1>p
<1> HIDE DEF r, outcome, P, Of
<1>1. /\ compiled <=> f.parses /\ outcome = "compiled"
      /\ error <=> ~f.parses \/ outcome \in {"failed to execute workflow", "missing engine"}
      /\ skipped <=> f.parses /\ outcome = "skipped"
  <2>1. compiled <=> f.parses /\ outcome = "compiled"
    <3>1. \A w : w \in Of({"compiled"}) <=> w = f /\ f.parses /\ outcome = "compiled"
      BY <1>o
    <3>2. compiled <=> \E w \in Of({"compiled"}) : w.name = f.name
      <4> DEFINE ran == Of({"compiled"})
                 Result(w) == [name |-> w.name, engine |-> w.engine, raw |-> w.raw]
      <4>1. \A w : Result(w).name = w.name
        OBVIOUS
      <4>2. r.workflows = {Result(w) : w \in ran}
        BY <1>0
      <4> HIDE DEF ran, Result
      <4>3. (\E w \in r.workflows : w.name = f.name) <=> \E w \in ran : w.name = f.name
        BY <4>1, <4>2
      <4> QED BY <4>3 DEF ran
    <3> QED BY <3>1, <3>2
  <2>2. error <=> ~f.parses \/ outcome \in {"failed to execute workflow", "missing engine"}
    <3> DEFINE bad == {"failed to execute workflow", "missing engine"}
    <3>1. \A w : w \in Of(bad) <=> w = f /\ f.parses /\ outcome \in bad
      BY <1>o
    <3>2. error <=> (\E w \in {f} \ P : w.name = f.name) \/ \E w \in Of(bad) : w.name = f.name
      BY <1>0
    <3>3. (\E w \in {f} \ P : w.name = f.name) <=> ~f.parses
      BY <1>p
    <3> HIDE DEF bad
    <3>4. error <=> ~f.parses \/ (f.parses /\ outcome \in bad)
      BY <3>1, <3>2, <3>3
    <3> QED BY <3>4 DEF bad
  <2>3. skipped <=> f.parses /\ outcome = "skipped"
    <3>1. \A w : w \in Of({"skipped"}) <=> w = f /\ f.parses /\ outcome = "skipped"
      BY <1>o
    <3>2. skipped <=> \E w \in Of({"skipped"}) : w.name = f.name
      BY <1>0
    <3> QED BY <3>1, <3>2
  <2> QED BY <2>1, <2>2, <2>3
<1>2. r.warnings # {} => f.parses /\ outcome \in {"compiled", "missing engine"}
  <2> SUFFICES ASSUME r.warnings # {} PROVE f.parses /\ outcome \in {"compiled", "missing engine"}
    OBVIOUS
  <2>1. PICK w \in Of({"compiled", "missing engine"}) : TRUE
    BY <1>0
  <2> QED BY <2>1, <1>o
<1>3. /\ Match(f, t) \in {"yes", "no", "error"}
      /\ Match(f, t) = "error" =>
           \E c \in ToSet(f.when) : BadPattern \in ToSet(c.branch) \cup ToSet(c.tag)
      /\ Match(f, t) = "yes" =>
           t.kind = "manual" \/ f.when = <<>> \/ \E c \in ToSet(f.when) : Satisfies(t, c)
      /\ Match(f, t) = "no" => ~ \E c \in ToSet(f.when) : Satisfies(t, c)
  BY FileAnswers
<1>4. /\ outcome \in {"compiled", "failed to execute workflow", "missing engine", "skipped"}
      /\ outcome = "compiled" => Match(f, t) = "yes"
      /\ outcome = "skipped" => Match(f, t) = "no"
      /\ outcome = "failed to execute workflow" => Match(f, t) = "error"
      /\ outcome = "missing engine" => f.engine = ""
  BY <1>3 DEF compileWorkflow, outcome
<1>5. compiled \in BOOLEAN /\ error \in BOOLEAN /\ skipped \in BOOLEAN
  OBVIOUS
<1> HIDE DEF compiled, error, skipped
<1>6. Cardinality({b \in {<<"c", compiled>>, <<"e", error>>, <<"s", skipped>>} : b[2]}) = 1
  BY <1>1, <1>4, <1>5, OneReport
<1> QED BY <1>1, <1>2, <1>3, <1>4, <1>6 DEF Accounted, r, compiled, error, skipped

(***************************************************************************)
(* The runs of the two algorithms.                                         *)
(***************************************************************************)
GoodEvent(e) ==
  /\ e.kind \in {"star", "follow", "issue", "issueComment", "issueState", "pull",
                 "pullComment", "pullState"}
  /\ e.kind = "pullState" => e.state \in {"open", "closed", "merged"}
  /\ IsFiniteSet(e.mentions)

(* The texts of the files' constraints. *)
PatternNames == {"push", "pull_request", "main", "v1"} \cup BadPattern

GoodFile(f) == f.when \in Seq(Constraints(PatternNames)) /\ f.parses \in BOOLEAN

(* One step ends either of them, and what it computes is of the input.     *)
FanOutInv ==
  job.alg = "notify" =>
    /\ GoodEvent(job.event)
    /\ stage \in {"in", "out"}
    /\ stage = "out" => out = Notified(job.world, job.event)

CompileInv ==
  job.alg = "compile" =>
    /\ GoodFile(job.file) /\ job.trigger.name \notin BadPattern
    /\ stage \in {"in", "out"}
    /\ stage = "out" => out = Compile({job.file}, job.trigger)

LEMMA EventsGood == \A e \in Events : GoodEvent(e)
<1> SUFFICES ASSUME NEW e \in Events PROVE GoodEvent(e)
  OBVIOUS
<1>1. /\ e.kind \in {"star", "follow", "issue", "issueComment", "issueState", "pull",
                     "pullComment", "pullState"}
      /\ e.state \in {"open", "closed", "merged"}
      /\ e.mentions \in SUBSET Account
  BY DEF Events
<1>2. IsFiniteSet(e.mentions)
  BY <1>1, FS_Subset, MentionsAssumption
<1> QED BY <1>1, <1>2 DEF GoodEvent

LEMMA FilesGood ==
  /\ \A f \in WorkflowFiles : GoodFile(f)
  /\ \A t \in Triggers : t.name \notin BadPattern
<1> DEFINE constraints ==
      [event : {{"push"}, {"pull_request"}}, tag : {<<>>, <<{"v1"}>>},
       branch : {<<>>, <<{"main"}>>, <<BadPattern>>, <<{"main"}, BadPattern>>,
                 <<BadPattern, {"main"}>>}]
<1>1. constraints \subseteq Constraints(PatternNames)
  <2> DEFINE texts == SUBSET PatternNames
  <2>1. BadPattern \in texts /\ {"main"} \in texts /\ {"v1"} \in texts
        /\ {"push"} \in texts /\ {"pull_request"} \in texts
    BY DEF PatternNames
  <2> HIDE DEF texts
  <2>2. <<>> \in Seq(texts) /\ \A x, y \in texts : <<x>> \in Seq(texts) /\ <<x, y>> \in Seq(texts)
    OBVIOUS
  <2>3. {{"push"}, {"pull_request"}} \subseteq texts
    BY <2>1
  <2>4. {<<>>, <<{"v1"}>>} \subseteq Seq(texts)
    BY <2>1, <2>2
  <2>5. {<<>>, <<{"main"}>>, <<BadPattern>>, <<{"main"}, BadPattern>>, <<BadPattern, {"main"}>>}
           \subseteq Seq(texts)
    BY <2>1, <2>2
  <2> QED BY <2>3, <2>4, <2>5 DEF Constraints, texts
<1>2. ASSUME NEW f \in WorkflowFiles PROVE GoodFile(f)
  <2>1. /\ f.parses \in BOOLEAN
        /\ f.when \in {<<>>} \cup {<<c>> : c \in constraints} \cup constraints \X constraints
    BY DEF WorkflowFiles
  <2> HIDE DEF constraints
  <2>2. <<>> \in Seq(Constraints(PatternNames))
    OBVIOUS
  <2>3. \A c \in Constraints(PatternNames) : <<c>> \in Seq(Constraints(PatternNames))
    OBVIOUS
  <2>4. \A p \in Constraints(PatternNames) \X Constraints(PatternNames) : p \in Seq(Constraints(PatternNames))
    <3> SUFFICES ASSUME NEW p \in Constraints(PatternNames) \X Constraints(PatternNames) PROVE p \in Seq(Constraints(PatternNames))
      OBVIOUS
    <3>1. p = <<p[1], p[2]>> /\ p[1] \in Constraints(PatternNames) /\ p[2] \in Constraints(PatternNames)
      OBVIOUS
    <3>2. \A c, d \in Constraints(PatternNames) : <<c, d>> \in Seq(Constraints(PatternNames))
      OBVIOUS
    <3>3. <<p[1], p[2]>> \in Seq(Constraints(PatternNames))
      BY <3>1, <3>2
    <3> QED BY <3>1, <3>3, Zenon
  <2>5. constraints \X constraints \subseteq Constraints(PatternNames) \X Constraints(PatternNames)
    BY <1>1
  <2>6. f.when \in Seq(Constraints(PatternNames))
    BY <1>1, <2>1, <2>2, <2>3, <2>4, <2>5
  <2> QED BY <2>1, <2>6 DEF GoodFile
<1>3. ASSUME NEW t \in Triggers PROVE t.name \notin BadPattern
  BY DEF Triggers, BadPattern
<1> QED BY <1>2, <1>3

LEMMA InputsGood == AlgorithmInit => FanOutInv /\ CompileInv
<1> SUFFICES ASSUME AlgorithmInit PROVE FanOutInv /\ CompileInv
  OBVIOUS
<1>0. stage = "in"
  BY DEF AlgorithmInit
<1>1. CASE \E w \in Worlds, e \in Events : job = [alg |-> "notify", world |-> w, event |-> e]
  BY <1>0, <1>1, EventsGood DEF FanOutInv, CompileInv
<1>2. CASE \E f \in WorkflowFiles, t \in Triggers : job = [alg |-> "compile", file |-> f, trigger |-> t]
  BY <1>0, <1>2, FilesGood DEF FanOutInv, CompileInv
<1>3. CASE job.alg \notin {"notify", "compile"}
  BY <1>3 DEF FanOutInv, CompileInv
<1>4. \/ \E w \in Worlds, e \in Events : job = [alg |-> "notify", world |-> w, event |-> e]
      \/ \E f \in WorkflowFiles, t \in Triggers : job = [alg |-> "compile", file |-> f, trigger |-> t]
      \/ job.alg \in {"codec", "interdiff", "combine"}
  <2>1. CASE \E t \in DOMAIN Codecs : \E v \in Records(t) : job = [alg |-> "codec", type |-> t, val |-> v]
    BY <2>1
  <2>2. CASE \E r \in Rounds : \E p \in DiffTable[<<r[1], r[2]>>], q \in DiffTable[<<r[1], r[3]>>] :
               job = [alg |-> "interdiff", texts |-> r, p1 |-> p, p2 |-> q]
    <3>1. job.alg = "interdiff"
      BY <2>2
    <3> QED BY <3>1
  <2>3. CASE \E r \in Rounds : \E p \in DiffTable[<<r[1], r[2]>>], q \in DiffTable[<<r[2], r[3]>>] :
               job = [alg |-> "combine", texts |-> r, p1 |-> p, p2 |-> q]
    <3>1. job.alg = "combine"
      BY <2>3
    <3> QED BY <3>1
  <2> QED BY <2>1, <2>2, <2>3 DEF AlgorithmInit
<1> QED BY <1>1, <1>2, <1>3, <1>4

LEMMA StepsGood ==
  FanOutInv /\ CompileInv /\ [AlgorithmNext]_algorithmVars => FanOutInv' /\ CompileInv'
<1> SUFFICES ASSUME FanOutInv, CompileInv, [AlgorithmNext]_algorithmVars
             PROVE  FanOutInv' /\ CompileInv'
  OBVIOUS
<1>1. CASE MarshalCBOR
  BY <1>1 DEF MarshalCBOR, FanOutInv, CompileInv
<1>2. CASE Relay
  BY <1>2 DEF Relay, FanOutInv, CompileInv
<1>3. CASE UnmarshalCBOR
  BY <1>3 DEF UnmarshalCBOR, Finish, FanOutInv, CompileInv
<1>4. CASE Compare
  BY <1>4 DEF Compare, Finish, FanOutInv, CompileInv
<1>5. CASE Combine
  BY <1>5 DEF Combine, Finish, FanOutInv, CompileInv
<1>6. CASE FanOut
  BY <1>6 DEF FanOut, Finish, FanOutInv, CompileInv
<1>7. CASE CompileFile
  BY <1>7 DEF CompileFile, Finish, FanOutInv, CompileInv
<1>8. CASE UNCHANGED algorithmVars
  BY <1>8 DEF algorithmVars, FanOutInv, CompileInv
<1> QED BY <1>1, <1>2, <1>3, <1>4, <1>5, <1>6, <1>7, <1>8 DEF AlgorithmNext

LEMMA AlgorithmsInvariant == AlgorithmSpec => [](FanOutInv /\ CompileInv)
  BY InputsGood, StepsGood, PTL DEF AlgorithmSpec

(* Of an event (models/notifications.go, notify/db/db.go) every user hears *)
(* at most once and its actor never, and the owner and the users mentioned *)
(* hear of it: for any users, mentions, threads and rows of preferences.   *)
THEOREM EventsAreToldOnce == AlgorithmSpec => []ToldOnce
<1>1. FanOutInv => ToldOnce
  <2> SUFFICES ASSUME FanOutInv, job.alg = "notify", stage = "out" PROVE ToldOnce
    BY DEF ToldOnce
  <2>1. GoodEvent(job.event) /\ out = Notified(job.world, job.event)
    BY DEF FanOutInv
  <2>2. ToldAsDue(job.world, job.event, out)
    BY <2>1, EventTold DEF GoodEvent
  <2> QED BY <2>2 DEF ToldAsDue, ToldOnce, MentioningKinds
<1> QED BY <1>1, AlgorithmsInvariant, PTL

(* The compiler (workflow/compile.go) accounts for every file: compiled,   *)
(* an error or skipped, one of these, and for its cause.  FileAccounted    *)
(* says it of every file and trigger, whatever its constraints; the runs   *)
(* of Algorithms are instances.                                            *)
THEOREM FilesAreAccounted == AlgorithmSpec => []FilesAccounted
<1>1. CompileInv => FilesAccounted
  <2> SUFFICES ASSUME CompileInv, job.alg = "compile", stage = "out" PROVE FilesAccounted
    BY DEF FilesAccounted
  <2>1. /\ GoodFile(job.file) /\ job.trigger.name \notin BadPattern
        /\ out = Compile({job.file}, job.trigger)
    BY DEF CompileInv
  <2>2. Accounted(job.file, job.trigger, out)
    BY <2>1, FileAccounted DEF GoodFile
  <2> QED BY <2>2 DEF Accounted, FilesAccounted
<1> QED BY <1>1, AlgorithmsInvariant, PTL
=============================================================================
