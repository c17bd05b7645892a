------------------------------- MODULE Repos -------------------------------
(***************************************************************************)
(* The life of a repository: NewRepo and ForkRepo, AddCollaborator and     *)
(* DeleteRepo of the appview, and the knot's CreateRepo, DeleteRepo and    *)
(* processCollaborator.  One repository lives in five places: a record on  *)
(* the owner's PDS, a row of the appview, the appview's policies in memory *)
(* and on disk, and the knot with its files and its own policies.  No      *)
(* transaction spans them; each handler writes them one after the other    *)
(* and undoes some of them when a later one fails.                         *)
(*                                                                         *)
(* The appview's policies share the database file, as in Servers; the      *)
(* knot saves its policies with every change.                              *)
(***************************************************************************)
EXTENDS Integers, Sequences, FiniteSets, Rbac

CONSTANTS
  User,      \* accounts
  Admin,     \* the account that owns the knots
  Members,   \* accounts that are members of the knots
  Knot,
  Name,      \* repository names
  Request,   \* goroutines that serve HTTP requests
  Nobody,
  MaxCalls,  \* bound: requests
  MaxOthers, \* bound: collaborator records written by other clients
  MaxFaults  \* bound: failed calls and restarts of the appview

(* Accounts are DIDs, never the names of the roles. *)
ASSUME ReposAssumption ==
  /\ Admin \in User /\ Members \subseteq User
  /\ Owner \notin User /\ Member \notin User
  /\ Nobody \notin Request
  /\ MaxCalls \in Nat /\ MaxOthers \in Nat /\ MaxFaults \in Nat

VARIABLES
  rows,     \* table repos
  collabs,  \* table collaborators
  mem,      \* the appview's policies in memory
  disk,     \* the appview's policies in the acl table
  lock,     \* the writer of the database
  records,  \* repository and collaborator records on the PDSs
  files,    \* per knot: the paths <<did, name>> that exist
  kpol,     \* per knot: its policies
  feed,     \* per knot: collaborator records to ingest
  pc, job,  \* where each goroutine is, and its request
  scarred,  \* history: paths a fault, a crash or a race left inconsistent
  invited,  \* history: <<subject, path>> named by a record of the path's owner
  calls, others, faults  \* history: for the bounds

stores == <<rows, collabs, mem, disk, lock>>
world  == <<records, files, kpol, feed>>
hist   == <<scarred, invited>>
bounds == <<calls, others, faults>>
vars   == <<stores, world, pc, job, hist, bounds>>

Rkey == 1..(MaxCalls + MaxOthers)
Path == User \X Name

(* Rows and records of a repository have the same fields. *)
Repo == [did : User, name : Name, knot : Knot, rkey : Rkey]

(* A collaborator record, or row, names a repository by its at-uri. *)
Collab == [did : User, rkey : Rkey, subject : User, at : User \X Rkey]

PathOf(r) == <<r.did, r.name>>
AtUri(r)  == <<r.did, r.rkey>>
Domain(k) == <<"knot", k>>

Where == {"idle", "put", "knot", "grant", "purge", "write", "commit", "save", "load",
          "abort", "unput"}

Idle == [op |-> "idle"]

(* The owner of the knots and their members, as the appview and the knots  *)
(* know them.                                                              *)
Roles(k) ==
  LET p == AddOwner(AddServer(NoPolicies, Domain(k)), Domain(k), Admin)
  IN  [p EXCEPT !.g = @ \cup {<<u, Member, Domain(k)>> : u \in Members}]

AllRoles == [p |-> UNION {Roles(k).p : k \in Knot}, g |-> UNION {Roles(k).g : k \in Knot}]

Rules == {Owner} \cup User

TypeOK ==
  /\ rows \subseteq Repo
  /\ records.repo \subseteq Repo /\ records.collab \subseteq Collab
  /\ collabs \subseteq Collab
  /\ \A pol \in {mem, disk} \cup {kpol[k] : k \in Knot} :
       pol.g \subseteq AllRoles.g /\ {r[1] : r \in pol.p} \subseteq Rules \cup {Member}
  /\ lock \in Request \cup {Nobody}
  /\ pc \in [Request -> Where]
  /\ \A a \in Request : lock = a => pc[a] = "commit"
  /\ files \in [Knot -> SUBSET Path]
  /\ scarred \subseteq Path
  /\ bounds \in (0..MaxCalls) \X (0..MaxOthers) \X (0..MaxFaults)

Init ==
  /\ rows = {} /\ collabs = {}
  /\ mem = AllRoles /\ disk = AllRoles
  /\ lock = Nobody
  /\ records = [repo |-> {}, collab |-> {}]
  /\ files = [k \in Knot |-> {}]
  /\ kpol = [k \in Knot |-> Roles(k)]
  /\ feed = [k \in Knot |-> << >>]
  /\ pc = [a \in Request |-> "idle"]
  /\ job = [a \in Request |-> Idle]
  /\ scarred = {} /\ invited = {}
  /\ calls = 0 /\ others = 0 /\ faults = 0

Goto(a, l) ==
  /\ pc' = [pc EXCEPT ![a] = l]
  /\ job' = IF l = "idle" THEN [job EXCEPT ![a] = Idle] ELSE job

(* A call of the PDS, of the knot or of the database fails. *)
Fail == faults < MaxFaults /\ faults' = faults + 1 /\ UNCHANGED <<calls, others>>

Scar(a) == scarred' = scarred \cup {PathOf(job[a].repo)}

(* a has changed the policies in memory and not saved them yet. *)
Unsaved(a) ==
  \/ pc[a] \in {"commit", "save"}
  \/ pc[a] = "write" /\ job[a].op # "create"

----------------------------------------------------------------------------
(***************************************************************************)
(* Requests: the permission and the lookup of the row.                     *)
(***************************************************************************)
Call(a, op, u, r, m, from, l) ==
  /\ pc[a] = "idle" /\ calls < MaxCalls
  /\ calls' = calls + 1
  /\ pc' = [pc EXCEPT ![a] = l]
  /\ job' = [job EXCEPT ![a] = [op |-> op, user |-> u, repo |-> r, subject |-> m,
                                from |-> from, rkey |-> calls + others + 1]]
  /\ UNCHANGED <<stores, world, hist, others, faults>>

(* A name may be used once per account. *)
NewRepo(a, u, n, k) ==
  /\ IsRepoCreateAllowed(mem, u, Domain(k))
  /\ ~\E r \in rows : PathOf(r) = <<u, n>>
  /\ Call(a, "create", u,
          [did |-> u, name |-> n, knot |-> k, rkey |-> calls + others + 1], u, {}, "put")

(* A fork of f is a new repository that the knot fills from f's clone url. *)
ForkRepo(a, u, f, n, k) ==
  /\ IsRepoCreateAllowed(mem, u, Domain(k))
  /\ ~\E r \in rows : PathOf(r) = <<u, n>>
  /\ Call(a, "create", u,
          [did |-> u, name |-> n, knot |-> k, rkey |-> calls + others + 1], u, {f}, "put")

RepoPermission(u, r, act) == Enforce(mem, u, Domain(r.knot), PathOf(r), act)

AddCollaboratorReq(a, u, r, m) ==
  /\ RepoPermission(u, r, "repo:invite")
  /\ Call(a, "invite", u, r, m, {}, "put")

DeleteRepo(a, u, r) ==
  /\ RepoPermission(u, r, "repo:delete")
  /\ Call(a, "delete", u, r, u, {}, "put")

(***************************************************************************)
(* The user's PDS.                                                         *)
(***************************************************************************)
CollabRecord(a) ==
  [did |-> job[a].user, rkey |-> job[a].rkey, subject |-> job[a].subject,
   at |-> AtUri(job[a].repo)]

(* A collaborator record reaches every knot; it is an invitation if its    *)
(* author owns the repository.                                             *)
Announce(c, path) ==
  /\ records' = [records EXCEPT !.collab = @ \cup {c}]
  /\ feed' = [k \in Knot |-> Append(feed[k], c)]
  /\ invited' = invited \cup IF c.did = path[1] THEN {<<c.subject, path>>} ELSE {}

(* RepoPutRecord, or RepoDeleteRecord in the repository of the user who    *)
(* asks: the record of another owner stays.                                *)
PdsWrite(a) ==
  /\ pc[a] = "put"
  /\ CASE job[a].op = "create" ->
            /\ records' = [records EXCEPT !.repo = @ \cup {job[a].repo}]
            /\ Goto(a, "knot")
            /\ UNCHANGED <<feed, hist>>
       [] job[a].op = "invite" ->
            /\ Announce(CollabRecord(a), PathOf(job[a].repo))
            /\ Goto(a, "grant")
            /\ UNCHANGED scarred
       [] job[a].op = "delete" ->
            /\ records' = [records EXCEPT !.repo =
                 @ \ {r \in @ : AtUri(r) = <<job[a].user, job[a].repo.rkey>>}]
            /\ IF job[a].user = job[a].repo.did THEN UNCHANGED scarred ELSE Scar(a)
            /\ Goto(a, "knot")
            /\ UNCHANGED <<feed, invited>>
  /\ UNCHANGED <<stores, files, kpol, bounds>>

PdsError(a) ==
  /\ pc[a] = "put" /\ Fail
  /\ Goto(a, "idle")
  /\ UNCHANGED <<stores, world, hist>>

(* rollbackRecord. *)
RollbackRecord(a) ==
  /\ pc[a] = "unput"
  /\ \/ /\ records' = IF job[a].op = "create"
                      THEN [records EXCEPT !.repo = @ \ {job[a].repo}]
                      ELSE [records EXCEPT !.collab = @ \ {CollabRecord(a)}]
        /\ UNCHANGED <<hist, bounds>>
     \/ Fail /\ Scar(a) /\ UNCHANGED <<records, invited>>
  /\ Goto(a, "idle")
  /\ UNCHANGED <<stores, files, kpol, feed>>

(***************************************************************************)
(* The knot.                                                               *)
(***************************************************************************)

(* Where the appview goes when the knot, or the way to it, fails. *)
Failed(a) == IF job[a].op = "create" THEN "abort" ELSE "idle"

(* Mutant: an existing path is initialised again. *)
CreateAllowed_Reinit(r, from) ==
  /\ IsRepoCreateAllowed(kpol[r.knot], r.did, Domain(r.knot))
  /\ r \in records.repo

(* CreateRepo: a member, whose record is on the PDS; InitBare and a clone  *)
(* fail if the path exists, and a clone if its source does not.            *)
CreateAllowed(r, from) ==
  /\ IsRepoCreateAllowed(kpol[r.knot], r.did, Domain(r.knot))
  /\ r \in records.repo
  /\ PathOf(r) \notin files[r.knot]
  /\ \A f \in from : PathOf(f) \in files[f.knot]

CreateRepo(r) ==
  /\ files' = [files EXCEPT ![r.knot] = @ \cup {PathOf(r)}]
  /\ kpol' = [kpol EXCEPT ![r.knot] = AddRepo(@, r.did, Domain(r.knot), PathOf(r))]

(* DeleteRepo: the record must be gone from the actor's PDS.  The rules of *)
(* collaborators stay.                                                     *)
DeleteAllowed(u, r) ==
  /\ ~\E q \in records.repo : AtUri(q) = <<u, r.rkey>>
  /\ Enforce(kpol[r.knot], u, Domain(r.knot), PathOf(r), "repo:delete")

(* Mutant: the owner's rules stay. *)
RemoveFiles_KeepsRules(r) ==
  /\ files' = [files EXCEPT ![r.knot] = @ \ {PathOf(r)}]
  /\ UNCHANGED kpol

RemoveFiles(r) ==
  /\ files' = [files EXCEPT ![r.knot] = @ \ {PathOf(r)}]
  /\ kpol' = [kpol EXCEPT ![r.knot] = RemoveRepo(@, r.did, Domain(r.knot), PathOf(r))]

(* The call of the knot; its answer may be lost after the work was done. *)
KnotCall(a) ==
  LET r == job[a].repo
      create == job[a].op = "create"
      allowed == IF create THEN CreateAllowed(r, job[a].from) ELSE DeleteAllowed(job[a].user, r)
  IN
  /\ pc[a] = "knot"
  /\ \/ /\ allowed
        /\ IF create THEN CreateRepo(r) ELSE RemoveFiles(r)
        /\ \/ /\ Goto(a, IF create THEN "write" ELSE "purge")
              /\ UNCHANGED <<scarred, bounds>>
           \/ Fail /\ Goto(a, Failed(a)) /\ Scar(a)
     \/ /\ IF allowed THEN Fail ELSE UNCHANGED bounds
        /\ Goto(a, Failed(a))
        /\ IF create THEN UNCHANGED scarred ELSE Scar(a)
        /\ UNCHANGED <<files, kpol>>
  /\ UNCHANGED <<stores, records, feed, invited>>

(* Mutant: the author's right to invite is not checked. *)
processCollaborator_Unchecked(k) ==
  /\ feed[k] # << >>
  /\ feed' = [feed EXCEPT ![k] = Tail(@)]
  /\ kpol' = LET c == Head(feed[k])
                 rs == {r \in records.repo : AtUri(r) = c.at}
             IN  [kpol EXCEPT ![k] =
                    IF rs = {} THEN @
                    ELSE AddCollaborator(@, c.subject, Domain(k),
                                         PathOf(CHOOSE r \in rs : TRUE))]
  /\ UNCHANGED <<stores, records, files, pc, job, hist, bounds>>

(* processCollaborator: the repository is looked up on its owner's PDS,    *)
(* the author of the record must be allowed to invite.  That the           *)
(* collaborator record still exists is not checked.                        *)
processCollaborator(k) ==
  /\ feed[k] # << >>
  /\ feed' = [feed EXCEPT ![k] = Tail(@)]
  /\ LET c == Head(feed[k])
         found(r) == /\ AtUri(r) = c.at
                     /\ Enforce(kpol[k], c.did, Domain(k), PathOf(r), "repo:invite")
         rs == {r \in records.repo : found(r)}
     IN  kpol' = [kpol EXCEPT ![k] =
                    IF rs = {} THEN @
                    ELSE AddCollaborator(@, c.subject, Domain(k),
                                         PathOf(CHOOSE r \in rs : TRUE))]
  /\ UNCHANGED <<stores, records, files, pc, job, hist, bounds>>

(***************************************************************************)
(* The appview's transaction.                                              *)
(***************************************************************************)

(* AddCollaborator changes the policies before the transaction writes... *)
Grant(a) ==
  LET r == job[a].repo IN
  /\ pc[a] = "grant"
  /\ mem' = AddCollaborator(mem, job[a].subject, Domain(r.knot), PathOf(r))
  /\ Goto(a, "write")
  /\ UNCHANGED <<rows, collabs, disk, lock, world, hist, bounds>>

(* ...and so does DeleteRepo: everyone with a rule for the path loses the  *)
(* rules of a collaborator, then the owner's rules go.                     *)
Purge(a) ==
  LET d == Domain(job[a].repo.knot)  path == PathOf(job[a].repo)
      theirs == UNION {collaboratorPolicies(u, d, path) : u \in User}
  IN
  /\ pc[a] = "purge"
  /\ mem' = RemoveRepo(RemovePolicies(mem, theirs), job[a].repo.did, d, path)
  /\ Goto(a, "write")
  /\ UNCHANGED <<rows, collabs, disk, lock, world, hist, bounds>>

(* The statement that takes the write lock.  A collaborator needs the row  *)
(* of the repository (a foreign key).  NewRepo adds its rules after it.    *)
Write(a) ==
  LET r == job[a].repo IN
  /\ pc[a] = "write" /\ lock = Nobody
  /\ IF job[a].op = "invite" /\ ~\E q \in rows : AtUri(q) = AtUri(r)
     THEN Goto(a, "abort") /\ UNCHANGED <<mem, lock>>
     ELSE /\ mem' = IF job[a].op # "create" THEN mem
                    ELSE AddRepo(mem, r.did, Domain(r.knot), PathOf(r))
          /\ lock' = a
          /\ Goto(a, "commit")
  /\ UNCHANGED <<rows, collabs, disk, world, hist, bounds>>

(* RemoveRepo deletes by account and name; collaborators go with the row. *)
Gone(a) == {r \in rows : PathOf(r) = PathOf(job[a].repo)}

TxRows(a) ==
  CASE job[a].op = "create" -> rows \cup {job[a].repo}
    [] job[a].op = "delete" -> rows \ Gone(a)
    [] OTHER                -> rows

TxCollabs(a) ==
  CASE job[a].op = "invite" -> collabs \cup {CollabRecord(a)}
    [] job[a].op = "delete" -> {c \in collabs : ~\E r \in Gone(a) : AtUri(r) = c.at}
    [] OTHER                -> collabs

(* Another request created the name again while this one deleted it. *)
Commit(a) ==
  /\ pc[a] = "commit"
  /\ rows' = TxRows(a) /\ collabs' = TxCollabs(a)
  /\ lock' = Nobody
  /\ IF job[a].op = "delete" /\ Gone(a) # {job[a].repo} THEN Scar(a) ELSE UNCHANGED scarred
  /\ Goto(a, "save")
  /\ UNCHANGED <<mem, disk, world, invited, bounds>>

(* A statement or the commit fails.  The files of a new repository stay on *)
(* the knot, the row of a deleted one stays without them.                  *)
TxError(a) ==
  /\ pc[a] = "commit" /\ Fail
  /\ lock' = Nobody
  /\ IF job[a].op = "invite" THEN UNCHANGED scarred ELSE Scar(a)
  /\ Goto(a, IF job[a].op = "delete" THEN "load" ELSE "abort")
  /\ UNCHANGED <<rows, collabs, mem, disk, world, invited>>

SavePolicy(a) ==
  /\ pc[a] = "save" /\ lock = Nobody
  /\ disk' = mem
  /\ scarred' = scarred \cup {PathOf(job[b].repo) :
                  b \in {c \in Request \ {a} : pc[c] = "abort" \/ Unsaved(c)}}
  /\ Goto(a, "load")
  /\ UNCHANGED <<rows, collabs, mem, lock, world, invited, bounds>>

(* The deferred rollback of NewRepo and AddCollaborator still knows the    *)
(* record and deletes it, although the row is committed.                   *)
SaveError(a) ==
  /\ pc[a] = "save" /\ Fail
  /\ Scar(a)
  /\ Goto(a, IF job[a].op = "delete" THEN "load" ELSE "abort")
  /\ UNCHANGED <<stores, world, invited>>

(* Mutant: only the transaction is rolled back. *)
LoadPolicy_Skipped(a) ==
  /\ pc[a] \in {"load", "abort"}
  /\ Goto(a, IF pc[a] = "abort" THEN "unput" ELSE "idle")
  /\ UNCHANGED <<stores, world, hist, bounds>>

(* The deferred LoadPolicy, after success too: what others have not saved  *)
(* is lost.                                                                *)
LoadPolicy(a) ==
  /\ pc[a] \in {"load", "abort"}
  /\ mem' = disk
  /\ scarred' = scarred \cup {PathOf(job[b].repo) : b \in {c \in Request \ {a} : Unsaved(c)}}
  /\ Goto(a, IF pc[a] = "abort" THEN "unput" ELSE "idle")
  /\ UNCHANGED <<rows, collabs, disk, lock, world, invited, bounds>>

(* The appview restarts: nothing is undone. *)
Crash ==
  /\ Fail
  /\ scarred' = scarred \cup {PathOf(job[a].repo) : a \in {b \in Request : pc[b] # "idle"}}
  /\ mem' = disk /\ lock' = Nobody
  /\ pc' = [a \in Request |-> "idle"] /\ job' = [a \in Request |-> Idle]
  /\ UNCHANGED <<rows, collabs, disk, world, invited>>

(* Another client writes a collaborator record to its PDS. *)
OtherClient(u, m, r) ==
  /\ others < MaxOthers
  /\ others' = others + 1
  /\ Announce([did |-> u, rkey |-> calls + others + 1, subject |-> m, at |-> AtUri(r)],
              PathOf(r))
  /\ UNCHANGED <<stores, files, kpol, pc, job, scarred, calls, faults>>

----------------------------------------------------------------------------
Step(a) ==
  \/ \E u \in User, n \in Name, k \in Knot : NewRepo(a, u, n, k)
  \/ \E u \in User, r \in rows :
       \/ \E n \in Name, k \in Knot : ForkRepo(a, u, r, n, k)
       \/ \E m \in User \ {u} : AddCollaboratorReq(a, u, r, m)
       \/ DeleteRepo(a, u, r)
  \/ PdsWrite(a) \/ PdsError(a) \/ RollbackRecord(a) \/ KnotCall(a) \/ Grant(a) \/ Purge(a)
  \/ Write(a) \/ Commit(a) \/ TxError(a) \/ SavePolicy(a) \/ SaveError(a) \/ LoadPolicy(a)

Next ==
  \/ \E a \in Request : Step(a)
  \/ \E k \in Knot : processCollaborator(k)
  \/ \E u, m \in User, r \in rows : OtherClient(u, m, r)
  \/ Crash

Spec == Init /\ [][Next]_vars

----------------------------------------------------------------------------
(***************************************************************************)
(* Properties.                                                             *)
(***************************************************************************)
Quiet(path) == \A a \in Request : pc[a] # "idle" => PathOf(job[a].repo) # path

Has(pol, u, k, path, act) == <<u, Domain(k), path, act>> \in pol.p

(* The five places agree: while no request works on a path, its row, its   *)
(* record, its files on the knot and the owner's rules on the knot, in     *)
(* memory and on disk are all there or all gone, whatever was refused or   *)
(* rolled back before.  scarred names the exceptions where the code gives  *)
(* up: a lost answer of the knot, a database or PDS error after the knot's *)
(* part, a failed save, a crash, an unsaved change lost to another         *)
(* request's LoadPolicy or saved before its rollback, a deletion by the    *)
(* owner of the knot and a name created again during its deletion.         *)
PlacesAgree ==
  \A path \in Path, k \in Knot :
    LET row == \E r \in rows : PathOf(r) = path /\ r.knot = k IN
    Quiet(path) /\ path \notin scarred =>
      /\ row <=> \E r \in records.repo : PathOf(r) = path /\ r.knot = k
      /\ row <=> path \in files[k]
      /\ \A pol \in {mem, disk, kpol[k]} : row <=> Has(pol, path[1], k, path, "repo:owner")

(* The appview's rules for collaborators follow their rows: an invitation  *)
(* that is rolled back leaves no rule, a repository that is deleted no     *)
(* rule of any collaborator, and one that is created again starts without  *)
(* them.                                                                   *)
CollaboratorsAgree ==
  \A path \in Path, k \in Knot, u \in User :
    Quiet(path) /\ path \notin scarred =>
      \A pol \in {mem, disk} :
        Has(pol, u, k, path, "repo:collaborator") <=>
          \E c \in collabs, r \in rows :
            c.subject = u /\ c.at = AtUri(r) /\ PathOf(r) = path /\ r.knot = k

(* Nobody but its owner may push to a repository, on the knot or in the    *)
(* appview, without a collaborator record of the owner: not after a failed *)
(* invitation, a record of somebody else or a repository created again.    *)
PushWasInvited ==
  \A pol \in {mem, disk} \cup {kpol[k] : k \in Knot} :
    \A r \in pol.p : r[4] = "repo:push" =>
      r[1] = r[3][1] \/ <<r[1], r[3]>> \in invited

(* A request took the files of a path and has yet to take its rows. *)
Removing(a) == job[a].op = "delete" /\ pc[a] \in {"purge", "write", "commit"}

(* A path has one row per knot, although the appview checks the name long  *)
(* before it writes the row and the table allows two rows: the knot turns  *)
(* down the second of two concurrent NewRepo.  Only while the path is      *)
(* being deleted, its files gone and its row not, can a second row appear. *)
OneRowPerPath ==
  \A r, q \in rows :
    PathOf(r) = PathOf(q) /\ r.knot = q.knot /\ r # q =>
      \/ PathOf(r) \in scarred
      \/ \E a \in Request : Removing(a) /\ PathOf(job[a].repo) = PathOf(r)

=============================================================================
