-------------------------------- MODULE Rbac --------------------------------
(***************************************************************************)
(* Access control: the casbin policies of rbac/rbac.go.  A policy store is *)
(* a record of p rules <<subject, domain, object, action>> and g rules     *)
(* <<subject, role, domain>>.  Domains are <<"knot", host>> and            *)
(* <<"spindle", host>>: intoSpindle puts a prefix before the host.         *)
(***************************************************************************)
EXTENDS FiniteSets

Owner  == "server:owner"
Member == "server:member"

NoPolicies == [p |-> {}, g |-> {}]

(* Casbin adds a batch only if none of its rules is there already. *)
AddPolicies(pol, rules) ==
  IF rules \cap pol.p = {} THEN [pol EXCEPT !.p = @ \cup rules] ELSE pol

(* ...and removes those rules of a batch that are there. *)
RemovePolicies(pol, rules) == [pol EXCEPT !.p = @ \ rules]

AddGroupingPolicy(pol, sub, role, dom) ==
  [pol EXCEPT !.g = @ \cup {<<sub, role, dom>>}]

RemoveGroupingPolicy(pol, sub, role, dom) ==
  [pol EXCEPT !.g = @ \ {<<sub, role, dom>>}]

DeleteDomains(pol, dom) ==
  [p |-> {r \in pol.p : r[2] # dom}, g |-> {r \in pol.g : r[3] # dom}]

(***************************************************************************)
(* Servers.                                                                *)
(***************************************************************************)
serverPolicies(dom) ==
  {<<Owner, dom, dom, "server:invite">>}
  \cup (IF dom[1] = "knot" THEN {<<Member, dom, dom, "repo:create">>} ELSE {})

(* AddKnot and AddSpindle: owners are members. *)
AddServer(pol, dom) ==
  AddGroupingPolicy(AddPolicies(pol, serverPolicies(dom)), Owner, Member, dom)

(* RemoveKnot and RemoveSpindle: the rules of its repositories go too. *)
RemoveServer(pol, dom) == DeleteDomains(pol, dom)

AddOwner(pol, dom, user)     == AddGroupingPolicy(pol, user, Owner, dom)
AddMember(pol, dom, user)    == AddGroupingPolicy(pol, user, Member, dom)
RemoveMember(pol, dom, user) == RemoveGroupingPolicy(pol, user, Member, dom)

(***************************************************************************)
(* Repositories.                                                           *)
(***************************************************************************)
repoPolicies(user, dom, repo) ==
  {<<user, dom, repo, act>> :
     act \in {"repo:settings", "repo:push", "repo:owner", "repo:invite", "repo:delete"}}
  \cup {<<Owner, dom, repo, "repo:delete">>}

AddRepo(pol, user, dom, repo)    == AddPolicies(pol, repoPolicies(user, dom, repo))
RemoveRepo(pol, user, dom, repo) == RemovePolicies(pol, repoPolicies(user, dom, repo))

collaboratorPolicies(user, dom, repo) ==
  {<<user, dom, repo, act>> : act \in {"repo:collaborator", "repo:settings", "repo:push"}}

AddCollaborator(pol, user, dom, repo) ==
  AddPolicies(pol, collaboratorPolicies(user, dom, repo))
RemoveCollaborator(pol, user, dom, repo) ==
  RemovePolicies(pol, collaboratorPolicies(user, dom, repo))

(***************************************************************************)
(* Enforcement.                                                            *)
(***************************************************************************)

(* The role manager: sub is a user, one of its roles or a role of these. *)
HasRole(pol, user, sub, dom) ==
  \/ user = sub
  \/ <<user, sub, dom>> \in pol.g
  \/ \E r \in {Owner, Member} : {<<user, r, dom>>, <<r, sub, dom>>} \subseteq pol.g

(* The matcher: a rule's subject is the user or a role the user has. *)
Enforce(pol, user, dom, obj, act) ==
  \E sub \in {user, Owner, Member} :
    <<sub, dom, obj, act>> \in pol.p /\ HasRole(pol, user, sub, dom)

isInviteAllowed(pol, user, dom)     == Enforce(pol, user, dom, dom, "server:invite")
IsRepoCreateAllowed(pol, user, dom) == Enforce(pol, user, dom, dom, "repo:create")

=============================================================================
