----------------------------- MODULE Pipelines -----------------------------
(***************************************************************************)
(* Continuous integration from end to end: an owner names a spindle for a  *)
(* repository (appview/repo), the spindle learns of it from the firehose   *)
(* (spindle/ingester.go), a push makes the knot compile and publish a      *)
(* pipeline (knotserver/internal.go), the spindle runs it and publishes    *)
(* statuses (spindle/server.go, spindle/db), and the appview keeps what it *)
(* reads of both streams (appview/state) and shows the latest status of    *)
(* each workflow (appview/db/pipeline.go).                                 *)
(*                                                                         *)
(* There is one knot.  Every consumer hands an event to one of many        *)
(* workers, so events of one stream are handled once and in any order      *)
(* (EventConsumer has the stream itself, Spindle the runs, Repos the       *)
(* permissions on the knot).  Statuses are stamped with the second of      *)
(* their creation.                                                         *)
(***************************************************************************)
EXTENDS Integers, Sequences, FiniteSets, SequencesExt, Rbac, Workflow

CONSTANTS
  User, Repo, Spindle,
  RepoOwner,     \* whose repository it is
  SpindleOwner,  \* SPINDLE_SERVER_OWNER of every spindle
  MayPush,       \* who the knot lets push to a repository
  KnotUser,      \* who the appview knows as a member of the knot
  Push,          \* what may be pushed: [trigger, files, langs, exists, skipCi]
  Engine,        \* engines of a spindle
  Outcome,       \* what a run may end with
  None,
  QueueSize,     \* SPINDLE_SERVER_QUEUE_SIZE
  MaxOps,        \* bound: requests of users and restarts
  MaxStatus,     \* bound: status events
  MaxSecond      \* bound: seconds that pass

(* EditSpindle writes the form's value for "no spindle" into the record. *)
NoneForm == "[[none]]"

FinishStates == {"failed", "timeout", "cancelled", "success"}
StatusKind   == {"pending", "running"} \cup FinishStates

ASSUME PipelinesAssumption ==
  /\ Owner \notin User /\ Member \notin User
  /\ RepoOwner \in [Repo -> User]
  /\ SpindleOwner \in User
  /\ MayPush \in [Repo -> SUBSET User]
  /\ KnotUser \subseteq User
  /\ Outcome \subseteq FinishStates
  /\ None \notin User \cup Spindle
  /\ {QueueSize, MaxOps, MaxStatus, MaxSecond} \subseteq Nat

(* A push runs files whose `when' is parsed (Workflow). *)
ASSUME PushAssumption ==
  LET Constraint == [event : SUBSET STRING, branch : Seq(SUBSET STRING), tag : Seq(SUBSET STRING)]
  IN  \A p \in Push :
        /\ p.trigger.kind = "push"
        /\ IsFiniteSet(p.files)
        /\ \A f \in p.files : f.when \in Seq(Constraint)

VARIABLES
  record,    \* PDS: the spindle named by each repository's record
  collabs,   \* PDS: collaborator records
  fire,      \* the firehose
  row,       \* appview: repos.spindle
  editing,   \* appview: EditSpindle requests between the row and the record
  mayUse,    \* appview: spindle members
  pos,       \* spindle: events of the firehose it has read
  dids,      \* spindle: known_dids and the jetstream filter
  pol,       \* spindle: its policies
  watched,   \* spindle: repos
  since,     \* spindle: first event of the knot it reads, or None
  secrets,   \* spindle: who put the secret of each repository, or None
  read,      \* spindle: events of the knot it has handled
  jobs,      \* spindle: Queue.jobs
  runs,      \* spindle: workflows a worker has started
  events,    \* knot: its event log
  statuses,  \* status events, in the order the spindles made them
  second,    \* the clock
  seen,      \* appview: events of the knot it has handled
  pipelines, \* appview: pipelines rows
  langs,     \* appview: repo_languages rows of each repository and branch
  got,       \* appview: status events it has handled
  rows,      \* appview: pipeline_statuses, in the order of their ids
  ops,       \* requests made so far
  named,     \* history: the spindles each repository's record has named
  ready,     \* history: spindles that watched and listened at each event
  lost       \* history: pipelines a spindle dropped

pdsVars     == <<record, collabs, fire, named>>
appEditVars == <<row, editing, mayUse>>
ingestVars  == <<pos, dids, pol, watched, secrets>>
jobVars     == <<read, jobs, runs, statuses, lost>>
appVars     == <<seen, pipelines, langs, got, rows>>
vars == <<pdsVars, appEditVars, ingestVars, since, jobVars, events, ready, second, appVars, ops>>

Dom == <<"knot", "thisserver">>         \* rbac.ThisServer
SpindleDom == <<"spindle", "thisserver">> \* rbacDomain

PipelineEvents == {i \in DOMAIN events : events[i].kind = "pipeline"}

(***************************************************************************)
(* A spindle that has just been set up, and users it already serves.       *)
(***************************************************************************)
InitPolicies == AddOwner(AddServer(NoPolicies, SpindleDom), SpindleDom, SpindleOwner)

Init ==
  /\ record = [r \in Repo |-> None] /\ collabs = {} /\ fire = <<>> /\ named = {}
  /\ row = [r \in Repo |-> None] /\ editing = {}
  /\ mayUse = {RepoOwner[r] : r \in Repo} \X Spindle
  /\ pos = [s \in Spindle |-> 0]
  /\ dids = [s \in Spindle |-> {SpindleOwner} \cup {RepoOwner[r] : r \in Repo}]
  /\ pol = [s \in Spindle |->
              [InitPolicies EXCEPT !.g = @ \cup
                 {<<RepoOwner[r], Member, SpindleDom>> : r \in Repo}]]
  /\ watched = [s \in Spindle |-> {}]
  /\ secrets = [s \in Spindle |-> [r \in Repo |-> None]]
  /\ since = [s \in Spindle |-> None]
  /\ read = [s \in Spindle |-> {}]
  /\ jobs = [s \in Spindle |-> <<>>]
  /\ runs = [s \in Spindle |-> {}]
  /\ statuses = <<>> /\ lost = {}
  /\ events = <<>> /\ ready = {} /\ second = 0
  /\ seen = {} /\ pipelines = {} /\ got = {} /\ rows = <<>>
  /\ langs = [x \in Repo \X {p.trigger.name : p \in Push} |-> {}]
  /\ ops = 0

Request == ops < MaxOps /\ ops' = ops + 1

(***************************************************************************)
(* The appview: naming a spindle, inviting.                                *)
(***************************************************************************)

(* EditSpindle, up to the optimistic update of the row. *)
EditSpindle(r, s) ==
  /\ Request
  /\ s = None \/ <<RepoOwner[r], s>> \in mayUse
  /\ row' = [row EXCEPT ![r] = s]
  /\ editing' = editing \cup {<<r, s>>}
  /\ UNCHANGED <<mayUse, pdsVars, ingestVars, since, jobVars, events, ready, second, appVars>>

(* The record read and swapped on the PDS; the spindles' streams are       *)
(* followed from the start, so AddSource finds its source there.           *)
PutSpindle(r, s) ==
  LET named_ == IF s = None THEN NoneForm ELSE s
  IN /\ <<r, s>> \in editing
     /\ editing' = editing \ {<<r, s>>}
     /\ record' = [record EXCEPT ![r] = named_]
     /\ named' = named \cup {<<r, named_>>}
     /\ fire' = Append(fire, [kind |-> "repo", by |-> RepoOwner[r], repo |-> r, spindle |-> named_])
     /\ UNCHANGED <<row, mayUse, collabs, ingestVars, since, jobVars, events, ready, second,
                    appVars, ops>>

(* The PDS fails: the row stays as it was updated. *)
PutSpindleFails(r, s) ==
  /\ <<r, s>> \in editing
  /\ editing' = editing \ {<<r, s>>}
  /\ UNCHANGED <<row, mayUse, pdsVars, ingestVars, since, jobVars, events, ready, second,
                 appVars, ops>>

(* The owner invites a collaborator or, as the spindle's owner, a member. *)
Invite(r, u) ==
  /\ Request
  /\ u # RepoOwner[r]
  /\ collabs' = collabs \cup {<<r, u>>}
  /\ fire' = Append(fire, [kind |-> "collaborator", by |-> RepoOwner[r], repo |-> r, sub |-> u])
  /\ UNCHANGED <<record, named, appEditVars, ingestVars, since, jobVars, events, ready, second,
                 appVars>>

SetMember(s, u, in) ==
  /\ Request
  /\ u # SpindleOwner
  /\ in # (<<u, s>> \in mayUse)
  /\ mayUse' = IF in THEN mayUse \cup {<<u, s>>} ELSE mayUse \ {<<u, s>>}
  /\ fire' = Append(fire, [kind |-> "member", by |-> SpindleOwner, spindle |-> s, sub |-> u, in |-> in])
  /\ UNCHANGED <<record, collabs, named, row, editing, ingestVars, since, jobVars, events, ready,
                 second, appVars>>

(***************************************************************************)
(* The spindle's ingester: one event of the firehose.                      *)
(***************************************************************************)
ingestMember(s, e) ==
  /\ IF e.spindle # s \/ (e.in /\ ~isInviteAllowed(pol[s], e.by, SpindleDom))
     THEN UNCHANGED <<pol, dids>>
     ELSE /\ pol' = [pol EXCEPT ![s] = IF e.in THEN AddMember(@, SpindleDom, e.sub)
                                               ELSE RemoveMember(@, SpindleDom, e.sub)]
          /\ dids' = [dids EXCEPT ![s] = IF e.in THEN @ \cup {e.sub} ELSE @ \ {e.sub}]
  /\ UNCHANGED <<watched, since>>

(* AddCollaborator for each collaborator record of the owner, whichever    *)
(* repository it names.                                                    *)
fetchAndAddCollaborators(p, r) ==
  LET subjects == {c[2] : c \in {x \in collabs : RepoOwner[x[1]] = RepoOwner[r]}}
  IN  [p EXCEPT !.p = @ \cup UNION {AddCollaborator(p, u, Dom, r).p : u \in subjects}]

(* The owner's identity may not resolve: then neither the collaborators    *)
(* nor the knot are added.  A new source starts at the knot's present.     *)
ingestRepo(s, e) ==
  /\ IF e.spindle # s
     THEN UNCHANGED <<pol, watched, since>>
     ELSE /\ watched' = [watched EXCEPT ![s] = @ \cup {e.repo}]
          /\ LET added == AddRepo(pol[s], RepoOwner[e.repo], Dom, e.repo)
             IN \/ /\ pol' = [pol EXCEPT ![s] = fetchAndAddCollaborators(added, e.repo)]
                   /\ since' = [since EXCEPT ![s] = IF @ = None THEN Len(events) + 1 ELSE @]
                \/ /\ pol' = [pol EXCEPT ![s] = added]
                   /\ UNCHANGED since
  /\ UNCHANGED dids

(* Mutant: nobody asks whether the repository is known here. *)
ingestCollaborator_Unchecked(s, e) ==
  /\ pol' = [pol EXCEPT ![s] = AddCollaborator(@, e.sub, Dom, e.repo)]
  /\ UNCHANGED <<dids, watched, since>>

ingestCollaborator(s, e) ==
  /\ pol' = IF Enforce(pol[s], RepoOwner[e.repo], Dom, e.repo, "repo:invite")
            THEN [pol EXCEPT ![s] = AddCollaborator(@, e.sub, Dom, e.repo)]
            ELSE pol
  /\ UNCHANGED <<dids, watched, since>>

Ingest(s) ==
  /\ pos[s] < Len(fire)
  /\ pos' = [pos EXCEPT ![s] = @ + 1]
  /\ LET e == fire[pos[s] + 1]
     IN IF e.by \notin dids[s] THEN UNCHANGED <<dids, pol, watched, since>>
        ELSE \/ e.kind = "member"       /\ ingestMember(s, e)
             \/ e.kind = "repo"         /\ ingestRepo(s, e)
             \/ e.kind = "collaborator" /\ ingestCollaborator(s, e)
  /\ UNCHANGED <<pdsVars, appEditVars, secrets, jobVars, events, ready, second, appVars, ops>>

(***************************************************************************)
(* Secrets of a repository (spindle/xrpc, spindle/secrets).                *)
(***************************************************************************)
AddSecret(s, r, u) ==
  /\ Request
  /\ Enforce(pol[s], u, Dom, r, "repo:settings")
  /\ secrets[s][r] = None
  /\ secrets' = [secrets EXCEPT ![s][r] = u]
  /\ UNCHANGED <<pdsVars, appEditVars, pos, dids, pol, watched, since, jobVars, events, ready,
                 second, appVars>>

RemoveSecret(s, r, u) ==
  /\ Request
  /\ Enforce(pol[s], u, Dom, r, "repo:settings")
  /\ secrets[s][r] # None
  /\ secrets' = [secrets EXCEPT ![s][r] = None]
  /\ UNCHANGED <<pdsVars, appEditVars, pos, dids, pol, watched, since, jobVars, events, ready,
                 second, appVars>>

(***************************************************************************)
(* The knot: a push of one ref.                                            *)
(***************************************************************************)
Listening(s) == since[s] # None

(* triggerPipeline: nothing for a push that skips CI, for a ref that is    *)
(* gone, or when no workflow was compiled.                                 *)
triggerPipeline(r, u, p) ==
  LET compiled == Compile(p.files, p.trigger).workflows
  IN  IF p.skipCi \/ ~p.exists \/ compiled = {} THEN <<>>
      ELSE <<[kind |-> "pipeline", repo |-> r, by |-> u, push |-> p, workflows |-> compiled]>>

(* insertRefUpdate: fails for a ref that is gone. *)
insertRefUpdate(r, u, p) ==
  IF p.exists THEN <<[kind |-> "refUpdate", repo |-> r, by |-> u, push |-> p]>> ELSE <<>>

(* Guard and PostReceiveHook. *)
PostReceiveHook(r, u, p) ==
  /\ Request
  /\ u \in MayPush[r]
  /\ events' = events \o insertRefUpdate(r, u, p) \o triggerPipeline(r, u, p)
  /\ ready' = ready \cup
       {x \in Spindle \X DOMAIN events' :
          x[2] > Len(events) /\ r \in watched[x[1]] /\ Listening(x[1])}
  /\ UNCHANGED <<pdsVars, appEditVars, ingestVars, since, jobVars, second, appVars>>

(***************************************************************************)
(* The spindle: pipelines and their statuses.                              *)
(***************************************************************************)
Status(s, i, name, kind) ==
  [spindle |-> s, pipeline |-> i, workflow |-> name, status |-> kind, created |-> second]

(* Statuses made one after the other for the workflows of a sequence. *)
Emit(s, i, names, kind) ==
  /\ Len(statuses) + Len(names) <= MaxStatus
  /\ statuses' = statuses \o [k \in DOMAIN names |-> Status(s, i, names[k], kind)]

Known(i) == {w.name : w \in {x \in events[i].workflows : x.engine \in Engine}}

(* processPipeline's loop over the record, in its order: an unknown engine *)
(* is a failure of its workflow alone, but a workflow its engine cannot    *)
(* read ends the loop before anything is enqueued.                         *)
FirstStatuses(s, i, order) ==
  LET bad   == {k \in DOMAIN order : order[k].engine \in Engine /\ order[k].raw = "invalid"}
      until == IF bad = {} THEN Len(order) ELSE Min(bad) - 1
  IN  [k \in 1 .. until |->
         Status(s, i, order[k].name, IF order[k].engine \in Engine THEN "pending" ELSE "failed")]

(* Mutant: repositories are not looked up. *)
GetRepo_Any(s, i) == TRUE

GetRepo(s, i) == events[i].repo \in watched[s]

Enqueue(s, i) ==
  IF Len(jobs[s]) < QueueSize
  THEN jobs' = [jobs EXCEPT ![s] = Append(@, i)] /\ UNCHANGED lost
  ELSE lost' = lost \cup {<<s, i>>} /\ UNCHANGED jobs

processPipeline(s, i) ==
  IF ~GetRepo(s, i)
  THEN UNCHANGED <<statuses, jobs, lost>>
  ELSE \E order \in SetToSeqs(events[i].workflows) :
         LET first == FirstStatuses(s, i, order)
         IN /\ Len(statuses) + Len(first) <= MaxStatus
            /\ statuses' = statuses \o first
            /\ IF Len(first) = Len(order) THEN Enqueue(s, i)
               ELSE lost' = lost \cup {<<s, i>>} /\ UNCHANGED jobs

(* A worker of the event consumer takes any event of the stream;           *)
(* processPipeline returns at once for a ref update.                       *)
HandleKnotEvent(s, i) ==
  /\ i \in PipelineEvents
  /\ Listening(s)
  /\ i >= since[s]
  /\ i \notin read[s]
  /\ read' = [read EXCEPT ![s] = @ \cup {i}]
  /\ processPipeline(s, i)
  /\ UNCHANGED <<pdsVars, appEditVars, ingestVars, since, runs, events, ready, second, appVars,
                 ops>>

(* The queue's worker starts every workflow of the job and waits for them. *)
StartWorkflows(s) ==
  /\ jobs[s] # <<>>
  /\ runs[s] = {}
  /\ jobs' = [jobs EXCEPT ![s] = Tail(@)]
  /\ LET i == Head(jobs[s])
     IN /\ runs' = [runs EXCEPT ![s] = {<<i, name>> : name \in Known(i)}]
        /\ Emit(s, i, SetToSeq(Known(i)), "running")
  /\ UNCHANGED <<pdsVars, appEditVars, ingestVars, since, read, lost, events, ready, second,
                 appVars, ops>>

(* Mutant: the run ends without a report. *)
FinishWorkflow_Silent(s, i, name, kind) ==
  /\ <<i, name>> \in runs[s]
  /\ runs' = [runs EXCEPT ![s] = @ \ {<<i, name>>}]
  /\ UNCHANGED <<pdsVars, appEditVars, ingestVars, since, read, jobs, lost, statuses, events, ready,
                 second, appVars, ops>>

FinishWorkflow(s, i, name, kind) ==
  /\ <<i, name>> \in runs[s]
  /\ runs' = [runs EXCEPT ![s] = @ \ {<<i, name>>}]
  /\ Emit(s, i, <<name>>, kind)
  /\ UNCHANGED <<pdsVars, appEditVars, ingestVars, since, read, jobs, lost, events, ready, second,
                 appVars, ops>>

(* The appview's Cancel asks the spindle the repository has now; the       *)
(* spindle asks who owns the repository and reports the workflow the       *)
(* request names as cancelled, whether or not it runs it.                  *)
Cancel(r, i, name) ==
  /\ Request
  /\ i \in pipelines
  /\ events[i].repo = r
  /\ LET s == row[r]
     IN /\ s # None
        /\ Enforce(pol[s], RepoOwner[r], Dom, r, "repo:owner")
        /\ Emit(s, i, <<name>>, "cancelled")
  /\ UNCHANGED <<pdsVars, appEditVars, ingestVars, since, read, jobs, runs, lost, events, ready,
                 second, appVars>>

(* The process dies and starts again: what was queued or running is gone,  *)
(* the knots of the watched repositories are listened to.                  *)
Restart(s) ==
  /\ Request
  /\ lost' = lost \cup {<<s, i>> : i \in Range(jobs[s]) \cup {x[1] : x \in runs[s]}}
  /\ jobs' = [jobs EXCEPT ![s] = <<>>]
  /\ runs' = [runs EXCEPT ![s] = {}]
  /\ since' = IF watched[s] # {} /\ ~Listening(s)
              THEN [since EXCEPT ![s] = Len(events) + 1] ELSE since
  /\ UNCHANGED <<pdsVars, appEditVars, ingestVars, read, statuses, events, ready, second, appVars>>

(* A second passes: only between two statuses does it make a difference. *)
Tick ==
  /\ second < MaxSecond
  /\ Len(statuses) \in 1 .. MaxStatus - 1
  /\ second' = second + 1
  /\ UNCHANGED <<pdsVars, appEditVars, ingestVars, since, jobVars, events, ready, appVars, ops>>

(***************************************************************************)
(* The appview's ingesters and the page.                                   *)
(***************************************************************************)

(* Old rows of the branch are deleted and the new ones inserted in one     *)
(* transaction.                                                            *)
UpdateRepoLanguages(x, new) == langs' = [langs EXCEPT ![x] = new]

ingestRefUpdate(e) ==
  /\ IF e.by \in KnotUser /\ e.push.langs # {} /\ e.push.trigger.type = "branch"
     THEN UpdateRepoLanguages(<<e.repo, e.push.trigger.name>>, e.push.langs)
     ELSE UNCHANGED langs
  /\ UNCHANGED pipelines

ingestPipeline(i) ==
  /\ pipelines' = IF row[events[i].repo] # None THEN pipelines \cup {i} ELSE pipelines
  /\ UNCHANGED langs

knotIngester(i) ==
  /\ i \in DOMAIN events \ seen
  /\ seen' = seen \cup {i}
  /\ \/ events[i].kind = "refUpdate" /\ ingestRefUpdate(events[i])
     \/ events[i].kind = "pipeline"  /\ ingestPipeline(i)
  /\ UNCHANGED <<pdsVars, appEditVars, ingestVars, since, jobVars, events, ready, second, got, rows,
                 ops>>

(* A status whose pipeline has no row is refused by the foreign key. *)
AddPipelineStatus(k) ==
  rows' = IF statuses[k].pipeline \in pipelines THEN Append(rows, k) ELSE rows

ingestPipelineStatus(k) ==
  /\ k \in DOMAIN statuses \ got
  /\ got' = got \cup {k}
  /\ AddPipelineStatus(k)
  /\ UNCHANGED <<pdsVars, appEditVars, ingestVars, since, jobVars, events, ready, second, seen,
                 pipelines, langs, ops>>

(* Mutant: rows are shown in the order they were stored. *)
Later_ById(a, b) == a > b

(* GetPipelineStatuses sorts by second, then by id; Latest is the last. *)
Later(a, b) ==
  \/ statuses[rows[a]].created > statuses[rows[b]].created
  \/ statuses[rows[a]].created = statuses[rows[b]].created /\ a > b

StatusesOf(i, name) ==
  {a \in DOMAIN rows : statuses[rows[a]].pipeline = i /\ statuses[rows[a]].workflow = name}

LatestRow(i, name) ==
  rows[CHOOSE a \in StatusesOf(i, name) : \A b \in StatusesOf(i, name) \ {a} : Later(a, b)]

-----------------------------------------------------------------------------
Name == {f.name : f \in UNION {p.files : p \in Push}}

Next ==
  \/ \E r \in Repo, s \in Spindle \cup {None} :
       EditSpindle(r, s) \/ PutSpindle(r, s) \/ PutSpindleFails(r, s)
  \/ \E r \in Repo, u \in User : Invite(r, u) \/ \E s \in Spindle : AddSecret(s, r, u) \/ RemoveSecret(s, r, u)
  \/ \E s \in Spindle, u \in User, in \in BOOLEAN : SetMember(s, u, in)
  \/ \E s \in Spindle : Ingest(s) \/ StartWorkflows(s) \/ Restart(s)
  \/ \E r \in Repo, u \in User, p \in Push : PostReceiveHook(r, u, p)
  \/ \E s \in Spindle, i \in DOMAIN events : HandleKnotEvent(s, i)
  \/ \E s \in Spindle, i \in PipelineEvents, name \in Name, kind \in Outcome :
       FinishWorkflow(s, i, name, kind)
  \/ \E r \in Repo, i \in PipelineEvents, name \in Name : Cancel(r, i, name)
  \/ \E i \in DOMAIN events : knotIngester(i)
  \/ \E k \in DOMAIN statuses : ingestPipelineStatus(k)
  \/ Tick

Spec == Init /\ [][Next]_vars

-----------------------------------------------------------------------------
(***************************************************************************)
(* Properties.                                                             *)
(***************************************************************************)

(* Every variable has its type; a row stands for one event. *)
TypeOK ==
  /\ record \in [Repo -> Spindle \cup {None, NoneForm}]
  /\ row \in [Repo -> Spindle \cup {None}]
  /\ editing \subseteq Repo \X (Spindle \cup {None})
  /\ pos \in [Spindle -> 0 .. Len(fire)]
  /\ dids \in [Spindle -> SUBSET User]
  /\ watched \in [Spindle -> SUBSET Repo]
  /\ since \in [Spindle -> {None} \cup (1 .. Len(events) + 1)]
  /\ secrets \in [Spindle -> [Repo -> User \cup {None}]]
  /\ \A s \in Spindle :
       /\ Len(jobs[s]) <= QueueSize
       /\ Range(jobs[s]) \cup {x[1] : x \in runs[s]} \subseteq read[s] \cap PipelineEvents
  /\ \A k \in DOMAIN statuses : statuses[k].status \in StatusKind
  /\ pipelines \subseteq seen \cap PipelineEvents
  /\ IsInjective(rows) /\ Range(rows) \subseteq got

(* A file that should run on a push, said without the compiler. *)
Wanted(f, p) ==
  /\ f.parses /\ f.engine # ""
  /\ \/ f.when = <<>>
     \/ \E c \in Range(f.when) :
          /\ p.trigger.kind \in c.event
          /\ \/ p.trigger.type = "branch" /\ p.trigger.name \in UNION Range(c.branch)
             \/ p.trigger.type = "tag" /\ p.trigger.name \in UNION Range(c.tag)

(* What the appview shows is explained by what users did.  Of a status:    *)
(* somebody who may push to the repository pushed a commit whose workflow  *)
(* file asks to run there (or its owner cancelled it), and the             *)
(* repository's record named the spindle that reports (processPipeline's   *)
(* checks of the knot and of the watch list, the compiler, the foreign     *)
(* key).  The languages of a branch are those of one push to it, never a   *)
(* mixture of two (updateRepoLanguages).                                   *)
StatusExplained ==
  /\ \A k \in Range(rows) :
       LET st == statuses[k]
           e  == events[st.pipeline]
       IN /\ e.by \in MayPush[e.repo]
          /\ <<e.repo, st.spindle>> \in named
          /\ ~e.push.skipCi
          /\ \/ st.status = "cancelled"
             \/ \E f \in e.push.files : f.name = st.workflow /\ Wanted(f, e.push)
  /\ \A x \in DOMAIN langs :
       langs[x] # {} =>
         \E i \in seen : /\ events[i].kind = "refUpdate" /\ events[i].repo = x[1]
                         /\ events[i].push.trigger.name = x[2]
                         /\ events[i].push.langs = langs[x]

(* What the page shows of a workflow is the newest status the appview      *)
(* holds of it, in whichever order its workers stored them, unless another *)
(* was created in the same second (GetPipelineStatuses, Latest).           *)
ShownIsLatest ==
  \A i \in pipelines, name \in Name :
    LET held == {rows[a] : a \in StatusesOf(i, name)}
        shown == LatestRow(i, name)
    IN held # {} =>
         \A k \in held \ {shown} :
           k > shown => statuses[k].created = statuses[shown].created

(* Nothing is on its way and no workflow is queued or running. *)
Quiet ==
  /\ \A s \in Spindle :
       /\ jobs[s] = <<>> /\ runs[s] = {}
       /\ \A i \in PipelineEvents : Listening(s) /\ i >= since[s] => i \in read[s]
  /\ DOMAIN statuses \subseteq got

(* Once all is quiet the appview holds a final status of every workflow of *)
(* a push from each spindle that watched the repository when it was made,  *)
(* unless the job was lost (a full queue, a restart, a workflow its engine *)
(* cannot read), the appview had no spindle for the repository when it     *)
(* read the pipeline, or a status overtook the pipeline and was refused by *)
(* the foreign key.                                                        *)
PushAnswered ==
  Quiet =>
    \A x \in ready \ lost :
      LET s == x[1]
          i == x[2]
          Of(name) == {k \in DOMAIN statuses :
                         statuses[k].spindle = s /\ statuses[k].pipeline = i
                         /\ statuses[k].workflow = name}
      IN i \in pipelines =>
           \A w \in events[i].workflows :
             \/ Of(w.name) \ Range(rows) # {}
             \/ \E k \in Of(w.name) : statuses[k].status \in FinishStates

(* Whoever put a secret of a repository on a spindle owns the repository   *)
(* or was invited by its owner, and the record once named that spindle     *)
(* (AddSecret, ingestCollaborator, fetchAndAddCollaborators).              *)
SecretsByInvited ==
  \A s \in Spindle, r \in Repo :
    secrets[s][r] # None =>
      /\ <<r, s>> \in named
      /\ \/ secrets[s][r] = RepoOwner[r]
         \/ \E c \in collabs : RepoOwner[c[1]] = RepoOwner[r] /\ c[2] = secrets[s][r]

=============================================================================
