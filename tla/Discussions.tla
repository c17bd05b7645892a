---------------------------- MODULE Discussions ----------------------------
(***************************************************************************)
(* The discussions of a pijul repository (appview/discussions): anyone may *)
(* add patches, which are changes the knot already stores, and a           *)
(* collaborator merges the active ones by having the knot apply them.      *)
(*                                                                         *)
(* The middleware reads the discussion with its patches before the handler *)
(* runs; the handler then queries the tables and the knot again, with      *)
(* other requests running in between.  A patch's id is its position in     *)
(* discussion_patches, a discussion's number its position in discussions.  *)
(* Comments and subscriptions are rows no handler reads and are left out.  *)
(***************************************************************************)
EXTENDS Naturals, Sequences, FiniteSetsExt

CONSTANTS
  User,
  Collaborator,    \* users with the push, owner or collaborator role
  Hash,            \* changes stored by the knot
  Deps,            \* the dependencies `pijul change` prints for each
  Channel,         \* channels of the repository
  Current,         \* the channel the knot's copy is on
  Request,         \* concurrent requests on discussions
  MaxDiscussions,  \* bound: discussions ever opened
  MaxCalls,        \* bound: requests ever made on discussions
  MaxFaults        \* bound: failing statements and unanswered knot calls

ASSUME DiscussionsAssumption ==
  /\ Collaborator \subseteq User
  /\ Hash # {} /\ Deps \in [Hash -> SUBSET Hash]
  /\ Current \in Channel
  /\ MaxDiscussions \in Nat /\ MaxCalls \in Nat /\ MaxFaults \in Nat

VARIABLES
  discussions,  \* the table: owner, target channel and state
  patches,      \* discussion_patches, in order of id
  channels,     \* changes applied to each channel on the knot
  req,          \* the requests being served
  calls,        \* requests made so far
  faults,       \* faults so far
  fresh,        \* history: patches activated since the last merge's snapshot
  excused       \* history: discussions with a check that was skipped or stale

vars == <<discussions, patches, channels, req, calls, faults, fresh, excused>>

State == {"closed", "open", "merged"}
Op == {"add", "remove", "readd", "close", "reopen", "merge"}
Discussion == 1..Len(discussions)

Idle == [pc |-> "idle"]

(* A request as the handler gets it: user, discussion and patch of the URL *)
(* or form, the snapshot the middleware took; the rest is filled on the    *)
(* way.  later and stale are histories: the patches activated since the    *)
(* snapshot, and whether a patch changed since the dependency check.       *)
Serving ==
  [pc : Op \cup {"verify", "insert", "mark", "apply", "merged"},
   user : User, d : Discussion, hash : Hash, id : 0..Len(patches),
   state : State, active : SUBSET (1..Len(patches)),
   failed : BOOLEAN, later : SUBSET (1..Len(patches)), stale : BOOLEAN]

TypeOK ==
  /\ discussions \in Seq([did : User, target : Channel, state : State])
  /\ patches \in Seq([d : Discussion, hash : Hash, by : User, removed : BOOLEAN])
  /\ \A i, j \in 1..Len(patches) :          \* unique(discussion_at, patch_hash)
       patches[i].d = patches[j].d /\ patches[i].hash = patches[j].hash => i = j
  /\ channels \in [Channel -> SUBSET Hash]
  /\ req \in [Request -> {Idle} \cup Serving]
  /\ calls \in 0..MaxCalls
  /\ faults \in 0..MaxFaults
  /\ fresh \in [1..MaxDiscussions -> SUBSET (1..Len(patches))]
  /\ excused \subseteq 1..MaxDiscussions

PatchesOf(d) == {i \in 1..Len(patches) : patches[i].d = d}

ActivePatches(d) == {i \in PatchesOf(d) : ~patches[i].removed}

HashesOf(ids) == {patches[i].hash : i \in ids}

CanManage(u, owner) == u = owner \/ u \in Collaborator

Goto(q, l) == req' = [req EXCEPT ![q].pc = l]

Done(q) == req' = [req EXCEPT ![q] = Idle]

Fault == faults < MaxFaults /\ faults' = faults + 1

(* The histories when q, which is then done, wrote patch i of discussion d *)
(* and thereby switched it on or not.                                      *)
Touched(q, d, i, on) ==
  /\ fresh' = IF on THEN [fresh EXCEPT ![d] = @ \cup {i}] ELSE fresh
  /\ req' = [r \in Request |->
       IF r = q THEN Idle
       ELSE IF req[r] # Idle /\ req[r].d = d
       THEN [req[r] EXCEPT !.stale = TRUE,
                           !.later = IF on THEN @ \cup {i} ELSE @]
       ELSE req[r]]

(* `pijul apply h` leaves the change on the channel with all it depends on. *)
WithDependencies(h) ==
  {x \in Hash : \A S \in SUBSET Hash :
     (h \in S /\ \A y \in S : Deps[y] \subseteq S) => x \in S}

----------------------------------------------------------------------------

Init ==
  /\ discussions = << >>
  /\ patches = << >>
  /\ channels = [c \in Channel |-> {}]
  /\ req = [q \in Request |-> Idle]
  /\ calls = 0
  /\ faults = 0
  /\ fresh = [d \in 1..MaxDiscussions |-> {}]
  /\ excused = {}

(* One transaction numbers and inserts the discussion.                     *)
NewDiscussion(u, c) ==
  /\ Len(discussions) < MaxDiscussions
  /\ discussions' = Append(discussions, [did |-> u, target |-> c, state |-> "open"])
  /\ UNCHANGED <<patches, channels, req, calls, faults, fresh, excused>>

(* The middleware: the state and the patches are those of this moment.     *)
ResolveDiscussion(q, op, u, d, h, i) ==
  /\ req[q] = Idle
  /\ calls < MaxCalls
  /\ calls' = calls + 1
  /\ req' = [req EXCEPT ![q] =
       [pc |-> op, user |-> u, d |-> d, hash |-> h, id |-> i,
        state |-> discussions[d].state, active |-> ActivePatches(d),
        failed |-> FALSE, later |-> {}, stale |-> FALSE]]
  /\ UNCHANGED <<discussions, patches, channels, faults, fresh, excused>>

(***************************************************************************)
(* AddPatch.                                                               *)
(***************************************************************************)

(* The snapshot says open, and PatchExists finds no such row.              *)
AddPatch(q) ==
  /\ req[q].pc = "add"
  /\ IF req[q].state = "open" /\ req[q].hash \notin HashesOf(PatchesOf(req[q].d))
       THEN Goto(q, "verify")
       ELSE Done(q)
  /\ UNCHANGED <<discussions, patches, channels, calls, faults, fresh, excused>>

(* The knot returns the change; a dependency that is a removed patch of    *)
(* the discussion refuses it.                                              *)
canAddPatchWithChange(q) ==
  /\ req[q].pc = "verify"
  /\ \/ /\ IF \E i \in PatchesOf(req[q].d) :
                 patches[i].removed /\ patches[i].hash \in Deps[req[q].hash]
             THEN Done(q)
             ELSE req' = [req EXCEPT ![q].pc = "insert", ![q].stale = FALSE]
        /\ UNCHANGED faults
     \/ Fault /\ Done(q)
  /\ UNCHANGED <<discussions, patches, channels, calls, fresh, excused>>

(* The insert, which the unique constraint or a fault may refuse.          *)
AddDiscussionPatch(q) ==
  /\ req[q].pc = "insert"
  /\ \/ /\ req[q].hash \notin HashesOf(PatchesOf(req[q].d))
        /\ patches' = Append(patches, [d |-> req[q].d, hash |-> req[q].hash,
                                       by |-> req[q].user, removed |-> FALSE])
        /\ Touched(q, req[q].d, Len(patches) + 1, TRUE)
        /\ excused' = IF req[q].stale THEN excused \cup {req[q].d} ELSE excused
        /\ UNCHANGED faults
     \/ /\ IF req[q].hash \in HashesOf(PatchesOf(req[q].d))
             THEN UNCHANGED faults ELSE Fault
        /\ Done(q)
        /\ UNCHANGED <<patches, fresh, excused>>
  /\ UNCHANGED <<discussions, channels, calls>>

(***************************************************************************)
(* RemovePatch and ReaddPatch, of any patch id.                            *)
(***************************************************************************)

(* The active patches of the URL's discussion that depend on patch i.      *)
Dependents(d, i) ==
  {j \in ActivePatches(d) : /\ patches[j].hash # patches[i].hash
                            /\ patches[i].hash \in Deps[patches[j].hash]}

(* Mutant: the patch's own dependencies are checked. *)
canRemovePatch_Reversed(q) ==
  LET i == req[q].id
  IN  /\ req[q].pc = "remove"
      /\ IF CanManage(req[q].user, patches[i].by) /\ ActivePatches(req[q].d) \cap
              {j \in PatchesOf(req[q].d) : patches[j].hash \in Deps[patches[i].hash]} = {}
           THEN req' = [req EXCEPT ![q].pc = "mark", ![q].stale = patches[i].d # req[q].d]
           ELSE Done(q)
      /\ UNCHANGED <<discussions, patches, channels, calls, faults, fresh, excused>>

(* A dependent the knot does not answer for is skipped and does not block. *)
canRemovePatch(q) ==
  LET i == req[q].id
      found == Dependents(req[q].d, i)
  IN  /\ req[q].pc = "remove"
      /\ \/ /\ IF CanManage(req[q].user, patches[i].by) /\ found = {}
                 THEN req' = [req EXCEPT ![q].pc = "mark",
                                         ![q].stale = patches[i].d # req[q].d]
                 ELSE Done(q)
            /\ UNCHANGED faults
         \/ /\ CanManage(req[q].user, patches[i].by) /\ found # {}
            /\ Fault
            /\ req' = [req EXCEPT ![q].pc = "mark", ![q].stale = TRUE]
      /\ UNCHANGED <<discussions, patches, channels, calls, fresh, excused>>

RemovePatch(q) ==
  LET i == req[q].id
  IN  /\ req[q].pc = "mark"
      /\ \/ /\ patches' = [patches EXCEPT ![i].removed = TRUE]
            /\ Touched(q, patches[i].d, i, FALSE)
            /\ excused' = IF req[q].stale THEN excused \cup {patches[i].d} ELSE excused
            /\ UNCHANGED faults
         \/ Fault /\ Done(q) /\ UNCHANGED <<patches, fresh, excused>>
      /\ UNCHANGED <<discussions, channels, calls>>

(* No dependency and no state is checked.                                  *)
ReaddPatch(q) ==
  LET i == req[q].id
  IN  /\ req[q].pc = "readd"
      /\ \/ /\ CanManage(req[q].user, patches[i].by)
            /\ patches' = [patches EXCEPT ![i].removed = FALSE]
            /\ Touched(q, patches[i].d, i, patches[i].removed)
            /\ excused' = IF \E j \in PatchesOf(patches[i].d) :
                               patches[j].removed /\ patches[j].hash \in Deps[patches[i].hash]
                            THEN excused \cup {patches[i].d} ELSE excused
            /\ UNCHANGED faults
         \/ /\ IF CanManage(req[q].user, patches[i].by) THEN Fault ELSE UNCHANGED faults
            /\ Done(q)
            /\ UNCHANGED <<patches, fresh, excused>>
      /\ UNCHANGED <<discussions, channels, calls>>

(***************************************************************************)
(* CloseDiscussion, ReopenDiscussion: whatever the state was.              *)
(***************************************************************************)
SetState(q, s) ==
  /\ \/ /\ CanManage(req[q].user, discussions[req[q].d].did)
        /\ discussions' = [discussions EXCEPT ![req[q].d].state = s]
        /\ UNCHANGED faults
     \/ /\ IF CanManage(req[q].user, discussions[req[q].d].did)
             THEN Fault ELSE UNCHANGED faults
        /\ UNCHANGED discussions
  /\ Done(q)
  /\ UNCHANGED <<patches, channels, calls, fresh, excused>>

CloseDiscussion(q) == req[q].pc = "close" /\ SetState(q, "closed")

ReopenDiscussion(q) == req[q].pc = "reopen" /\ SetState(q, "open")

(***************************************************************************)
(* MergeDiscussion.                                                        *)
(***************************************************************************)

(* The snapshot's active patches go to the knot, which may refuse the call *)
(* (no such channel) before it applies any.                                *)
MergeDiscussion(q) ==
  /\ req[q].pc = "merge"
  /\ \/ req[q].user \in Collaborator /\ req[q].active # {} /\ Goto(q, "apply")
     \/ Done(q)
  /\ UNCHANGED <<discussions, patches, channels, calls, faults, fresh, excused>>

(* Mutant: a change that fails is not reported. *)
Apply_Unreported(q) ==
  /\ req[q].pc = "apply"
  /\ req[q].active # {}
  /\ LET i == Min(req[q].active)
     IN  /\ req' = [req EXCEPT ![q].active = @ \ {i}]
         /\ \/ channels' = [channels EXCEPT ![Current] = @ \cup WithDependencies(patches[i].hash)]
            \/ UNCHANGED channels
  /\ UNCHANGED <<discussions, patches, calls, faults, fresh, excused>>

(* RepoApplyChanges, one change after the other in order of id; a change   *)
(* that fails is noted and the next is tried.  `pijul apply` gets no       *)
(* --channel.                                                              *)
Apply(q) ==
  /\ req[q].pc = "apply"
  /\ req[q].active # {}
  /\ LET i == Min(req[q].active)
     IN  \/ /\ req' = [req EXCEPT ![q].active = @ \ {i}]
            /\ channels' = [channels EXCEPT ![Current] = @ \cup WithDependencies(patches[i].hash)]
         \/ /\ req' = [req EXCEPT ![q].active = @ \ {i}, ![q].failed = TRUE]
            /\ UNCHANGED channels
  /\ UNCHANGED <<discussions, patches, calls, faults, fresh, excused>>

(* A failed change, or an answer that did not arrive, ends the request.    *)
EndApply(q) ==
  /\ req[q].pc = "apply"
  /\ req[q].active = {}
  /\ \/ /\ IF req[q].failed THEN Done(q) ELSE Goto(q, "merged")
        /\ UNCHANGED faults
     \/ Fault /\ Done(q)
  /\ UNCHANGED <<discussions, patches, channels, calls, fresh, excused>>

MarkMerged(q) ==
  /\ req[q].pc = "merged"
  /\ \/ /\ discussions' = [discussions EXCEPT ![req[q].d].state = "merged"]
        /\ fresh' = [fresh EXCEPT ![req[q].d] = req[q].later]
        /\ UNCHANGED faults
     \/ Fault /\ UNCHANGED <<discussions, fresh>>
  /\ Done(q)
  /\ UNCHANGED <<patches, channels, calls, excused>>

----------------------------------------------------------------------------

(* The inputs that matter to each operation. *)
Arguments(op) ==
  CASE op = "add" -> {<<h, 0>> : h \in Hash}
    [] op \in {"remove", "readd"} -> {<<patches[i].hash, i>> : i \in 1..Len(patches)}
    [] OTHER -> {<<CHOOSE h \in Hash : TRUE, 0>>}

Serve(q) ==
  \/ AddPatch(q) \/ canAddPatchWithChange(q) \/ AddDiscussionPatch(q)
  \/ canRemovePatch(q) \/ RemovePatch(q) \/ ReaddPatch(q)
  \/ CloseDiscussion(q) \/ ReopenDiscussion(q)
  \/ MergeDiscussion(q) \/ Apply(q) \/ EndApply(q) \/ MarkMerged(q)

Next ==
  \/ \E u \in User, c \in Channel : NewDiscussion(u, c)
  \/ \E q \in Request :
       \/ \E op \in Op, u \in User, d \in Discussion :
            \E a \in Arguments(op) : ResolveDiscussion(q, op, u, d, a[1], a[2])
       \/ Serve(q)

Spec == Init /\ [][Next]_vars

----------------------------------------------------------------------------
(***************************************************************************)
(* Properties.                                                             *)
(***************************************************************************)

(* The dependency checks of AddPatch and RemovePatch do what they are for: *)
(* no active patch depends on a removed one of its discussion, unless one  *)
(* was re-added (ReaddPatch checks nothing), another patch of the          *)
(* discussion changed between a check and its write, the patch was removed *)
(* through another discussion's URL, or the knot did not answer a check.   *)
DependenciesKept ==
  \A d \in Discussion \ excused : \A i \in ActivePatches(d), j \in PatchesOf(d) :
    patches[j].hash \in Deps[patches[i].hash] => ~patches[j].removed

(* A discussion shown as merged was applied: its active patches are on the *)
(* channel of the knot's copy, except those added or re-added after the    *)
(* merge read the discussion (neither is refused by a merge under way).    *)
MergedShowsApplied ==
  \A d \in Discussion : discussions[d].state = "merged" =>
    HashesOf(ActivePatches(d) \ fresh[d]) \subseteq channels[Current]

(* "Target channel to apply changes to" (api/tangled/repoapplyChanges.go): *)
(* what a merged discussion applied is on the channel it names.            *)
MergedOnTarget ==
  \A d \in Discussion : discussions[d].state = "merged" =>
    HashesOf(ActivePatches(d) \ fresh[d]) \subseteq channels[discussions[d].target]

=============================================================================
