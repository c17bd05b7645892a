------------------------------- MODULE Pulls -------------------------------
(***************************************************************************)
(* Pull requests and stacks of one repository in the appview:              *)
(* appview/pulls/pulls.go (the handlers), appview/db/pulls.go (the table   *)
(* and GetStack), appview/models/pull.go (positions in a stack) and the    *)
(* ResolvePull middleware, which reads the pull and its stack BEFORE the   *)
(* handler runs.  A handler works on that snapshot; its transaction then   *)
(* lands on whatever the table has become.                                 *)
(*                                                                         *)
(* One author owns all the pulls (SetPullParentChangeId tells authors      *)
(* apart, never stacks).                                                   *)
(***************************************************************************)
EXTENDS Integers, Sequences, FiniteSets, FiniteSetsExt

CONSTANTS
  Req,        \* concurrent HTTP requests
  StackId,    \* stack ids (uuids)
  Change,     \* jj change ids
  Null,       \* a null column
  MaxPulls,   \* bound: rows of the pulls table
  MaxRounds,  \* bound: submissions of a pull
  MaxRequests \* bound: requests on existing pulls

ASSUME PullsAssumption ==
  /\ Null \notin StackId \cup Change
  /\ MaxPulls \in Nat
  /\ MaxRounds \in Nat \ {0}
  /\ MaxRequests \in Nat

PullState == {"open", "closed", "merged", "deleted"}

(* A row; its pull_id is its place in the table.  rounds are the round     *)
(* numbers of its submissions, oldest first.                               *)
Pull == [stack : StackId \cup {Null}, change : Change \cup {Null},
         parent : Change \cup {Null}, state : PullState, rounds : Seq(Nat)]

VARIABLES
  pulls,    \* the pulls table
  req,      \* what each request has read and where it is
  applied,  \* knot: pulls of which it has merged a round
  tip,      \* knot: what the target branch points to
  requests  \* history: for the bound

knot == <<applied, tip>>
vars == <<pulls, req, knot, requests>>

Idle == [at |-> "idle", pull |-> 0, snap |-> << >>]

TypeOK ==
  /\ pulls \in Seq(Pull)
  /\ \A q \in Req :
       /\ req[q].at \in {"idle", "handler", "push", "commit"}
       /\ req[q].snap \in Seq(Pull)
       /\ req[q].pull \in 0..Len(req[q].snap)
  /\ applied \in SUBSET (1..MaxPulls)
  /\ tip \in Nat
  /\ requests \in 0..MaxRequests

Init ==
  /\ pulls = << >>
  /\ req = [q \in Req |-> Idle]
  /\ applied = {} /\ tip = 0
  /\ requests = 0

----------------------------------------------------------------------------
(***************************************************************************)
(* GetStack, on a table t.                                                 *)
(***************************************************************************)
StackPulls(t, s) == {i \in 1..Len(t) : t[i].stack = s /\ t[i].state # "deleted"}

(* Pulls of the stack that are the parent of none of it. *)
Tops(t, s) ==
  {i \in StackPulls(t, s) : \A j \in StackPulls(t, s) : t[j].parent # t[i].change}

(* changeIdMap: rows come by descending pull_id and the last one is kept. *)
ByChange(t, s, c) == {i \in StackPulls(t, s) : t[i].change = c}

(* The pulls from the top down; the loop stops at a pull without a parent, *)
(* or fails when a parent is not found.                                    *)
Walk(t, s) ==
  LET n == Cardinality(StackPulls(t, s))
      next(w) == LET p == t[w[Len(w)]].parent
                 IN  IF p = Null \/ ByChange(t, s, p) = {} THEN w
                     ELSE Append(w, Min(ByChange(t, s, p)))
      walk[k \in 1..n + 1] == IF k = 1 THEN <<Max(Tops(t, s))>> ELSE next(walk[k - 1])
  IN  walk[n + 1]

HasTop(t, s)    == Tops(t, s) # {}
Terminates(t, s) == Len(Walk(t, s)) <= Cardinality(StackPulls(t, s))
WellFormed(t, s) ==
  /\ HasTop(t, s)
  /\ Terminates(t, s)
  /\ t[Walk(t, s)[Len(Walk(t, s))]].parent = Null

GetStack(t, s) == Walk(t, s)

(* Stack.Position finds the first pull with the same change id. *)
Position(t, stack, i) == {k \in 1..Len(stack) : t[stack[k]].change = t[i].change}

StrictlyBelow(t, stack, i) ==
  IF Position(t, stack, i) = {} THEN << >>
  ELSE SubSeq(stack, Min(Position(t, stack, i)) + 1, Len(stack))

StrictlyAbove(t, stack, i) ==
  IF Position(t, stack, i) = {} THEN << >>
  ELSE SubSeq(stack, 1, Min(Position(t, stack, i)) - 1)

(* The pulls from the top of the sequence down to the first merged or      *)
(* closed one, deleted ones skipped.                                       *)
Mergeable(t, seq) ==
  {seq[k] : k \in {k \in 1..Len(seq) :
     /\ t[seq[k]].state # "deleted"
     /\ \A m \in 1..k : t[seq[m]].state \notin {"merged", "closed"}}}

Stacked(t, i) == t[i].stack # Null

(* What a handler acts on besides its own pull, in its snapshot. *)
Below(q) ==
  LET t == req[q].snap
      i == req[q].pull
  IN  IF Stacked(t, i) THEN StrictlyBelow(t, GetStack(t, t[i].stack), i) ELSE << >>

Above(q) ==
  LET t == req[q].snap
      i == req[q].pull
  IN  IF Stacked(t, i) THEN StrictlyAbove(t, GetStack(t, t[i].stack), i) ELSE << >>

Elems(seq) == {seq[k] : k \in 1..Len(seq)}

----------------------------------------------------------------------------
(***************************************************************************)
(* Creation.                                                               *)
(***************************************************************************)
Row(s, c, p) ==
  [stack |-> s, change |-> c, parent |-> p, state |-> "open", rounds |-> <<0>>]

(* Distinct, non-empty sequences of change ids, bottom first. *)
Patches == {cs \in UNION {[1..n -> Change] : n \in 1..Cardinality(Change)} :
              \A i, j \in DOMAIN cs : cs[i] = cs[j] => i = j}

(* Mutant: parentChangeId is set before the pull is built. *)
ParentIn_Self(cs, k) == cs[k]

(* newStack: each patch's parent is the one before it. *)
ParentIn(cs, k) == IF k = 1 THEN Null ELSE cs[k - 1]

(* createPullRequest without stacking. *)
CreatePull ==
  /\ Len(pulls) < MaxPulls
  /\ pulls' = Append(pulls, Row(Null, Null, Null))
  /\ UNCHANGED <<req, knot, requests>>

(* createStackedPullRequest: the records go to the PDS first; one          *)
(* transaction inserts all rows, the bottom one first.                     *)
CreateStack(s, cs) ==
  /\ \A i \in 1..Len(pulls) : pulls[i].stack # s
  /\ Len(pulls) + Len(cs) <= MaxPulls
  /\ pulls' = pulls \o [k \in 1..Len(cs) |-> Row(s, cs[k], ParentIn(cs, k))]
  /\ UNCHANGED <<req, knot, requests>>

(***************************************************************************)
(* A request: ResolvePull, then one handler.                               *)
(***************************************************************************)

(* A malformed stack ends the request in the middleware. *)
ResolvePull(q, i) ==
  /\ req[q].at = "idle" /\ requests < MaxRequests
  /\ requests' = requests + 1
  /\ Stacked(pulls, i) => WellFormed(pulls, pulls[i].stack)
  /\ req' = [req EXCEPT ![q] = [at |-> "handler", pull |-> i, snap |-> pulls]]
  /\ UNCHANGED <<pulls, knot>>

Handle(q) == req[q].at = "handler"

Done(q) == req' = [req EXCEPT ![q] = Idle]

(* The handler returned early or its transaction was rolled back, the knot *)
(* refused a merge or its answer was lost.                                 *)
Abandon(q) ==
  /\ req[q].at # "idle"
  /\ Done(q)
  /\ UNCHANGED <<pulls, knot, requests>>

(* The where clause of SetPullState: "state <> deleted or state <> merged". *)
MayChange(p) == p.state # "deleted" \/ p.state # "merged"

SetPullState(t, ids, state) ==
  [i \in 1..Len(t) |->
     IF i \in ids /\ MayChange(t[i]) THEN [t[i] EXCEPT !.state = state] ELSE t[i]]

(* Close the pull and all pulls below it in the stack. *)
ClosePull(q) ==
  /\ Handle(q)
  /\ pulls' = SetPullState(pulls, {req[q].pull} \cup Elems(Below(q)), "closed")
  /\ Done(q)
  /\ UNCHANGED <<knot, requests>>

(* Reopen the pull and all pulls above it in the stack. *)
ReopenPull(q) ==
  /\ Handle(q)
  /\ pulls' = SetPullState(pulls, {req[q].pull} \cup Elems(Above(q)), "open")
  /\ Done(q)
  /\ UNCHANGED <<knot, requests>>

(* MergePull first has the knot merge the latest patches of the snapshot,  *)
(* then marks the same pulls merged.                                       *)
(* Mutant: everything below is marked, closed pulls and what is under them *)
(* included, though only the mergeable part was sent to the knot.          *)
MergePull_All(q) ==
  /\ req[q].at = "commit"
  /\ pulls' = SetPullState(pulls, {req[q].pull} \cup Elems(Below(q)), "merged")
  /\ Done(q)
  /\ UNCHANGED <<knot, requests>>

ToMerge(q) == {req[q].pull} \cup Mergeable(req[q].snap, Below(q))

(* The knot merges in a shallow clone of the target branch: base is where  *)
(* the branch was.                                                         *)
cloneTemp == tip

Merge(q) ==
  req' = [req EXCEPT ![q] = [at |-> "push", pull |-> @.pull, snap |-> @.snap,
                             base |-> cloneTemp]]

RepoMerge(q) == Handle(q) /\ Merge(q) /\ UNCHANGED <<pulls, knot, requests>>

(* The patches are applied one after the other in the clone; when one does *)
(* not apply the clone is dropped with all of them (Abandon).              *)
applyPatch(q) == applied \cup ToMerge(q)

(* The push is refused when another merge moved the branch meanwhile. *)
MergeWithOptions(q) ==
  /\ req[q].at = "push"
  /\ tip = req[q].base
  /\ tip' = tip + 1
  /\ applied' = applyPatch(q)
  /\ req' = [req EXCEPT ![q].at = "commit"]
  /\ UNCHANGED <<pulls, requests>>

MergePull(q) ==
  /\ req[q].at = "commit"
  /\ pulls' = SetPullState(pulls, ToMerge(q), "merged")
  /\ Done(q)
  /\ UNCHANGED <<knot, requests>>

(***************************************************************************)
(* Resubmission.  The new round's number is the number of submissions in   *)
(* the snapshot; unique(pull_at, round_number) refuses one that exists.    *)
(***************************************************************************)
(* Mutant: no unique constraint. *)
RoundFree_Any(i, r) == TRUE

NextRound(q, i) == Len(req[q].snap[i].rounds)

RoundFree(i, r) == r \notin Elems(pulls[i].rounds)

AddRound(p, r) == [p EXCEPT !.rounds = Append(@, r)]

(* resubmitPullHelper of a pull that is not stacked. *)
ResubmitPull(q) ==
  LET i == req[q].pull
      r == NextRound(q, i)
  IN  /\ Handle(q)
      /\ ~ Stacked(req[q].snap, i)
      /\ r < MaxRounds
      /\ RoundFree(i, r)
      /\ pulls' = [pulls EXCEPT ![i] = AddRound(@, r)]
      /\ Done(q)
      /\ UNCHANGED <<knot, requests>>

(* Places in cs of the change ids that are not in ids, in any order (the   *)
(* handler ranges over a map).                                             *)
Additions(cs, ids) ==
  LET places == {k \in 1..Len(cs) : cs[k] \notin ids}
  IN  {f \in [1..Cardinality(places) -> places] : \A k \in places : \E m \in DOMAIN f : f[m] = k}

(* Mutant: the parents of existing rows are left as they were. *)
SetPullParentChangeId_Skipped(t, cs) == t

(* The parent of every row of the author with a change id of cs, whatever  *)
(* its stack and state.                                                    *)
SetPullParentChangeId(t, cs) ==
  [i \in 1..Len(t) |->
     IF t[i].change \in Elems(cs)
     THEN [t[i] EXCEPT !.parent = ParentIn(cs, CHOOSE k \in 1..Len(cs) : cs[k] = t[i].change)]
     ELSE t[i]]

(* resubmitStackedPullHelper: the snapshot's stack against the new patches *)
(* cs.  New change ids get rows in any order, those that are gone are      *)
(* marked deleted, the others get a new round (merged ones excepted), and  *)
(* the parents are rewritten by change id.                                 *)
ResubmitStack(q, cs) ==
  LET t == req[q].snap
      s == t[req[q].pull].stack
      orig == Elems(GetStack(t, s))
      kept == {i \in orig : t[i].change \in Elems(cs)}
      unmerged == {i \in orig : t[i].state # "merged"}
      updated == kept \cap unmerged
      added == Additions(cs, {t[i].change : i \in orig})
      deleted == SetPullState(pulls, unmerged \ kept, "deleted")
      rounds == [i \in 1..Len(pulls) |->
                   IF i \in updated THEN AddRound(deleted[i], NextRound(q, i)) ELSE deleted[i]]
  IN  /\ Handle(q)
      /\ Stacked(t, req[q].pull)
      /\ \A i \in updated : NextRound(q, i) < MaxRounds /\ RoundFree(i, NextRound(q, i))
      /\ \E ks \in added :
           /\ Len(pulls) + Len(ks) <= MaxPulls
           /\ LET rows == [k \in 1..Len(ks) |-> Row(s, cs[ks[k]], ParentIn(cs, ks[k]))]
              IN  pulls' = SetPullParentChangeId(rounds \o rows, cs)
      /\ Done(q)
      /\ UNCHANGED <<knot, requests>>

Next ==
  \/ CreatePull
  \/ \E s \in StackId, cs \in Patches : CreateStack(s, cs)
  \/ \E q \in Req :
       \/ \E i \in 1..Len(pulls) : ResolvePull(q, i)
       \/ Abandon(q) \/ ClosePull(q) \/ ReopenPull(q)
       \/ RepoMerge(q) \/ MergeWithOptions(q) \/ MergePull(q)
       \/ ResubmitPull(q)
       \/ \E cs \in Patches : ResubmitStack(q, cs)

Spec == Init /\ [][Next]_vars

----------------------------------------------------------------------------
(***************************************************************************)
(* Properties.                                                             *)
(***************************************************************************)

(* Concurrent resubmissions from stale snapshots never give two            *)
(* submissions of a pull the same round, nor leave a gap.                  *)
RoundsContiguous ==
  \A i \in 1..Len(pulls) : \A k \in 1..Len(pulls[i].rounds) : pulls[i].rounds[k] = k - 1

(* A stack that has pulls has a top, and the walk of GetStack down from it *)
(* ends, whatever resubmissions, of this stack or of another with the same *)
(* change ids, did to the parents.                                         *)
WalkTerminates ==
  \A s \in StackId :
    StackPulls(pulls, s) # {} => HasTop(pulls, s) /\ Terminates(pulls, s)

(* GetStack finds every pull of the stack that is not deleted. *)
Complete(t, s) ==
  WellFormed(t, s) /\ Elems(GetStack(t, s)) = StackPulls(t, s)

(* Something was submitted: a row or a round is new. *)
Submitted ==
  \/ Len(pulls') > Len(pulls)
  \/ \E i \in 1..Len(pulls) : pulls'[i].rounds # pulls[i].rounds

(* A resubmission that works from an up-to-date snapshot of a complete     *)
(* stack without merged pulls leaves a complete stack: the difference of   *)
(* the stacks by change id and the new parents fit together.               *)
ResubmitKeepsStack ==
  [][\A q \in Req : \A s \in StackId :
       ( /\ Handle(q) /\ req'[q].at = "idle" /\ Submitted
         /\ req[q].snap = pulls /\ pulls[req[q].pull].stack = s
         /\ Complete(pulls, s)
         /\ \A i \in StackPulls(pulls, s) : pulls[i].state # "merged" )
       => Complete(pulls', s)]_vars

(* A merged pull was merged: the knot applied and pushed one of its        *)
(* rounds, though merges race for the branch and the rows are marked in a  *)
(* later transaction from the snapshot the request began with.             *)
MergedWasApplied ==
  \A i \in 1..Len(pulls) : pulls[i].state = "merged" => i \in applied

=============================================================================
