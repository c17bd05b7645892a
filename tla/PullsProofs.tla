---------------------------- MODULE PullsProofs ----------------------------
(***************************************************************************)
(* Proofs about pull requests and about labels.                            *)
(*                                                                         *)
(* For any numbers of requests, stacks, change ids, pulls, rounds and      *)
(* requests, with stale snapshots racing:                                  *)
(*   - a pull is only marked merged when the knot merged a round of it;    *)
(*   - the rounds of a pull have no gap, the walk down a stack ends, and a *)
(*     resubmission from an up-to-date snapshot leaves a stack that        *)
(*     GetStack finds completely.                                          *)
(* The first needs little of the table; the others an order of the change  *)
(* ids of each stack that every parent column respects.                    *)
(*                                                                         *)
(* For any labels, values and saves: an undisturbed save shows what it was *)
(* asked for, and once all records are ingested the labels are their fold  *)
(* in the order of their times.                                            *)
(***************************************************************************)
EXTENDS Pulls, Labels, FiniteSetTheorems, SequenceTheorems, TLAPS

(***************************************************************************)
(* The inductive invariant.                                                *)
(***************************************************************************)

(* The table is a sequence of rows, each with a state. *)
IsTable(t) ==
  /\ \E S : t \in Seq(S)
  /\ \A i \in 1..Len(t) : "state" \in DOMAIN t[i]

IsRequest(r) == {"at", "pull", "snap"} \subseteq DOMAIN r

Requests ==
  /\ DOMAIN req = Req
  /\ \A q \in Req : IsRequest(req[q])

(* What a request is about to mark merged was applied. *)
Applied(q) == req[q].at = "commit" => ToMerge(q) \subseteq applied

IInv ==
  /\ IsTable(pulls)
  /\ Requests
  /\ \A q \in Req : Applied(q)
  /\ MergedWasApplied

----------------------------------------------------------------------------
(***************************************************************************)
(* The operations on the table.                                            *)
(***************************************************************************)

(* t is a table in which only rows of ids, or ones merged in u, are merged. *)
MergedIn(t, u, ids) ==
  /\ IsTable(t)
  /\ \A i \in 1..Len(t) :
       t[i].state = "merged" => i \in ids \/ (i \in 1..Len(u) /\ u[i].state = "merged")

(* A function on 1..n is a sequence of length n. *)
LEMMA SeqOfFunction ==
  ASSUME NEW n \in Nat, NEW S, NEW u \in [1..n -> S]
  PROVE  u \in Seq(S) /\ Len(u) = n
  OBVIOUS

(* Rewriting rows in place keeps the table when every row keeps a state. *)
LEMMA MapTable ==
  ASSUME NEW t, IsTable(t), NEW S, NEW u \in [1..Len(t) -> S], NEW ids,
         \A i \in 1..Len(t) :
           /\ "state" \in DOMAIN u[i]
           /\ u[i].state = "merged" => i \in ids \/ t[i].state = "merged"
  PROVE  MergedIn(u, t, ids) /\ Len(u) = Len(t)
<1>1. Len(t) \in Nat
  BY DEF IsTable
<1>2. u \in Seq(S) /\ Len(u) = Len(t)
  BY <1>1, SeqOfFunction
<1> QED
  BY <1>2 DEF IsTable, MergedIn

(* SetPullState merges only the rows it is told to. *)
LEMMA SetPullStateTable ==
  ASSUME NEW t, IsTable(t), NEW ids, NEW state
  PROVE  /\ MergedIn(SetPullState(t, ids, state), t, IF state = "merged" THEN ids ELSE {})
         /\ Len(SetPullState(t, ids, state)) = Len(t)
<1> DEFINE u == SetPullState(t, ids, state)
           S == {u[i] : i \in 1..Len(t)}
<1>1. u = [i \in 1..Len(t) |->
             IF i \in ids /\ MayChange(t[i]) THEN [t[i] EXCEPT !.state = state] ELSE t[i]]
  BY DEF SetPullState
<1>2. u \in [1..Len(t) -> S]
  BY <1>1
<1>3. ASSUME NEW i \in 1..Len(t)
      PROVE  /\ "state" \in DOMAIN u[i]
             /\ u[i].state = "merged" => (state = "merged" /\ i \in ids) \/ t[i].state = "merged"
  <2>1. "state" \in DOMAIN t[i]
    BY DEF IsTable
  <2>2. /\ "state" \in DOMAIN [t[i] EXCEPT !.state = state]
        /\ [t[i] EXCEPT !.state = state].state = state
    BY <2>1
  <2>3. u[i] = IF i \in ids /\ MayChange(t[i]) THEN [t[i] EXCEPT !.state = state] ELSE t[i]
    BY <1>1
  <2> HIDE DEF u
  <2> QED BY <2>1, <2>2, <2>3
<1> HIDE DEF u, S
<1>4. \A i \in 1..Len(t) :
        /\ "state" \in DOMAIN u[i]
        /\ u[i].state = "merged" =>
             i \in (IF state = "merged" THEN ids ELSE {}) \/ t[i].state = "merged"
  BY <1>3
<1> QED
  BY <1>2, <1>4, MapTable DEF u

(* A new round leaves the state of its pull alone. *)
LEMMA AddRoundState ==
  ASSUME NEW p, NEW r, "state" \in DOMAIN p
  PROVE  "state" \in DOMAIN AddRound(p, r) /\ AddRound(p, r).state = p.state
  BY DEF AddRound

(* So does a new parent. *)
LEMMA SetParentTable ==
  ASSUME NEW t, IsTable(t), NEW cs
  PROVE  /\ MergedIn(SetPullParentChangeId(t, cs), t, {})
         /\ Len(SetPullParentChangeId(t, cs)) = Len(t)
<1> DEFINE p(i) == ParentIn(cs, CHOOSE k \in 1..Len(cs) : cs[k] = t[i].change)
           u == SetPullParentChangeId(t, cs)
           S == {u[i] : i \in 1..Len(t)}
<1>1. u = [i \in 1..Len(t) |->
             IF t[i].change \in Elems(cs) THEN [t[i] EXCEPT !.parent = p(i)] ELSE t[i]]
  BY DEF SetPullParentChangeId
<1>2. u \in [1..Len(t) -> S]
  BY <1>1
<1>3. ASSUME NEW i \in 1..Len(t)
      PROVE  "state" \in DOMAIN u[i] /\ u[i].state = t[i].state
  <2>1. "state" \in DOMAIN t[i]
    BY DEF IsTable
  <2>2. u[i] = IF t[i].change \in Elems(cs) THEN [t[i] EXCEPT !.parent = p(i)] ELSE t[i]
    BY <1>1
  <2> HIDE DEF p, u
  <2>3. /\ "state" \in DOMAIN [t[i] EXCEPT !.parent = p(i)]
        /\ [t[i] EXCEPT !.parent = p(i)].state = t[i].state
    BY <2>1
  <2> QED BY <2>1, <2>2, <2>3
<1> HIDE DEF u, S
<1> QED
  BY <1>2, <1>3, MapTable DEF u

(* A row that is inserted is open. *)
LEMMA RowOpen ==
  ASSUME NEW s, NEW c, NEW p
  PROVE  "state" \in DOMAIN Row(s, c, p) /\ Row(s, c, p).state = "open"
  BY DEF Row

(* Appending open rows keeps the table. *)
LEMMA AppendTable ==
  ASSUME NEW t, IsTable(t), NEW n \in Nat, NEW S, NEW new \in [1..n -> S],
         \A k \in 1..n : "state" \in DOMAIN new[k] /\ new[k].state = "open"
  PROVE  MergedIn(t \o new, t, {})
<1>1. PICK T : t \in Seq(T)
  BY DEF IsTable
<1>2. new \in Seq(S) /\ Len(new) = n
  BY SeqOfFunction
<1>3. t \in Seq(T \cup S) /\ new \in Seq(T \cup S)
  BY <1>1, <1>2, SeqMonotonic
<1>4. /\ t \o new \in Seq(T \cup S) /\ Len(t) \in Nat /\ Len(t \o new) = Len(t) + n
      /\ \A i \in 1..Len(t) + n :
           (t \o new)[i] = IF i <= Len(t) THEN t[i] ELSE new[i - Len(t)]
  BY <1>2, <1>3
<1> DEFINE u == t \o new
<1> HIDE DEF u
<1>5. ASSUME NEW i \in 1..Len(u)
      PROVE  /\ "state" \in DOMAIN u[i]
             /\ u[i].state = "merged" => i \in 1..Len(t) /\ t[i].state = "merged"
  <2>1. CASE i <= Len(t)
    <3>1. u[i] = t[i] /\ i \in 1..Len(t)
      BY <1>4, <2>1 DEF u
    <3> QED BY <3>1 DEF IsTable
  <2>2. CASE ~ (i <= Len(t))
    <3>1. u[i] = new[i - Len(t)] /\ i - Len(t) \in 1..n
      BY <1>4, <2>2 DEF u
    <3> QED BY <3>1
  <2> QED BY <2>1, <2>2
<1> QED
  BY <1>4, <1>5 DEF IsTable, MergedIn, u

----------------------------------------------------------------------------
(***************************************************************************)
(* The actions.                                                            *)
(***************************************************************************)

(* A table in which nothing unmerged was merged keeps the property. *)
LEMMA NothingMerged ==
  ASSUME MergedWasApplied, MergedIn(pulls', pulls, {}), applied \subseteq applied'
  PROVE  IsTable(pulls') /\ MergedWasApplied'
  BY DEF MergedIn, MergedWasApplied

(* What a request merges is in what it has read. *)
LEMMA ToMergeKept ==
  ASSUME NEW q \in Req, req'[q].pull = req[q].pull, req'[q].snap = req[q].snap
  PROVE  ToMerge(q)' = ToMerge(q)
<1>1. Below(q)' = Below(q)
  BY DEF Below
<1> QED
  BY <1>1 DEF ToMerge

(* A step of one request that does not leave it about to commit, and takes *)
(* back nothing of the knot's.                                             *)
LEMMA RequestStep ==
  ASSUME IInv, NEW q \in Req, NEW r, IsRequest(r), r.at # "commit",
         req' = [req EXCEPT ![q] = r], applied \subseteq applied'
  PROVE  Requests' /\ \A p \in Req : Applied(p)'
<1>1. DOMAIN req' = Req /\ req'[q] = r /\ \A p \in Req \ {q} : req'[p] = req[p]
  BY DEF IInv, Requests
<1>2. Requests'
  BY <1>1 DEF IInv, Requests
<1>3. ASSUME NEW p \in Req PROVE Applied(p)'
  <2>1. CASE p = q
    BY <1>1, <2>1 DEF Applied
  <2>2. CASE p # q
    <3>1. ToMerge(p)' = ToMerge(p)
      BY <1>1, <2>2, ToMergeKept
    <3> QED BY <1>1, <2>2, <3>1 DEF IInv, Applied
  <2> QED BY <2>1, <2>2
<1> QED
  BY <1>2, <1>3

(* A step no request takes part in. *)
LEMMA NoRequest ==
  ASSUME IInv, UNCHANGED <<req, applied>>
  PROVE  Requests' /\ \A p \in Req : Applied(p)'
<1>1. \A p \in Req : ToMerge(p)' = ToMerge(p)
  BY ToMergeKept
<1> QED
  BY <1>1 DEF IInv, Requests, Applied

(* The end of a request is such a step. *)
LEMMA DoneStep ==
  ASSUME IInv, NEW q \in Req, Done(q), applied \subseteq applied'
  PROVE  Requests' /\ \A p \in Req : Applied(p)'
<1>1. IsRequest(Idle) /\ Idle.at # "commit"
  BY DEF IsRequest, Idle
<1> QED
  BY <1>1, RequestStep DEF Done

(* New rows are open. *)
LEMMA CreatePullIInv == IInv /\ CreatePull => IInv'
<1> SUFFICES ASSUME IInv, CreatePull PROVE IInv'
  OBVIOUS
<1> DEFINE row == Row(Null, Null, Null)
           new == [k \in 1..1 |-> row]
<1>1. PICK T : pulls \in Seq(T)
  BY DEF IInv, IsTable
<1>2. new \in [1..1 -> {row}] /\ new = <<row>>
  OBVIOUS
<1>3. Append(pulls, row) = pulls \o new
  <2> HIDE DEF row
  <2>1. pulls \in Seq(T \cup {row}) /\ row \in T \cup {row}
    BY <1>1, SeqMonotonic
  <2> QED BY <2>1, <1>2, AppendIsConcat
<1>4. MergedIn(pulls \o new, pulls, {})
  <2>1. \A k \in 1..1 : "state" \in DOMAIN new[k] /\ new[k].state = "open"
    BY RowOpen
  <2> HIDE DEF new
  <2> QED BY <1>2, <2>1, AppendTable DEF IInv
<1>5. pulls' = pulls \o new /\ UNCHANGED <<req, applied>>
  BY <1>3 DEF CreatePull, knot
<1>6. MergedIn(pulls', pulls, {})
  BY <1>4, <1>5
<1> QED
  BY <1>5, <1>6, NothingMerged, NoRequest DEF IInv

(* So are those of a stack. *)
LEMMA CreateStackIInv ==
  ASSUME NEW s, NEW cs \in Patches, IInv, CreateStack(s, cs) PROVE IInv'
<1> DEFINE new == [k \in 1..Len(cs) |-> Row(s, cs[k], ParentIn(cs, k))]
           S == {Row(s, cs[k], ParentIn(cs, k)) : k \in 1..Len(cs)}
<1>1. Len(cs) \in Nat
  BY DEF Patches
<1>2. new \in [1..Len(cs) -> S]
  OBVIOUS
<1>3. \A k \in 1..Len(cs) : "state" \in DOMAIN new[k] /\ new[k].state = "open"
  BY RowOpen
<1>4. pulls' = pulls \o new /\ UNCHANGED <<req, applied>>
  BY DEF CreateStack, knot
<1> HIDE DEF new, S
<1>5. MergedIn(pulls', pulls, {})
  BY <1>1, <1>2, <1>3, <1>4, AppendTable DEF IInv
<1> QED
  BY <1>4, <1>5, NothingMerged, NoRequest DEF IInv

(* Reading a snapshot, giving up and starting a merge touch no row. *)
LEMMA ReadIInv ==
  ASSUME NEW q \in Req, IInv,
         (\E i \in 1..Len(pulls) : ResolvePull(q, i)) \/ Abandon(q) \/ RepoMerge(q)
  PROVE  IInv'
<1>1. UNCHANGED <<pulls, applied>>
  BY DEF ResolvePull, Abandon, RepoMerge, knot
<1>2. IsTable(pulls)' /\ MergedWasApplied'
  BY <1>1 DEF IInv, MergedWasApplied
<1>3. Requests' /\ \A p \in Req : Applied(p)'
  <2>1. ASSUME NEW i \in 1..Len(pulls), ResolvePull(q, i)
        PROVE  Requests' /\ \A p \in Req : Applied(p)'
    <3> DEFINE r == [at |-> "handler", pull |-> i, snap |-> pulls]
    <3>1. IsRequest(r) /\ r.at # "commit" /\ req' = [req EXCEPT ![q] = r]
      BY <2>1 DEF IsRequest, ResolvePull
    <3> HIDE DEF r
    <3> QED BY <1>1, <3>1, RequestStep
  <2>2. CASE Abandon(q)
    BY <1>1, <2>2, DoneStep DEF Abandon
  <2>3. CASE RepoMerge(q)
    <3> DEFINE r == [at |-> "push", pull |-> req[q].pull, snap |-> req[q].snap,
                     base |-> cloneTemp]
    <3>1. IsRequest(r) /\ r.at # "commit" /\ req' = [req EXCEPT ![q] = r]
      BY <2>3 DEF IsRequest, RepoMerge, Merge
    <3> HIDE DEF r
    <3> QED BY <1>1, <3>1, RequestStep
  <2> QED BY <2>1, <2>2, <2>3
<1> QED
  BY <1>2, <1>3 DEF IInv

(* Closing and reopening merge nothing. *)
LEMMA SetStateIInv ==
  ASSUME NEW q \in Req, IInv, ClosePull(q) \/ ReopenPull(q) PROVE IInv'
<1>1. \E ids : pulls' = SetPullState(pulls, ids, "closed") \/ pulls' = SetPullState(pulls, ids, "open")
  BY DEF ClosePull, ReopenPull
<1>2. MergedIn(pulls', pulls, {})
  BY <1>1, SetPullStateTable DEF IInv
<1>3. Done(q) /\ applied' = applied
  BY DEF ClosePull, ReopenPull, knot
<1> QED
  BY <1>2, <1>3, NothingMerged, DoneStep DEF IInv

(* The knot's push is what lets the request go on to its commit. *)
LEMMA MergeWithOptionsIInv ==
  ASSUME NEW q \in Req, IInv, MergeWithOptions(q) PROVE IInv'
<1>1. /\ pulls' = pulls /\ applied' = applied \cup ToMerge(q)
      /\ req' = [req EXCEPT ![q] = [req[q] EXCEPT !.at = "commit"]]
  BY DEF MergeWithOptions, applyPatch
<1>2. IsRequest(req[q]) /\ DOMAIN req = Req
  BY DEF IInv, Requests
<1> DEFINE r == [req[q] EXCEPT !.at = "commit"]
<1>3. IsRequest(r) /\ r.pull = req[q].pull /\ r.snap = req[q].snap
  BY <1>2 DEF IsRequest
<1> HIDE DEF r
<1>4. DOMAIN req' = Req /\ req'[q] = r /\ \A p \in Req \ {q} : req'[p] = req[p]
  BY <1>1, <1>2 DEF r
<1>5. Requests'
  BY <1>3, <1>4 DEF IInv, Requests
<1>6. \A p \in Req : ToMerge(p)' = ToMerge(p)
  BY <1>3, <1>4, ToMergeKept
<1>7. \A p \in Req : Applied(p)'
  BY <1>1, <1>4, <1>6 DEF IInv, Applied
<1>8. IsTable(pulls)' /\ MergedWasApplied'
  BY <1>1 DEF IInv, MergedWasApplied
<1> QED
  BY <1>5, <1>7, <1>8 DEF IInv

(* MergePull marks the pulls the knot was sent. *)
LEMMA MergePullIInv ==
  ASSUME NEW q \in Req, IInv, MergePull(q) PROVE IInv'
<1>1. pulls' = SetPullState(pulls, ToMerge(q), "merged") /\ Done(q) /\ applied' = applied
  BY DEF MergePull, knot
<1>2. MergedIn(pulls', pulls, ToMerge(q))
  BY <1>1, SetPullStateTable DEF IInv
<1>3. ToMerge(q) \subseteq applied
  BY DEF IInv, Applied, MergePull
<1>4. IsTable(pulls)' /\ MergedWasApplied'
  BY <1>1, <1>2, <1>3 DEF IInv, MergedIn, MergedWasApplied
<1> QED
  BY <1>1, <1>4, DoneStep DEF IInv

(* A resubmission adds a round to a pull, *)
LEMMA ResubmitPullIInv ==
  ASSUME NEW q \in Req, IInv, ResubmitPull(q) PROVE IInv'
<1> DEFINE j == req[q].pull
           x == AddRound(pulls[j], NextRound(q, j))
           S == {pulls[i] : i \in 1..Len(pulls)} \cup {x}
<1>1. pulls' = [pulls EXCEPT ![j] = x] /\ Done(q) /\ applied' = applied
  BY DEF ResubmitPull, knot
<1>2. Len(pulls) \in Nat /\ DOMAIN pulls = 1..Len(pulls)
  BY DEF IInv, IsTable
<1>3. \A i \in 1..Len(pulls) : "state" \in DOMAIN pulls[i]
  BY DEF IInv, IsTable
<1>4. j \in 1..Len(pulls) => "state" \in DOMAIN x /\ x.state = pulls[j].state
  BY <1>3, AddRoundState
<1> HIDE DEF x, j
<1>5. pulls' \in [1..Len(pulls) -> S]
  BY <1>1, <1>2
<1>6. \A i \in 1..Len(pulls) : "state" \in DOMAIN pulls'[i] /\ pulls'[i].state = pulls[i].state
  BY <1>1, <1>2, <1>3, <1>4
<1> HIDE DEF S
<1>7. MergedIn(pulls', pulls, {})
  BY <1>5, <1>6, MapTable DEF IInv
<1> QED
  BY <1>1, <1>7, NothingMerged, DoneStep DEF IInv

(* or rewrites a stack: of the rows it finds it deletes some and gives     *)
(* others a round, and the rows it adds are open.                          *)
LEMMA ResubmitStackIInv ==
  ASSUME NEW q \in Req, NEW cs \in Patches, IInv, ResubmitStack(q, cs) PROVE IInv'
<1> DEFINE t == req[q].snap
           s == t[req[q].pull].stack
           orig == Elems(GetStack(t, s))
           kept == {i \in orig : t[i].change \in Elems(cs)}
           unmerged == {i \in orig : t[i].state # "merged"}
           updated == kept \cap unmerged
           ids == {t[i].change : i \in orig}
           added == Additions(cs, ids)
           deleted == SetPullState(pulls, unmerged \ kept, "deleted")
           rounds == [i \in 1..Len(pulls) |->
                        IF i \in updated THEN AddRound(deleted[i], NextRound(q, i)) ELSE deleted[i]]
           rows(ks) == [k \in 1..Len(ks) |-> Row(s, cs[ks[k]], ParentIn(cs, ks[k]))]
<1>1. PICK ks \in added : pulls' = SetPullParentChangeId(rounds \o rows(ks), cs)
  BY DEF ResubmitStack
<1>2. Done(q) /\ applied' = applied
  BY DEF ResubmitStack, knot
<1>3. MergedIn(deleted, pulls, {}) /\ Len(deleted) = Len(pulls)
  BY SetPullStateTable DEF IInv
<1>4. MergedIn(rounds, deleted, {}) /\ Len(rounds) = Len(deleted)
  <2> DEFINE S == {rounds[i] : i \in 1..Len(pulls)}
  <2>1. rounds \in [1..Len(deleted) -> S]
    BY <1>3
  <2>2. ASSUME NEW i \in 1..Len(deleted)
        PROVE  "state" \in DOMAIN rounds[i] /\ rounds[i].state = deleted[i].state
    <3>1. rounds[i] = IF i \in updated THEN AddRound(deleted[i], NextRound(q, i)) ELSE deleted[i]
      BY <1>3
    <3>2. "state" \in DOMAIN deleted[i]
      BY <1>3 DEF MergedIn, IsTable
    <3> HIDE DEF rounds, deleted, updated
    <3> QED BY <3>1, <3>2, AddRoundState
  <2> HIDE DEF S, rounds, deleted
  <2> QED BY <1>3, <2>1, <2>2, MapTable DEF MergedIn
<1>5. Len(ks) \in Nat
  <2> DEFINE places == {k \in 1..Len(cs) : cs[k] \notin ids}
  <2>1. Len(cs) \in Nat
    BY DEF Patches
  <2>2. IsFiniteSet(places)
    <3>1. IsFiniteSet(1..Len(cs))
      BY <2>1, FS_Interval
    <3>2. places \subseteq 1..Len(cs)
      OBVIOUS
    <3> QED BY <3>1, <3>2, FS_Subset
  <2>3. Cardinality(places) \in Nat
    BY <2>2, FS_CardinalityType
  <2>4. ks \in [1..Cardinality(places) -> places]
    <3> HIDE DEF ids
    <3> QED BY <1>1 DEF Additions
  <2> HIDE DEF places
  <2> QED BY <2>3, <2>4, SeqOfFunction
<1>6. MergedIn(rounds \o rows(ks), rounds, {})
  <2> DEFINE S == {rows(ks)[k] : k \in 1..Len(ks)}
             new == rows(ks)
  <2>1. new \in [1..Len(ks) -> S]
    OBVIOUS
  <2>2. \A k \in 1..Len(ks) : "state" \in DOMAIN new[k] /\ new[k].state = "open"
    BY RowOpen
  <2> HIDE DEF new, S, rounds
  <2>3. IsTable(rounds)
    BY <1>4 DEF MergedIn
  <2>4. MergedIn(rounds \o new, rounds, {})
    BY <1>5, <2>1, <2>2, <2>3, AppendTable
  <2> QED BY <2>4 DEF new
<1> DEFINE u == rounds \o rows(ks)
<1>7. pulls' = SetPullParentChangeId(u, cs)
  BY <1>1
<1>8. MergedIn(u, rounds, {})
  BY <1>6
<1> HIDE DEF u, rounds, deleted
<1>9. MergedIn(pulls', u, {})
  BY <1>7, <1>8, SetParentTable DEF MergedIn
<1>10. MergedIn(pulls', pulls, {})
  BY <1>3, <1>4, <1>8, <1>9 DEF MergedIn
<1> QED
  BY <1>2, <1>10, NothingMerged, DoneStep DEF IInv

(* Every step, stuttering included, preserves the invariant. *)
LEMMA NextIInv == IInv /\ [Next]_vars => IInv'
<1> SUFFICES ASSUME IInv, [Next]_vars PROVE IInv'
  OBVIOUS
<1>1. ASSUME NEW s \in StackId, NEW cs \in Patches, CreateStack(s, cs) PROVE IInv'
  BY <1>1, CreateStackIInv
<1>2. ASSUME NEW q \in Req,
             \/ \E i \in 1..Len(pulls) : ResolvePull(q, i)
             \/ Abandon(q) \/ ClosePull(q) \/ ReopenPull(q)
             \/ RepoMerge(q) \/ MergeWithOptions(q) \/ MergePull(q)
             \/ ResubmitPull(q)
      PROVE  IInv'
  BY <1>2, ReadIInv, SetStateIInv, MergeWithOptionsIInv, MergePullIInv, ResubmitPullIInv
<1>3. ASSUME NEW q \in Req, NEW cs \in Patches, ResubmitStack(q, cs) PROVE IInv'
  BY <1>3, ResubmitStackIInv
<1>4. CASE UNCHANGED vars
  <2>1. Requests' /\ \A p \in Req : Applied(p)'
    BY <1>4, NoRequest DEF vars, knot
  <2> QED BY <1>4, <2>1 DEF vars, knot, IInv, MergedWasApplied
<1> QED
  BY <1>1, <1>2, <1>3, <1>4, CreatePullIInv DEF Next

----------------------------------------------------------------------------
(* MergePull: a row is marked merged only when the knot applied and pushed *)
(* a round of that pull, whatever other requests did to the table and the  *)
(* branch since the snapshot.                                              *)
THEOREM MergesWereApplied == Spec => []MergedWasApplied
<1>1. Init => IInv
  <2> SUFFICES ASSUME Init PROVE IInv
    OBVIOUS
  <2>1. pulls = << >> /\ req = [q \in Req |-> Idle]
    BY DEF Init
  <2>2. << >> \in Seq({}) /\ Len(<< >>) = 0
    OBVIOUS
  <2>3. IsTable(pulls) /\ MergedWasApplied
    BY <2>1, <2>2 DEF IsTable, MergedWasApplied
  <2>4. Requests /\ \A q \in Req : Applied(q)
    BY <2>1 DEF Requests, IsRequest, Applied, Idle
  <2> QED BY <2>3, <2>4 DEF IInv
<1>2. IInv => MergedWasApplied
  BY DEF IInv
<1> QED
  BY <1>1, <1>2, NextIInv, PTL DEF Spec

----------------------------------------------------------------------------
(***************************************************************************)
(* Natural numbers, finite sets, and functions defined by recursion.       *)
(***************************************************************************)

(* A set of natural numbers has a least element, *)
LEMMA NatMin ==
  ASSUME NEW T \in SUBSET Nat, T # {}
  PROVE  \E m \in T : \A k \in T : m <= k
<1> DEFINE R == OpToRel(<, Nat)
<1>1. IsWellFoundedOn(R, Nat)
  BY NatLessThanWellFounded
<1> HIDE DEF R
<1>2. PICK m \in T : \A y \in T : <<y, m>> \notin R
  BY <1>1, WFMin
<1>3. \A y \in T : ~ (y < m)
  BY <1>2 DEF OpToRel, R
<1> QED
  BY <1>3

(* which gives induction over an interval: S is what it is shown of. *)
LEMMA IntervalInduction ==
  ASSUME NEW n \in Nat, NEW S, 1 \in S,
         \A k \in 1..n : k \in S /\ k < n => k + 1 \in S
  PROVE  1..n \subseteq S
<1> SUFFICES ASSUME NEW j \in 1..n, j \notin S PROVE FALSE
  OBVIOUS
<1> DEFINE T == {k \in 1..n : k \notin S}
<1>1. T \in SUBSET Nat /\ T # {}
  OBVIOUS
<1>2. PICK m \in T : \A k \in T : m <= k
  BY <1>1, NatMin
<1>3. m - 1 \in 1..n /\ m - 1 < n /\ (m - 1) + 1 = m
  OBVIOUS
<1>4. m - 1 \in S
  BY <1>2, <1>3
<1> QED
  BY <1>3, <1>4

(* Among finitely many there is one of the highest rank: one above which   *)
(* there are fewest.                                                       *)
LEMMA HighestRank ==
  ASSUME NEW S, IsFiniteSet(S), S # {}, NEW r \in [S -> Nat]
  PROVE  \E i \in S : \A j \in S : r[j] <= r[i]
<1> DEFINE Above_(i) == {j \in S : r[j] > r[i]}
           T == {Cardinality(Above_(i)) : i \in S}
<1>1. ASSUME NEW i \in S PROVE IsFiniteSet(Above_(i)) /\ Cardinality(Above_(i)) \in Nat
  BY FS_Subset, FS_CardinalityType
<1>2. T \in SUBSET Nat /\ T # {}
  BY <1>1
<1>3. PICK m \in T : \A k \in T : m <= k
  <2> HIDE DEF T
  <2> QED BY <1>2, NatMin
<1>4. PICK i \in S : m = Cardinality(Above_(i))
  OBVIOUS
<1>5. ASSUME NEW j \in S, r[j] > r[i] PROVE FALSE
  <2>1. Above_(j) \subseteq Above_(i) /\ j \in Above_(i) /\ j \notin Above_(j)
    BY <1>5
  <2>2. Cardinality(Above_(j)) <= Cardinality(Above_(i))
    BY <1>1, <2>1, FS_Subset
  <2>3. Cardinality(Above_(i)) <= Cardinality(Above_(j))
    BY <1>3, <1>4
  <2>4. Cardinality(Above_(i)) = Cardinality(Above_(j))
    <3>1. Cardinality(Above_(i)) \in Nat /\ Cardinality(Above_(j)) \in Nat
      BY <1>1
    <3> HIDE DEF Above_
    <3> QED BY <2>2, <2>3, <3>1
  <2>5. Above_(i) = Above_(j)
    <3> HIDE DEF Above_
    <3> QED BY <1>1, <2>1, <2>4, FS_Subset
  <2> QED BY <2>1, <2>5
<1> QED
  BY <1>5

(* The least element Min takes is one of the set, *)
LEMMA MinOf ==
  ASSUME NEW T \in SUBSET Nat, T # {}
  PROVE  Min(T) \in T
  BY NatMin DEF Min

(* and so is the greatest one Max takes of a finite set.                   *)
LEMMA MaxOf ==
  ASSUME NEW T \in SUBSET Nat, T # {}, IsFiniteSet(T)
  PROVE  Max(T) \in T
<1> DEFINE r == [i \in T |-> i]
<1>1. r \in [T -> Nat]
  OBVIOUS
<1>2. PICK i \in T : \A j \in T : r[j] <= r[i]
  <2> HIDE DEF r
  <2> QED BY <1>1, HighestRank
<1>3. i \in T /\ \A j \in T : i >= j
  BY <1>2
<1> QED
  BY <1>3 DEF Max

(* Iterating a function from a, n times. *)
LEMMA IterateExists ==
  ASSUME NEW n \in Nat, NEW S, NEW a \in S, NEW F \in [S -> S]
  PROVE  \E g \in [1..n -> S] :
           \A k \in 1..n : g[k] = IF k = 1 THEN a ELSE F[g[k - 1]]
<1> DEFINE Iter(g, m) == \A k \in 1..m : g[k] = IF k = 1 THEN a ELSE F[g[k - 1]]
           T == {m \in 1..n : \E g \in [1..m -> S] : Iter(g, m)}
<1>1. CASE n = 0
  <2>1. [k \in 1..n |-> a] \in [1..n -> S] /\ 1..n = {}
    BY <1>1
  <2> QED BY <2>1
<1>2. CASE n # 0
  <2>1. 1 \in T
    <3> DEFINE g == [k \in 1..1 |-> a]
    <3>1. g \in [1..1 -> S] /\ Iter(g, 1)
      OBVIOUS
    <3> HIDE DEF g
    <3>2. \E h \in [1..1 -> S] : Iter(h, 1)
      BY <3>1
    <3> HIDE DEF Iter
    <3> QED BY <1>2, <3>2
  <2>2. ASSUME NEW m \in 1..n, m \in T, m < n PROVE m + 1 \in T
    <3>1. PICK g \in [1..m -> S] : Iter(g, m)
      BY <2>2
    <3> DEFINE h == [k \in 1..(m + 1) |-> IF k = m + 1 THEN F[g[m]] ELSE g[k]]
    <3>2. h \in [1..(m + 1) -> S]
      OBVIOUS
    <3>3. ASSUME NEW k \in 1..(m + 1)
          PROVE  h[k] = IF k = 1 THEN a ELSE F[h[k - 1]]
      <4>1. CASE k = m + 1
        BY <4>1
      <4>2. CASE k # m + 1
        <5>1. k \in 1..m /\ h[k] = g[k] /\ (k # 1 => h[k - 1] = g[k - 1])
          BY <4>2
        <5> HIDE DEF h
        <5> QED BY <3>1, <5>1
      <4> QED BY <4>1, <4>2
    <3> HIDE DEF h
    <3>4. Iter(h, m + 1)
      BY <3>3
    <3> QED BY <2>2, <3>2, <3>4
  <2>3. 1..n \subseteq T
    <3> HIDE DEF T
    <3> QED BY <2>1, <2>2, IntervalInduction
  <2>4. n \in T
    BY <1>2, <2>3
  <2> QED BY <2>4
<1> QED
  BY <1>1, <1>2

----------------------------------------------------------------------------
(***************************************************************************)
(* The order of a stack, and GetStack's walk down it.                      *)
(***************************************************************************)

(* A stack whose pulls can be ranked so that parents are below.            *)
Ordered(t, s) ==
  \E rank \in [Change -> Nat] :
    \A i \in 1..Len(t) :
      t[i].stack = s /\ t[i].parent # Null => rank[t[i].parent] < rank[t[i].change]

(* A row of a stack has a change id, and its rounds have no gap. *)
GoodRow(p) ==
  /\ p \in Pull
  /\ p.stack \in StackId => p.change \in Change
  /\ \A k \in 1..Len(p.rounds) : p.rounds[k] = k - 1

GoodRows(t) == t \in Seq(Pull) /\ \A i \in 1..Len(t) : GoodRow(t[i])

GoodTable(t) == GoodRows(t) /\ \A s \in StackId : Ordered(t, s)

(* One turn of GetStack's loop, and the walk as a function. *)
Extend(t, s, w) ==
  LET p == t[w[Len(w)]].parent
  IN  IF p = Null \/ ByChange(t, s, p) = {} THEN w
      ELSE Append(w, Min(ByChange(t, s, p)))

Turns(t, s) ==
  CHOOSE g : g = [k \in 1..Cardinality(StackPulls(t, s)) + 1 |->
                    IF k = 1 THEN <<Max(Tops(t, s))>> ELSE Extend(t, s, g[k - 1])]

(* GetStack returns the walk of its last turn. *)
LEMMA WalkIsTurns ==
  ASSUME NEW t, NEW s
  PROVE  Walk(t, s) = Turns(t, s)[Cardinality(StackPulls(t, s)) + 1]
  BY DEF Walk, Turns, Extend

(* The pulls of a stack are finitely many places of the table. *)
LEMMA StackPullsFinite ==
  ASSUME NEW t, Len(t) \in Nat, NEW s
  PROVE  /\ StackPulls(t, s) \in SUBSET Nat /\ StackPulls(t, s) \subseteq 1..Len(t)
         /\ IsFiniteSet(StackPulls(t, s)) /\ Cardinality(StackPulls(t, s)) \in Nat
<1>1. StackPulls(t, s) \subseteq 1..Len(t)
  BY DEF StackPulls
<1>2. IsFiniteSet(1..Len(t))
  BY FS_Interval
<1> QED
  BY <1>1, <1>2, FS_Subset, FS_CardinalityType

(* A stack with an order and pulls has a top. *)
LEMMA OrderedHasTop ==
  ASSUME NEW t, GoodTable(t), NEW s \in StackId, StackPulls(t, s) # {}
  PROVE  HasTop(t, s)
<1>1. PICK rank \in [Change -> Nat] :
        \A i \in 1..Len(t) :
          t[i].stack = s /\ t[i].parent # Null => rank[t[i].parent] < rank[t[i].change]
  BY DEF GoodTable, Ordered
<1> DEFINE S == StackPulls(t, s)
           r == [i \in S |-> rank[t[i].change]]
<1>2. \A i \in S : i \in 1..Len(t) /\ t[i].stack = s /\ t[i].change \in Change
  BY DEF StackPulls, GoodTable, GoodRows, GoodRow
<1>3. IsFiniteSet(S)
  BY StackPullsFinite DEF GoodTable, GoodRows
<1>4. r \in [S -> Nat]
  BY <1>2
<1>5. PICK i \in S : \A j \in S : r[j] <= r[i]
  <2> HIDE DEF r, S
  <2> QED BY <1>3, <1>4, HighestRank DEF S
<1>6. ASSUME NEW j \in S, t[j].parent = t[i].change PROVE FALSE
  <2>1. t[j].parent # Null
    BY <1>2, <1>6, PullsAssumption
  <2>2. rank[t[i].change] < rank[t[j].change]
    BY <1>1, <1>2, <1>6, <2>1
  <2>3. rank[t[i].change] \in Nat /\ rank[t[j].change] \in Nat
    BY <1>2
  <2>4. r[j] <= r[i] /\ r[i] = rank[t[i].change] /\ r[j] = rank[t[j].change]
    BY <1>5
  <2> QED BY <2>2, <2>3, <2>4
<1>7. i \in Tops(t, s)
  BY <1>6 DEF Tops
<1> QED
  BY <1>7 DEF HasTop

(* The walk is a sequence of pulls of the stack that starts at a top. *)
LEMMA TurnsType ==
  ASSUME NEW t, Len(t) \in Nat, NEW s, HasTop(t, s)
  PROVE  LET n == Cardinality(StackPulls(t, s)) + 1
             T == {w \in Seq(StackPulls(t, s)) : w # << >>}
         IN  /\ n \in Nat
             /\ Turns(t, s) \in [1..n -> T]
             /\ \A k \in 1..n :
                  Turns(t, s)[k] = IF k = 1 THEN <<Max(Tops(t, s))>>
                                   ELSE Extend(t, s, Turns(t, s)[k - 1])
<1> DEFINE S == StackPulls(t, s)
           n == Cardinality(S) + 1
           T == {w \in Seq(S) : w # << >>}
           a == <<Max(Tops(t, s))>>
           F == [w \in T |-> Extend(t, s, w)]
           Is(g) == g = [k \in 1..n |-> IF k = 1 THEN a ELSE Extend(t, s, g[k - 1])]
<1>1. S \in SUBSET Nat /\ IsFiniteSet(S) /\ n \in Nat
  BY StackPullsFinite
<1>2. a \in T
  <2>1. Tops(t, s) \in SUBSET Nat /\ Tops(t, s) \in SUBSET S /\ IsFiniteSet(Tops(t, s))
    BY <1>1, FS_Subset DEF Tops
  <2>2. Max(Tops(t, s)) \in S
    BY <2>1, MaxOf DEF HasTop
  <2> HIDE DEF S
  <2> QED BY <2>2
<1>3. ASSUME NEW w \in T PROVE Extend(t, s, w) \in T
  <2> DEFINE B == ByChange(t, s, t[w[Len(w)]].parent)
  <2>1. CASE B = {}
    BY <2>1 DEF Extend
  <2>2. CASE B # {}
    <3>1. B \in SUBSET S
      BY DEF ByChange
    <3>2. Min(B) \in S
      <4> HIDE DEF S, B
      <4> QED BY <1>1, <2>2, <3>1, MinOf
    <3> DEFINE m == Min(B)
    <3>3. Append(w, m) \in T
      <4> HIDE DEF S, m
      <4>1. Append(w, m) \in Seq(S)
        BY <3>2 DEF m
      <4>2. Len(Append(w, m)) = Len(w) + 1 /\ Len(w) \in Nat
        BY <3>2 DEF m
      <4> QED BY <4>1, <4>2
    <3>4. Extend(t, s, w) \in {w, Append(w, m)}
      BY DEF Extend
    <3> QED BY <3>3, <3>4
  <2> QED BY <2>1, <2>2
<1>4. F \in [T -> T]
  <2> HIDE DEF T
  <2> QED BY <1>3
<1>5. PICK g \in [1..n -> T] : \A k \in 1..n : g[k] = IF k = 1 THEN a ELSE F[g[k - 1]]
  <2>1. n \in Nat
    BY <1>1
  <2> HIDE DEF T, F, a, n
  <2>2. ASSUME NEW G \in [T -> T]
        PROVE  \E g \in [1..n -> T] : \A k \in 1..n : g[k] = IF k = 1 THEN a ELSE G[g[k - 1]]
    BY ONLY <1>2, <2>1, IterateExists, SMT
  <2> QED BY <1>4, <2>2
<1>6. Is(g)
  <2>1. \A k \in 1..n : k # 1 => F[g[k - 1]] = Extend(t, s, g[k - 1])
    <3> HIDE DEF T
    <3>1. \A k \in 1..n : k # 1 => k - 1 \in 1..n
      BY <1>1
    <3> QED BY <1>5, <3>1
  <2> HIDE DEF T, F, a, n
  <2> QED BY <1>5, <2>1
<1>7. Is(Turns(t, s))
  <2>1. Turns(t, s) = CHOOSE h : Is(h)
    BY DEF Turns
  <2> HIDE DEF Is
  <2> QED BY <1>6, <2>1
<1> DEFINE h == Turns(t, s)
<1>8. \A k \in 1..n : h[k] = IF k = 1 THEN a ELSE Extend(t, s, h[k - 1])
  <2> HIDE DEF a, n
  <2> QED BY <1>7
<1>9. \A k \in 1..n : h[k] \in T
  <2> DEFINE U == {k \in 1..n : h[k] \in T}
  <2>1. 1 \in U
    <3> HIDE DEF T, a, h
    <3> QED BY <1>1, <1>2, <1>8, StackPullsFinite
  <2>2. ASSUME NEW k \in 1..n, k \in U, k < n PROVE k + 1 \in U
    <3>1. k + 1 \in 1..n /\ k + 1 # 1 /\ (k + 1) - 1 = k
      BY <1>1, <2>2
    <3>2. h[k + 1] = Extend(t, s, h[k])
      <4> HIDE DEF h, a, n
      <4> QED BY <1>8, <3>1
    <3> HIDE DEF T, h, n
    <3> QED BY <1>3, <2>2, <3>1, <3>2
  <2>3. 1..n \subseteq U
    <3> HIDE DEF U, n
    <3> QED BY <1>1, <2>1, <2>2, IntervalInduction
  <2> QED BY <2>3
<1>10. h \in [1..n -> T]
  <2> HIDE DEF T, a, n
  <2> QED BY <1>7, <1>9
<1> HIDE DEF T, n, a
<1> QED
  BY <1>1, <1>8, <1>10 DEF T, n, a

(* The loop stops at pull i; w goes from pull to parent.                   *)
Stops(t, s, i) == t[i].parent = Null \/ ByChange(t, s, t[i].parent) = {}

Linked(t, s, w) ==
  \A a \in 1..Len(w) - 1 :
    ~ Stops(t, s, w[a]) /\ w[a + 1] = Min(ByChange(t, s, t[w[a]].parent))

(* It only goes down in rank. *)
Descends(t, rank, w) ==
  \A a, b \in 1..Len(w) : a < b => rank[t[w[b]].change] < rank[t[w[a]].change]

(* A turn of GetStack's loop stays, or goes on to the pull it finds for the *)
(* parent.                                                                 *)
LEMMA ExtendCases ==
  ASSUME NEW t, NEW s, NEW w \in Seq(StackPulls(t, s)), w # << >>,
         StackPulls(t, s) \in SUBSET Nat
  PROVE  LET i == w[Len(w)]
             j == Min(ByChange(t, s, t[i].parent))
         IN  IF Stops(t, s, i) THEN Extend(t, s, w) = w
             ELSE /\ j \in StackPulls(t, s) /\ t[j].change = t[i].parent
                  /\ Extend(t, s, w) = Append(w, j)
<1> DEFINE i == w[Len(w)]
           B == ByChange(t, s, t[i].parent)
<1>1. CASE Stops(t, s, i)
  BY <1>1 DEF Stops, Extend
<1>2. CASE ~ Stops(t, s, i)
  <2>1. B \in SUBSET Nat /\ B # {}
    BY <1>2 DEF Stops, ByChange
  <2>2. Min(B) \in B
    <3> HIDE DEF B
    <3> QED BY <2>1, MinOf
  <2> QED BY <1>2, <2>2 DEF Stops, Extend, ByChange
<1> QED
  BY <1>1, <1>2

(* A turn that goes on keeps the walk linked and descending.               *)
LEMMA ExtendLinked ==
  ASSUME NEW t, NEW s, NEW S \in SUBSET Nat, NEW w \in Seq(S), w # << >>, NEW j \in S,
         NEW rank, \A i \in S : rank[t[i].change] \in Nat,
         ~ Stops(t, s, w[Len(w)]), j = Min(ByChange(t, s, t[w[Len(w)]].parent)),
         rank[t[j].change] < rank[t[w[Len(w)]].change],
         Linked(t, s, w), Descends(t, rank, w)
  PROVE  Linked(t, s, Append(w, j)) /\ Descends(t, rank, Append(w, j))
<1> DEFINE v == Append(w, j)
<1>1. /\ Len(w) \in Nat /\ Len(w) >= 1 /\ Len(v) = Len(w) + 1
      /\ \A a \in 1..Len(w) : v[a] = w[a] /\ w[a] \in S
      /\ v[Len(w) + 1] = j
  OBVIOUS
<1> HIDE DEF v
<1>2. Linked(t, s, v)
  <2> SUFFICES ASSUME NEW a \in 1..Len(v) - 1
               PROVE  ~ Stops(t, s, v[a]) /\ v[a + 1] = Min(ByChange(t, s, t[v[a]].parent))
    BY DEF Linked
  <2>1. CASE a = Len(w)
    BY <1>1, <2>1
  <2>2. CASE a # Len(w)
    <3>1. a \in 1..Len(w) - 1 /\ a \in 1..Len(w) /\ a + 1 \in 1..Len(w)
      BY <1>1, <2>2
    <3> QED BY <1>1, <3>1 DEF Linked
  <2> QED BY <2>1, <2>2
<1>3. Descends(t, rank, v)
  <2> SUFFICES ASSUME NEW a \in 1..Len(v), NEW b \in 1..Len(v), a < b
               PROVE  rank[t[v[b]].change] < rank[t[v[a]].change]
    BY DEF Descends
  <2>1. a \in 1..Len(w) /\ v[a] = w[a]
    BY <1>1
  <2>2. CASE b \in 1..Len(w)
    BY <1>1, <2>1, <2>2 DEF Descends
  <2>3. CASE b = Len(w) + 1
    <3>1. v[b] = j /\ Len(w) \in 1..Len(w)
      BY <1>1, <2>3
    <3>2. a = Len(w) \/ rank[t[w[Len(w)]].change] < rank[t[w[a]].change]
      BY <1>1, <2>1, <3>1 DEF Descends
    <3>3. /\ rank[t[j].change] \in Nat /\ rank[t[w[a]].change] \in Nat
          /\ rank[t[w[Len(w)]].change] \in Nat
      BY <1>1, <2>1, <3>1
    <3> QED BY <2>1, <3>1, <3>2, <3>3
  <2> QED BY <1>1, <2>2, <2>3
<1> QED
  BY <1>2, <1>3 DEF v

(* GetStack: the walk starts at the last top, goes from pull to parent,    *)
(* never meets a pull again, and goes on until there is no parent.         *)
LEMMA WalkFacts ==
  ASSUME NEW t, GoodTable(t), NEW s \in StackId, HasTop(t, s)
  PROVE  LET w == Walk(t, s)
         IN  /\ w \in Seq(StackPulls(t, s)) /\ w # << >>
             /\ Len(w) <= Cardinality(StackPulls(t, s))
             /\ \A a, b \in 1..Len(w) : w[a] = w[b] => a = b
             /\ w[1] = Max(Tops(t, s))
             /\ Linked(t, s, w)
             /\ Stops(t, s, w[Len(w)])
<1> DEFINE S == StackPulls(t, s)
           n == Cardinality(S)
           T == {w \in Seq(S) : w # << >>}
           h == Turns(t, s)
           top == Max(Tops(t, s))
<1>1. Len(t) \in Nat
  BY DEF GoodTable, GoodRows
<1>2. S \in SUBSET Nat /\ IsFiniteSet(S) /\ n \in Nat
  BY <1>1, StackPullsFinite
<1>3. /\ h \in [1..(n + 1) -> T]
      /\ \A k \in 1..(n + 1) : h[k] = IF k = 1 THEN <<top>> ELSE Extend(t, s, h[k - 1])
  BY <1>1, TurnsType
<1>4. PICK rank \in [Change -> Nat] :
        \A i \in 1..Len(t) :
          t[i].stack = s /\ t[i].parent # Null => rank[t[i].parent] < rank[t[i].change]
  BY DEF GoodTable, Ordered
<1>5. \A i \in S : i \in 1..Len(t) /\ t[i].stack = s /\ t[i].change \in Change
                   /\ rank[t[i].change] \in Nat
  BY DEF StackPulls, GoodTable, GoodRows, GoodRow
<1> DEFINE Good(k) ==
             /\ h[k] \in T /\ h[k][1] = top
             /\ Linked(t, s, h[k]) /\ Descends(t, rank, h[k])
             /\ Len(h[k]) = k \/ Stops(t, s, h[k][Len(h[k])])
           U == {k \in 1..(n + 1) : Good(k)}
<1> HIDE DEF S, n, T, h, top
<1>6. 1 \in U
  <2>1. 1 \in 1..(n + 1) /\ h[1] = <<top>> /\ h[1] \in T
    BY <1>2, <1>3
  <2>2. Len(h[1]) = 1 /\ h[1][1] = top
    BY <2>1
  <2>3. Linked(t, s, h[1]) /\ Descends(t, rank, h[1])
    BY <2>2 DEF Linked, Descends
  <2> QED BY <2>1, <2>2, <2>3
<1>7. ASSUME NEW k \in 1..(n + 1), k \in U, k < n + 1 PROVE k + 1 \in U
  <2> DEFINE w == h[k]
             i == w[Len(w)]
             j == Min(ByChange(t, s, t[i].parent))
  <2>1. k + 1 \in 1..(n + 1) /\ h[k + 1] = Extend(t, s, w) /\ h[k + 1] \in T
    <3>1. k + 1 \in 1..(n + 1) /\ k + 1 # 1 /\ (k + 1) - 1 = k
      BY <1>2, <1>7
    <3> QED BY <1>3, <3>1
  <2>2. w \in Seq(S) /\ w # << >> /\ Len(w) \in Nat /\ Len(w) >= 1 /\ i \in S
    BY <1>7 DEF T
  <2>3. IF Stops(t, s, i) THEN Extend(t, s, w) = w
        ELSE j \in S /\ t[j].change = t[i].parent /\ Extend(t, s, w) = Append(w, j)
    BY <1>2, <2>2, ExtendCases DEF S
  <2> HIDE DEF w
  <2>4. CASE Stops(t, s, i)
    BY <1>7, <2>1, <2>3, <2>4 DEF w
  <2>5. CASE ~ Stops(t, s, i)
    <3>1. rank[t[j].change] < rank[t[i].change]
      BY <1>4, <1>5, <2>2, <2>3, <2>5 DEF Stops
    <3>2. Linked(t, s, w) /\ Descends(t, rank, w)
      BY <1>7 DEF w
    <3>3. Linked(t, s, Append(w, j)) /\ Descends(t, rank, Append(w, j))
      <4>1. j \in S
        BY <2>3, <2>5
      <4>2. \A x \in S : rank[t[x].change] \in Nat
        BY <1>5
      <4> QED BY <1>2, <2>2, <2>5, <3>1, <3>2, <4>1, <4>2, ExtendLinked
    <3>4. Len(Append(w, j)) = Len(w) + 1 /\ Append(w, j)[1] = w[1]
      BY <2>2, <2>3, <2>5
    <3>5. Len(w) = k /\ w[1] = top
      BY <1>7, <2>5 DEF w
    <3> QED BY <2>1, <2>3, <2>5, <3>3, <3>4, <3>5
  <2> QED BY <2>4, <2>5
<1>8. n + 1 \in U
  <2>1. n + 1 \in Nat /\ n + 1 \in 1..(n + 1)
    BY <1>2
  <2>2. 1..(n + 1) \subseteq U
    <3> HIDE DEF U
    <3> QED BY <1>6, <1>7, <2>1, IntervalInduction
  <2> QED BY <2>1, <2>2
<1> DEFINE w == h[n + 1]
<1>9. Walk(t, s) = w
  BY WalkIsTurns DEF h, n, S
<1>10. /\ w \in Seq(S) /\ w # << >> /\ Len(w) \in Nat /\ \A a \in 1..Len(w) : w[a] \in S
       /\ w[1] = top /\ Linked(t, s, w) /\ Descends(t, rank, w)
       /\ Len(w) = n + 1 \/ Stops(t, s, w[Len(w)])
  BY <1>8 DEF T
<1> HIDE DEF w
<1>11. ASSUME NEW a \in 1..Len(w), NEW b \in 1..Len(w), w[a] = w[b] PROVE a = b
  <2>1. ~ (rank[t[w[a]].change] < rank[t[w[b]].change])
    BY <1>5, <1>10, <1>11
  <2> QED BY <1>10, <1>11, <2>1 DEF Descends
<1>12. Len(w) <= n
  <2>1. w \in Injection(1..Len(w), S)
    BY <1>10, <1>11 DEF Injection, IsInjective
  <2>2. Cardinality(1..Len(w)) = Len(w)
    BY <1>10, FS_Interval
  <2> QED BY <1>2, <2>1, <2>2, FS_Injection DEF n
<1>13. Stops(t, s, w[Len(w)])
  BY <1>2, <1>10, <1>12
<1> QED
  BY <1>9, <1>10, <1>11, <1>12, <1>13 DEF S, n, top

----------------------------------------------------------------------------
(***************************************************************************)
(* What the operations do to a table.                                      *)
(***************************************************************************)

(* u is what a table t may become: rows stay in their stack, and only gain *)
(* rounds.                                                                 *)
Later(t, u) ==
  /\ Len(t) <= Len(u)
  /\ \A i \in 1..Len(t) :
       /\ u[i].stack = t[i].stack /\ u[i].change = t[i].change
       /\ Len(t[i].rounds) <= Len(u[i].rounds)

(* The rounds of a row are a sequence. *)
LEMMA RoundsCounted ==
  ASSUME NEW t, GoodRows(t), NEW i \in 1..Len(t)
  PROVE  Len(t[i].rounds) \in Nat
  BY DEF GoodRows, GoodRow, Pull

(* Tables that come later follow each other. *)
LEMMA LaterTrans ==
  ASSUME NEW t, GoodRows(t), NEW u, GoodRows(u), NEW v, GoodRows(v), Later(t, u), Later(u, v)
  PROVE  Later(t, v)
<1>1. Len(t) \in Nat /\ Len(u) \in Nat /\ Len(v) \in Nat
  BY DEF GoodRows
<1>2. Len(t) <= Len(v)
  BY <1>1 DEF Later
<1>3. ASSUME NEW i \in 1..Len(t)
      PROVE  /\ v[i].stack = t[i].stack /\ v[i].change = t[i].change
             /\ Len(t[i].rounds) <= Len(v[i].rounds)
  <2>1. i \in 1..Len(u) /\ i \in 1..Len(v)
    BY <1>1 DEF Later
  <2>2. Len(t[i].rounds) \in Nat /\ Len(u[i].rounds) \in Nat /\ Len(v[i].rounds) \in Nat
    BY <2>1, RoundsCounted
  <2>3. Len(t[i].rounds) <= Len(u[i].rounds) /\ Len(u[i].rounds) <= Len(v[i].rounds)
    BY <2>1 DEF Later
  <2> QED BY <2>1, <2>2, <2>3 DEF Later
<1> QED
  BY <1>2, <1>3 DEF Later

(* A table may stay as it is. *)
LEMMA LaterSame ==
  ASSUME NEW t, GoodRows(t)
  PROVE  Later(t, t)
<1>1. Len(t) \in Nat /\ \A i \in 1..Len(t) : Len(t[i].rounds) \in Nat
  BY DEF GoodRows, GoodRow, Pull
<1> QED
  BY <1>1 DEF Later

(* Rewriting rows in place. *)
LEMMA MapGood ==
  ASSUME NEW t, GoodRows(t), NEW u, DOMAIN u = 1..Len(t), u = [i \in 1..Len(t) |-> u[i]],
         \A i \in 1..Len(t) :
           /\ GoodRow(u[i])
           /\ u[i].stack = t[i].stack /\ u[i].change = t[i].change
           /\ Len(t[i].rounds) <= Len(u[i].rounds)
  PROVE  GoodRows(u) /\ Later(t, u) /\ Len(u) = Len(t)
<1>1. Len(t) \in Nat
  BY DEF GoodRows
<1>2. u \in [1..Len(t) -> Pull]
  BY DEF GoodRow
<1>3. u \in Seq(Pull) /\ Len(u) = Len(t)
  BY <1>1, <1>2
<1> QED
  BY <1>1, <1>3 DEF GoodRows, Later

(* Nothing that the order depends on changes. *)
LEMMA MapOrdered ==
  ASSUME NEW t, NEW u, Len(u) = Len(t), NEW s, Ordered(t, s),
         \A i \in 1..Len(t) :
           u[i].stack = t[i].stack /\ u[i].change = t[i].change /\ u[i].parent = t[i].parent
  PROVE  Ordered(u, s)
<1>1. PICK rank \in [Change -> Nat] :
        \A i \in 1..Len(t) :
          t[i].stack = s /\ t[i].parent # Null => rank[t[i].parent] < rank[t[i].change]
  BY DEF Ordered
<1>2. \A i \in 1..Len(u) :
        u[i].stack = s /\ u[i].parent # Null => rank[u[i].parent] < rank[u[i].change]
  BY <1>1
<1> QED
  BY <1>2 DEF Ordered

(* SetPullState writes the state of the rows it is told to and nothing else. *)
LEMMA SetPullStateGood ==
  ASSUME NEW t, GoodRows(t), NEW ids, NEW state \in PullState
  PROVE  LET u == SetPullState(t, ids, state)
         IN  /\ GoodRows(u) /\ Later(t, u) /\ Len(u) = Len(t)
             /\ \A i \in 1..Len(t) :
                  /\ u[i].stack = t[i].stack /\ u[i].change = t[i].change
                  /\ u[i].parent = t[i].parent /\ u[i].rounds = t[i].rounds
                  /\ u[i].state = IF i \in ids /\ MayChange(t[i]) THEN state ELSE t[i].state
<1> DEFINE u == SetPullState(t, ids, state)
<1>1. /\ DOMAIN u = 1..Len(t) /\ u = [i \in 1..Len(t) |-> u[i]]
      /\ \A i \in 1..Len(t) :
           u[i] = IF i \in ids /\ MayChange(t[i]) THEN [t[i] EXCEPT !.state = state] ELSE t[i]
  BY DEF SetPullState
<1> HIDE DEF u
<1>2. ASSUME NEW i \in 1..Len(t)
      PROVE  /\ GoodRow(u[i])
             /\ u[i].stack = t[i].stack /\ u[i].change = t[i].change
             /\ u[i].parent = t[i].parent /\ u[i].rounds = t[i].rounds
             /\ u[i].state = IF i \in ids /\ MayChange(t[i]) THEN state ELSE t[i].state
  <2>1. t[i] \in Pull /\ GoodRow(t[i])
    BY DEF GoodRows, GoodRow
  <2> DEFINE v == [t[i] EXCEPT !.state = state]
  <2>2. /\ v \in Pull /\ v.stack = t[i].stack /\ v.change = t[i].change
        /\ v.parent = t[i].parent /\ v.rounds = t[i].rounds /\ v.state = state
    BY <2>1 DEF Pull
  <2> HIDE DEF v
  <2>3. GoodRow(v)
    BY <2>1, <2>2 DEF GoodRow
  <2>4. u[i] = IF i \in ids /\ MayChange(t[i]) THEN v ELSE t[i]
    BY <1>1 DEF v
  <2> QED BY <2>1, <2>2, <2>3, <2>4
<1>3. \A i \in 1..Len(t) : Len(t[i].rounds) <= Len(u[i].rounds)
  <2>1. \A i \in 1..Len(t) : Len(t[i].rounds) \in Nat
    BY DEF GoodRows, GoodRow, Pull
  <2> QED BY <1>2, <2>1
<1>4. GoodRows(u) /\ Later(t, u) /\ Len(u) = Len(t)
  BY <1>1, <1>2, <1>3, MapGood
<1> QED
  BY <1>2, <1>4 DEF u

(* A round with the next number leaves no gap. *)
LEMMA AddRoundGood ==
  ASSUME NEW p, GoodRow(p)
  PROVE  LET u == AddRound(p, Len(p.rounds))
         IN  /\ GoodRow(u) /\ u.stack = p.stack /\ u.change = p.change
             /\ u.parent = p.parent /\ u.state = p.state
             /\ u.rounds = Append(p.rounds, Len(p.rounds))
             /\ Len(p.rounds) <= Len(u.rounds)
<1> DEFINE r == Len(p.rounds)
           u == AddRound(p, r)
<1>1. p \in Pull /\ p.rounds \in Seq(Nat) /\ r \in Nat
  BY DEF GoodRow, Pull
<1>2. u = [p EXCEPT !.rounds = Append(p.rounds, r)]
  BY DEF AddRound
<1>3. /\ Append(p.rounds, r) \in Seq(Nat) /\ Len(Append(p.rounds, r)) = r + 1
      /\ \A k \in 1..(r + 1) : Append(p.rounds, r)[k] = IF k = r + 1 THEN r ELSE p.rounds[k]
  BY <1>1
<1> HIDE DEF u
<1>4. /\ u \in Pull /\ u.rounds = Append(p.rounds, r) /\ u.stack = p.stack
      /\ u.change = p.change /\ u.parent = p.parent /\ u.state = p.state
  BY <1>1, <1>2, <1>3 DEF Pull
<1>5. GoodRow(u)
  BY <1>1, <1>3, <1>4 DEF GoodRow
<1> QED
  BY <1>1, <1>3, <1>4, <1>5 DEF u

(* unique(pull_at, round_number): the round of a handler that read an      *)
(* earlier table is free only when it is the next one.                     *)
LEMMA FreeIsNext ==
  ASSUME NEW p, GoodRow(p), NEW r \in Nat, r <= Len(p.rounds), r \notin Elems(p.rounds)
  PROVE  r = Len(p.rounds)
<1>1. p.rounds \in Seq(Nat) /\ Len(p.rounds) \in Nat
  BY DEF GoodRow, Pull
<1>2. CASE r < Len(p.rounds)
  <2>1. r + 1 \in 1..Len(p.rounds) /\ p.rounds[r + 1] = r
    BY <1>1, <1>2 DEF GoodRow
  <2> QED BY <2>1 DEF Elems
<1> QED
  BY <1>1, <1>2

(* The patches of a submission have distinct change ids. *)
LEMMA PatchesFacts ==
  ASSUME NEW cs \in Patches
  PROVE  /\ cs \in Seq(Change) /\ Len(cs) \in Nat /\ Len(cs) >= 1
         /\ DOMAIN cs = 1..Len(cs) /\ \A k \in 1..Len(cs) : cs[k] \in Change
         /\ \A i, j \in 1..Len(cs) : cs[i] = cs[j] => i = j
         /\ Elems(cs) \subseteq Change
<1>1. PICK n \in 1..Cardinality(Change) : cs \in [1..n -> Change]
  BY DEF Patches
<1>2. n \in Nat /\ n >= 1 /\ Len(cs) = n /\ DOMAIN cs = 1..n
  BY <1>1
<1> QED
  BY <1>1, <1>2 DEF Patches, Elems

(* The place of a change id among the new patches. *)
PlaceIn(cs, c) == CHOOSE k \in 1..Len(cs) : cs[k] = c

(* A change id of the patches has one place. *)
LEMMA PlaceInFacts ==
  ASSUME NEW cs \in Patches
  PROVE  /\ \A c \in Elems(cs) : PlaceIn(cs, c) \in 1..Len(cs) /\ cs[PlaceIn(cs, c)] = c
         /\ \A k \in 1..Len(cs) : PlaceIn(cs, cs[k]) = k
  BY PatchesFacts DEF PlaceIn, Elems

(* newStack: the parent of a patch is a patch, or there is none. *)
LEMMA ParentInType ==
  ASSUME NEW cs \in Patches, NEW k \in 1..Len(cs)
  PROVE  ParentIn(cs, k) \in Elems(cs) \cup {Null}
<1>1. k # 1 => k - 1 \in 1..Len(cs)
  BY PatchesFacts
<1> QED
  BY <1>1 DEF ParentIn, Elems

(* The parents of patches are ranked by their places. *)
LEMMA ParentInRank ==
  ASSUME NEW cs \in Patches, NEW k \in 1..Len(cs), ParentIn(cs, k) # Null
  PROVE  PlaceIn(cs, ParentIn(cs, k)) < PlaceIn(cs, cs[k])
<1>1. k # 1 /\ k - 1 \in 1..Len(cs) /\ ParentIn(cs, k) = cs[k - 1]
  BY PatchesFacts DEF ParentIn
<1>2. PlaceIn(cs, cs[k - 1]) = k - 1 /\ PlaceIn(cs, cs[k]) = k
  BY <1>1, PlaceInFacts
<1> QED
  BY <1>1, <1>2

(* SetPullParentChangeId writes the parents of the rows with a patch, in    *)
(* whatever stack, and nothing else.                                       *)
LEMMA SetParentGood ==
  ASSUME NEW t, GoodRows(t), NEW cs \in Patches
  PROVE  LET u == SetPullParentChangeId(t, cs)
         IN  /\ GoodRows(u) /\ Later(t, u) /\ Len(u) = Len(t)
             /\ \A i \in 1..Len(t) :
                  /\ u[i].stack = t[i].stack /\ u[i].change = t[i].change
                  /\ u[i].state = t[i].state /\ u[i].rounds = t[i].rounds
                  /\ u[i].parent = IF t[i].change \in Elems(cs)
                                   THEN ParentIn(cs, PlaceIn(cs, t[i].change)) ELSE t[i].parent
<1> DEFINE u == SetPullParentChangeId(t, cs)
           p(i) == ParentIn(cs, PlaceIn(cs, t[i].change))
<1>1. /\ DOMAIN u = 1..Len(t) /\ u = [i \in 1..Len(t) |-> u[i]]
      /\ \A i \in 1..Len(t) :
           u[i] = IF t[i].change \in Elems(cs) THEN [t[i] EXCEPT !.parent = p(i)] ELSE t[i]
  BY DEF SetPullParentChangeId, PlaceIn
<1> HIDE DEF u
<1>2. ASSUME NEW i \in 1..Len(t)
      PROVE  /\ GoodRow(u[i])
             /\ u[i].stack = t[i].stack /\ u[i].change = t[i].change
             /\ u[i].state = t[i].state /\ u[i].rounds = t[i].rounds
             /\ u[i].parent = IF t[i].change \in Elems(cs) THEN p(i) ELSE t[i].parent
  <2>1. t[i] \in Pull /\ GoodRow(t[i])
    BY DEF GoodRows, GoodRow
  <2> DEFINE v == [t[i] EXCEPT !.parent = p(i)]
  <2>2. CASE t[i].change \in Elems(cs)
    <3>1. p(i) \in Change \cup {Null}
      BY <2>2, PlaceInFacts, ParentInType, PatchesFacts
    <3> HIDE DEF p
    <3>2. /\ v \in Pull /\ v.stack = t[i].stack /\ v.change = t[i].change
          /\ v.state = t[i].state /\ v.rounds = t[i].rounds /\ v.parent = p(i)
      BY <2>1, <3>1 DEF Pull
    <3>3. u[i] = v
      BY <1>1, <2>2
    <3> HIDE DEF v
    <3>4. GoodRow(v)
      BY <2>1, <3>2 DEF GoodRow
    <3> QED BY <2>2, <3>2, <3>3, <3>4
  <2>3. CASE t[i].change \notin Elems(cs)
    BY <1>1, <2>1, <2>3
  <2> QED BY <2>2, <2>3
<1>3. \A i \in 1..Len(t) : Len(t[i].rounds) <= Len(u[i].rounds)
  <2>1. \A i \in 1..Len(t) : Len(t[i].rounds) \in Nat
    BY DEF GoodRows, GoodRow, Pull
  <2> QED BY <1>2, <2>1
<1>4. GoodRows(u) /\ Later(t, u) /\ Len(u) = Len(t)
  BY <1>1, <1>2, <1>3, MapGood
<1> HIDE DEF p
<1> QED
  BY <1>2, <1>4 DEF u, p

(* Whatever the parents were of rows with a new patch: afterwards the      *)
(* others still lead down, and to the patches, which lead down to Null.    *)
LEMMA SetParentOrdered ==
  ASSUME NEW t, GoodRows(t), NEW cs \in Patches, NEW s \in StackId,
         NEW rank \in [Change -> Nat],
         \A i \in 1..Len(t) :
           t[i].stack = s /\ t[i].change \notin Elems(cs) /\ t[i].parent # Null
             => rank[t[i].parent] < rank[t[i].change]
  PROVE  Ordered(SetPullParentChangeId(t, cs), s)
<1> DEFINE u == SetPullParentChangeId(t, cs)
           high(c) == rank[c] + Len(cs) + 1
           new == [c \in Change |-> IF c \in Elems(cs) THEN PlaceIn(cs, c) ELSE high(c)]
<1>1. /\ Len(u) = Len(t)
      /\ \A i \in 1..Len(t) :
           /\ u[i].stack = t[i].stack /\ u[i].change = t[i].change
           /\ u[i].parent = IF t[i].change \in Elems(cs)
                            THEN ParentIn(cs, PlaceIn(cs, t[i].change)) ELSE t[i].parent
  BY SetParentGood
<1> HIDE DEF u
<1>2. \A c \in Change : rank[c] \in Nat /\ high(c) \in Nat
  BY PatchesFacts
<1>3. \A c \in Elems(cs) : PlaceIn(cs, c) \in Nat /\ PlaceIn(cs, c) <= Len(cs)
  BY PlaceInFacts, PatchesFacts
<1>4. new \in [Change -> Nat]
  <2> HIDE DEF high
  <2> QED BY <1>2, <1>3
<1>5. \A c \in Change : new[c] = IF c \in Elems(cs) THEN PlaceIn(cs, c) ELSE high(c)
  OBVIOUS
<1> HIDE DEF new
<1>6. ASSUME NEW i \in 1..Len(u), u[i].stack = s, u[i].parent # Null
      PROVE  new[u[i].parent] < new[u[i].change]
  <2> DEFINE c == t[i].change
             k == PlaceIn(cs, c)
  <2>1. i \in 1..Len(t) /\ t[i].stack = s /\ c \in Change /\ t[i].parent \in Change \cup {Null}
    BY <1>1, <1>6 DEF GoodRows, GoodRow, Pull
  <2>2. CASE c \in Elems(cs)
    <3>1. k \in 1..Len(cs) /\ cs[k] = c /\ u[i].parent = ParentIn(cs, k) /\ u[i].change = c
      BY <1>1, <2>1, <2>2, PlaceInFacts
    <3>2. ParentIn(cs, k) \in Elems(cs) /\ ParentIn(cs, k) \in Change
      BY <1>6, <3>1, ParentInType, PatchesFacts
    <3>3. PlaceIn(cs, ParentIn(cs, k)) < PlaceIn(cs, c)
      BY <1>6, <3>1, ParentInRank
    <3> QED BY <1>5, <2>1, <2>2, <3>1, <3>2, <3>3
  <2>3. CASE c \notin Elems(cs)
    <3> DEFINE p == t[i].parent
    <3>1. u[i].parent = p /\ u[i].change = c /\ p # Null /\ p \in Change
      BY <1>1, <1>6, <2>1, <2>3
    <3>2. new[c] = high(c) /\ rank[p] < rank[c] /\ rank[p] \in Nat /\ rank[c] \in Nat
      BY <1>2, <1>5, <2>1, <2>3, <3>1
    <3>3. Len(cs) \in Nat
      BY PatchesFacts
    <3>4. CASE p \in Elems(cs)
      <4>1. new[p] <= Len(cs) /\ new[p] \in Nat
        BY <1>3, <1>5, <3>1, <3>4
      <4> HIDE DEF p, c
      <4> QED BY <3>1, <3>2, <3>3, <4>1
    <3>5. CASE p \notin Elems(cs)
      <4>1. new[p] = high(p)
        BY <1>5, <3>1, <3>5
      <4> HIDE DEF p, c
      <4> QED BY <3>1, <3>2, <3>3, <4>1
    <3> QED BY <3>4, <3>5
  <2> QED BY <2>2, <2>3
<1> QED
  BY <1>4, <1>6 DEF Ordered, u

(* A new row has one submission, round 0. *)
LEMMA RowGood ==
  ASSUME NEW s \in StackId \cup {Null}, NEW c \in Change \cup {Null},
         NEW p \in Change \cup {Null}, s \in StackId => c \in Change
  PROVE  GoodRow(Row(s, c, p))
<1>1. <<0>> \in Seq(Nat) /\ Len(<<0>>) = 1 /\ <<0>>[1] = 0
  OBVIOUS
<1> QED
  BY <1>1 DEF Row, GoodRow, Pull, PullState

(* Appending rows to a table. *)
LEMMA AppendGood ==
  ASSUME NEW t, GoodRows(t), NEW n \in Nat, NEW new, DOMAIN new = 1..n,
         new = [k \in 1..n |-> new[k]], \A k \in 1..n : GoodRow(new[k])
  PROVE  LET u == t \o new
         IN  /\ GoodRows(u) /\ Later(t, u)
             /\ Len(u) = Len(t) + n
             /\ \A i \in 1..Len(t) : u[i] = t[i]
             /\ \A i \in 1..Len(u) : i > Len(t) => i - Len(t) \in 1..n /\ u[i] = new[i - Len(t)]
             /\ \A k \in 1..n : u[Len(t) + k] = new[k]
<1> DEFINE u == t \o new
<1>0. n \in Nat
  OBVIOUS
<1>1. new \in Seq(Pull) /\ Len(new) = n
  <2>1. new \in [1..n -> Pull]
    BY DEF GoodRow
  <2> QED BY <2>1
<1>2. t \in Seq(Pull) /\ Len(t) \in Nat
  BY DEF GoodRows
<1>3. /\ u \in Seq(Pull) /\ Len(u) = Len(t) + n
      /\ \A i \in 1..Len(u) : u[i] = IF i <= Len(t) THEN t[i] ELSE new[i - Len(t)]
  BY <1>1, <1>2
<1> HIDE DEF u
<1>4. \A i \in 1..Len(t) : i \in 1..Len(u) /\ u[i] = t[i]
  BY ONLY <1>0, <1>2, <1>3
<1>5. \A i \in 1..Len(u) : i > Len(t) => i - Len(t) \in 1..n /\ u[i] = new[i - Len(t)]
  BY ONLY <1>0, <1>2, <1>3
<1>6. \A k \in 1..n : u[Len(t) + k] = new[k]
  <2>1. ASSUME NEW k \in 1..n
        PROVE  Len(t) + k \in 1..Len(u) /\ ~ (Len(t) + k <= Len(t)) /\ (Len(t) + k) - Len(t) = k
    BY ONLY <1>0, <1>2, <1>3, k \in 1..n
  <2> QED BY ONLY <1>3, <2>1
<1>7. GoodRows(u)
  <2>1. ASSUME NEW i \in 1..Len(u) PROVE GoodRow(u[i])
    <3>1. CASE i > Len(t)
      BY <1>5, <3>1
    <3>2. CASE ~ (i > Len(t))
      <4>1. i \in 1..Len(t)
        BY ONLY <1>0, <1>2, <1>3, <3>2, i \in 1..Len(u)
      <4> QED BY <1>4, <4>1 DEF GoodRows
    <3> QED BY <3>1, <3>2
  <2> QED BY <1>3, <2>1 DEF GoodRows
<1>8. Later(t, u)
  BY <1>2, <1>3, <1>4, RoundsCounted DEF Later
<1> QED
  BY <1>3, <1>4, <1>5, <1>6, <1>7, <1>8 DEF u

(***************************************************************************)
(* The inductive invariant.                                                *)
(***************************************************************************)

(* A request in progress works on an earlier table, on a pull of it whose  *)
(* stack has a top.                                                        *)
Snapshot(r, t) ==
  /\ GoodTable(r.snap) /\ Later(r.snap, t)
  /\ r.pull \in 0..Len(r.snap)
  /\ r.at # "idle" =>
       /\ r.pull \in 1..Len(r.snap)
       /\ Stacked(r.snap, r.pull) => HasTop(r.snap, r.snap[r.pull].stack)

Snapshots ==
  /\ DOMAIN req = Req
  /\ \A q \in Req :
       /\ {"at", "pull", "snap"} \subseteq DOMAIN req[q]
       /\ req[q].at \in {"idle", "handler", "push", "commit"}
       /\ Snapshot(req[q], pulls)

Counted ==
  /\ Len(pulls) <= MaxPulls
  /\ applied \subseteq 1..MaxPulls
  /\ tip \in Nat /\ requests \in 0..MaxRequests

TableInv == GoodTable(pulls) /\ Snapshots /\ Counted

(* The invariant gives the types and the rounds without gaps, *)
LEMMA TableInvImplies == TableInv => TypeOK /\ RoundsContiguous
<1> SUFFICES ASSUME TableInv PROVE TypeOK /\ RoundsContiguous
  OBVIOUS
<1>1. pulls \in Seq(Pull) /\ RoundsContiguous
  BY DEF TableInv, GoodTable, GoodRows, GoodRow, RoundsContiguous
<1>2. \A q \in Req :
       /\ req[q].at \in {"idle", "handler", "push", "commit"}
       /\ req[q].snap \in Seq(Pull)
       /\ req[q].pull \in 0..Len(req[q].snap)
  BY DEF TableInv, Snapshots, Snapshot, GoodTable, GoodRows
<1> QED
  BY <1>1, <1>2 DEF TypeOK, TableInv, Counted

(* and stacks that can be walked down to an end. *)
LEMMA TableInvWalk == TableInv => WalkTerminates
<1> SUFFICES ASSUME TableInv, NEW s \in StackId, StackPulls(pulls, s) # {}
             PROVE  HasTop(pulls, s) /\ Terminates(pulls, s)
  BY DEF WalkTerminates
<1>1. HasTop(pulls, s)
  BY OrderedHasTop DEF TableInv
<1>2. Terminates(pulls, s)
  BY <1>1, WalkFacts DEF TableInv, Terminates
<1> QED
  BY <1>1, <1>2

(* A table is a sequence of rows. *)
LEMMA GoodTableIsRows ==
  ASSUME NEW t, GoodTable(t)
  PROVE  GoodRows(t) /\ t \in Seq(Pull) /\ Len(t) \in Nat
  BY DEF GoodTable, GoodRows

(* What a request merges is in the table. *)
LEMMA ToMergeType ==
  ASSUME TableInv, NEW q \in Req, req[q].at # "idle"
  PROVE  ToMerge(q) \subseteq 1..MaxPulls
<1> DEFINE t == req[q].snap
           i == req[q].pull
           s == t[i].stack
           w == Walk(t, s)
<1>1. GoodTable(t) /\ i \in 1..Len(t) /\ (Stacked(t, i) => HasTop(t, s)) /\ Len(t) <= Len(pulls)
  BY DEF TableInv, Snapshots, Snapshot, Later
<1>2. Len(t) \in Nat /\ 1..Len(t) \subseteq 1..MaxPulls
  BY <1>1, GoodTableIsRows, PullsAssumption DEF TableInv, Counted
<1>3. Elems(Below(q)) \subseteq 1..Len(t)
  <2>1. CASE ~ Stacked(t, i)
    BY <2>1 DEF Below, Elems
  <2>2. CASE Stacked(t, i)
    <3>1. s \in StackId
      BY <1>1, <2>2 DEF Stacked, GoodTable, GoodRows, GoodRow, Pull
    <3>2. w \in Seq(StackPulls(t, s))
      BY <1>1, <2>2, <3>1, WalkFacts
    <3>3. StackPulls(t, s) \subseteq 1..Len(t)
      BY DEF StackPulls
    <3>4. Below(q) = StrictlyBelow(t, w, i)
      BY <2>2 DEF Below, GetStack
    <3> HIDE DEF t, i, w, s
    <3>5. Len(w) \in Nat /\ \A k \in 1..Len(w) : w[k] \in 1..Len(t)
      BY <3>2, <3>3
    <3> DEFINE P == Position(t, w, i)
    <3>6. CASE P = {}
      BY <3>4, <3>6 DEF StrictlyBelow, Elems
    <3>7. CASE P # {}
      <4>1. P \in SUBSET Nat /\ P \subseteq 1..Len(w)
        BY <3>5 DEF Position
      <4>2. Min(P) \in 1..Len(w)
        <5> HIDE DEF P
        <5> QED BY <3>7, <4>1, MinOf
      <4> DEFINE m == Min(P)
      <4>3. Below(q) = SubSeq(w, m + 1, Len(w))
        BY <3>4, <3>7 DEF StrictlyBelow
      <4> HIDE DEF m
      <4>4. m \in 1..Len(w)
        BY <4>2 DEF m
      <4> DEFINE b == SubSeq(w, m + 1, Len(w))
      <4>5. Len(b) \in Nat /\ \A k \in 1..Len(b) : b[k] \in 1..Len(t)
        <5>1. Len(b) = Len(w) - m /\ \A k \in 1..Len(w) - m : b[k] = w[m + k]
          BY <3>2, <3>5, <4>4
        <5> HIDE DEF b
        <5>2. \A k \in 1..Len(w) - m : m + k \in 1..Len(w)
          BY <3>5, <4>4
        <5> QED BY <3>5, <4>4, <5>1, <5>2
      <4> QED BY <4>3, <4>5 DEF Elems
    <3> QED BY <3>6, <3>7
  <2> QED BY <2>1, <2>2
<1>4. Mergeable(t, Below(q)) \subseteq Elems(Below(q))
  BY DEF Mergeable, Elems
<1> QED
  BY <1>1, <1>2, <1>3, <1>4 DEF ToMerge

(* Requests that are not touched keep their snapshots when the table       *)
(* becomes a later one.                                                    *)
LEMMA SnapshotLater ==
  ASSUME NEW r, NEW t, NEW u, Snapshot(r, t), GoodRows(t), GoodRows(u), Later(t, u)
  PROVE  Snapshot(r, u)
<1>1. Later(r.snap, u)
  BY LaterTrans DEF Snapshot, GoodTable
<1> QED
  BY <1>1 DEF Snapshot

IsReq(r) ==
  /\ {"at", "pull", "snap"} \subseteq DOMAIN r
  /\ r.at \in {"idle", "handler", "push", "commit"}

(* One request moves on, the table becomes a later one. *)
LEMMA RequestSnapshots ==
  ASSUME TableInv, GoodRows(pulls'), Later(pulls, pulls'),
         NEW q \in Req, NEW r, req' = [req EXCEPT ![q] = r], IsReq(r), Snapshot(r, pulls')
  PROVE  Snapshots'
<1>1. DOMAIN req' = Req /\ req'[q] = r /\ \A p \in Req \ {q} : req'[p] = req[p]
  BY DEF TableInv, Snapshots
<1>2. ASSUME NEW p \in Req PROVE IsReq(req'[p]) /\ Snapshot(req'[p], pulls')
  <2>1. CASE p = q
    BY <1>1, <2>1
  <2>2. CASE p # q
    <3>1. IsReq(req[p]) /\ Snapshot(req[p], pulls) /\ GoodRows(pulls)
      BY DEF TableInv, Snapshots, IsReq, GoodTable
    <3>2. Snapshot(req[p], pulls')
      BY <3>1, SnapshotLater
    <3> QED BY <1>1, <2>2, <3>1, <3>2
  <2> QED BY <2>1, <2>2
<1> QED
  BY <1>1, <1>2 DEF Snapshots, IsReq

(* No request moves, the table becomes a later one. *)
LEMMA NoRequestSnapshots ==
  ASSUME TableInv, GoodRows(pulls'), Later(pulls, pulls'), req' = req
  PROVE  Snapshots'
<1>1. ASSUME NEW p \in Req PROVE IsReq(req[p]) /\ Snapshot(req[p], pulls')
  <2>1. IsReq(req[p]) /\ Snapshot(req[p], pulls) /\ GoodRows(pulls)
    BY DEF TableInv, Snapshots, IsReq, GoodTable
  <2> QED BY <2>1, SnapshotLater
<1> QED
  BY <1>1 DEF TableInv, Snapshots, IsReq

(* An idle request has read the empty table. *)
LEMMA IdleSnapshot ==
  ASSUME NEW t, Len(t) \in Nat
  PROVE  IsReq(Idle) /\ Snapshot(Idle, t)
<1>1. Len(Idle.snap) = 0 /\ Idle.snap \in Seq(Pull) /\ Idle.at = "idle" /\ Idle.pull = 0
  BY DEF Idle
<1>2. \A s \in StackId : Ordered(Idle.snap, s)
  <2> DEFINE rank == [c \in Change |-> 0]
  <2>1. rank \in [Change -> Nat]
    OBVIOUS
  <2>2. 1..Len(Idle.snap) = {}
    BY <1>1
  <2> HIDE DEF rank
  <2> QED BY <2>1, <2>2 DEF Ordered
<1>3. GoodTable(Idle.snap) /\ Later(Idle.snap, t)
  BY <1>1, <1>2 DEF GoodTable, GoodRows, Later
<1>4. IsReq(Idle)
  BY DEF IsReq, Idle
<1> QED
  BY <1>1, <1>3, <1>4 DEF Snapshot

(* A request ends, the table becomes a later one. *)
LEMMA DoneSnapshots ==
  ASSUME TableInv, GoodRows(pulls'), Later(pulls, pulls'), NEW q \in Req, Done(q)
  PROVE  Snapshots'
<1>1. Len(pulls') \in Nat
  BY DEF GoodRows
<1> QED
  BY <1>1, IdleSnapshot, RequestSnapshots DEF Done

(* Steps that leave the table alone. *)
LEMMA PullsSame ==
  ASSUME TableInv, pulls' = pulls
  PROVE  GoodTable(pulls') /\ GoodRows(pulls') /\ Later(pulls, pulls') /\ Len(pulls') <= MaxPulls
  BY LaterSame, GoodTableIsRows DEF TableInv, Counted

----------------------------------------------------------------------------
(* createPullRequest appends a row of no stack. *)
LEMMA CreatePullTableInv == ASSUME TableInv, CreatePull PROVE TableInv'
<1> DEFINE row == Row(Null, Null, Null)
           n == 1
           new == [k \in 1..n |-> row]
           u == pulls \o new
<1>1. GoodRows(pulls) /\ pulls \in Seq(Pull) /\ Len(pulls) \in Nat
  BY GoodTableIsRows DEF TableInv
<1>2. GoodRow(row)
  BY RowGood, PullsAssumption
<1>3. u = Append(pulls, row)
  <2>1. new = <<row>> /\ row \in Pull
    BY <1>2 DEF GoodRow
  <2> HIDE DEF row
  <2> QED BY <1>1, <2>1, AppendIsConcat
<1>4. /\ GoodRows(u) /\ Later(pulls, u) /\ Len(u) = Len(pulls) + 1
      /\ \A i \in 1..Len(pulls) : u[i] = pulls[i]
      /\ \A i \in 1..Len(u) : i > Len(pulls) => u[i] = row
  <2>1. DOMAIN new = 1..n /\ new = [k \in 1..n |-> new[k]] /\ \A k \in 1..n : GoodRow(new[k])
    BY <1>2
  <2>2. \A k \in 1..n : new[k] = row
    OBVIOUS
  <2>3. n \in Nat
    OBVIOUS
  <2> HIDE DEF new, row, n
  <2>4. /\ GoodRows(u) /\ Later(pulls, u) /\ Len(u) = Len(pulls) + n
        /\ \A i \in 1..Len(pulls) : u[i] = pulls[i]
        /\ \A i \in 1..Len(u) :
             i > Len(pulls) => i - Len(pulls) \in 1..n /\ u[i] = new[i - Len(pulls)]
    BY ONLY <1>1, <2>1, <2>3, AppendGood
  <2> QED BY <2>2, <2>4 DEF n
<1>5. pulls' = u /\ UNCHANGED <<req, applied, tip, requests>> /\ Len(pulls) < MaxPulls
  BY <1>3 DEF CreatePull, knot
<1>6. row.stack = Null
  BY DEF Row
<1> HIDE DEF row, new, u, n
<1>7. ASSUME NEW s \in StackId PROVE Ordered(u, s)
  <2>1. PICK rank \in [Change -> Nat] :
          \A i \in 1..Len(pulls) :
            pulls[i].stack = s /\ pulls[i].parent # Null
              => rank[pulls[i].parent] < rank[pulls[i].change]
    BY DEF TableInv, GoodTable, Ordered
  <2>2. \A i \in 1..Len(u) : u[i].stack = s => i \in 1..Len(pulls)
    BY <1>1, <1>4, <1>6, PullsAssumption
  <2>3. \A i \in 1..Len(u) :
          u[i].stack = s /\ u[i].parent # Null => rank[u[i].parent] < rank[u[i].change]
    BY <1>4, <2>1, <2>2
  <2> QED BY <2>3 DEF Ordered
<1>8. GoodTable(pulls') /\ Snapshots'
  BY <1>4, <1>5, <1>7, NoRequestSnapshots DEF GoodTable
<1>9. Counted'
  BY <1>1, <1>4, <1>5, PullsAssumption DEF TableInv, Counted
<1> QED
  BY <1>8, <1>9 DEF TableInv

(* createStackedPullRequest: the new stack is ordered by the places of its  *)
(* patches, the others are as they were.                                   *)
LEMMA CreateStackTableInv ==
  ASSUME TableInv, NEW z \in StackId, NEW cs \in Patches, CreateStack(z, cs)
  PROVE  TableInv'
<1> DEFINE new == [k \in 1..Len(cs) |-> Row(z, cs[k], ParentIn(cs, k))]
           u == pulls \o new
<1>1. GoodRows(pulls) /\ pulls \in Seq(Pull) /\ Len(pulls) \in Nat /\ Len(cs) \in Nat
  BY GoodTableIsRows, PatchesFacts DEF TableInv
<1>2. \A k \in 1..Len(cs) : GoodRow(new[k])
  <2> SUFFICES ASSUME NEW k \in 1..Len(cs) PROVE GoodRow(Row(z, cs[k], ParentIn(cs, k)))
    OBVIOUS
  <2>1. cs[k] \in Change /\ ParentIn(cs, k) \in Change \cup {Null}
    BY PatchesFacts, ParentInType
  <2> QED BY <2>1, RowGood
<1>3. /\ GoodRows(u) /\ Later(pulls, u) /\ Len(u) = Len(pulls) + Len(cs)
      /\ \A i \in 1..Len(pulls) : u[i] = pulls[i]
      /\ \A i \in 1..Len(u) :
           i > Len(pulls) => i - Len(pulls) \in 1..Len(cs) /\ u[i] = new[i - Len(pulls)]
  <2>1. DOMAIN new = 1..Len(cs) /\ new = [k \in 1..Len(cs) |-> new[k]]
    OBVIOUS
  <2> HIDE DEF new
  <2> QED BY <1>1, <1>2, <2>1, AppendGood
<1>4. /\ pulls' = u /\ UNCHANGED <<req, applied, tip, requests>>
      /\ Len(pulls) + Len(cs) <= MaxPulls
      /\ \A i \in 1..Len(pulls) : pulls[i].stack # z
  BY DEF CreateStack, knot
<1>5. ASSUME NEW k \in 1..Len(cs)
      PROVE  new[k].stack = z /\ new[k].change = cs[k] /\ new[k].parent = ParentIn(cs, k)
  BY DEF Row
<1> HIDE DEF new, u
<1>6. ASSUME NEW s \in StackId PROVE Ordered(u, s)
  <2>1. CASE s # z
    <3>1. PICK rank \in [Change -> Nat] :
            \A i \in 1..Len(pulls) :
              pulls[i].stack = s /\ pulls[i].parent # Null
                => rank[pulls[i].parent] < rank[pulls[i].change]
      BY DEF TableInv, GoodTable, Ordered
    <3>2. \A i \in 1..Len(u) : u[i].stack = s => i \in 1..Len(pulls)
      BY <1>1, <1>3, <1>5, <2>1
    <3>3. \A i \in 1..Len(u) :
            u[i].stack = s /\ u[i].parent # Null => rank[u[i].parent] < rank[u[i].change]
      BY <1>3, <3>1, <3>2
    <3> QED BY <3>3 DEF Ordered
  <2>2. CASE s = z
    <3> DEFINE rank == [c \in Change |-> IF c \in Elems(cs) THEN PlaceIn(cs, c) ELSE 0]
    <3>1. rank \in [Change -> Nat]
      <4>1. \A c \in Elems(cs) : PlaceIn(cs, c) \in Nat
        BY PlaceInFacts
      <4> QED BY <4>1
    <3>2. \A c \in Elems(cs) : rank[c] = PlaceIn(cs, c)
      BY PatchesFacts
    <3> HIDE DEF rank
    <3>3. ASSUME NEW i \in 1..Len(u), u[i].stack = s, u[i].parent # Null
          PROVE  rank[u[i].parent] < rank[u[i].change]
      <4>1. i > Len(pulls)
        BY <1>1, <1>3, <1>4, <2>2, <3>3
      <4> DEFINE k == i - Len(pulls)
      <4>2. k \in 1..Len(cs) /\ u[i] = new[k]
        BY <1>3, <4>1
      <4> HIDE DEF k
      <4>3. u[i].change = cs[k] /\ u[i].parent = ParentIn(cs, k)
        BY <1>5, <4>2
      <4>4. cs[k] \in Elems(cs) /\ ParentIn(cs, k) \in Elems(cs)
        BY <3>3, <4>2, <4>3, ParentInType DEF Elems
      <4> QED BY <3>2, <3>3, <4>2, <4>3, <4>4, ParentInRank
    <3> QED BY <3>1, <3>3 DEF Ordered
  <2> QED BY <2>1, <2>2
<1>7. GoodTable(pulls') /\ Snapshots'
  BY <1>3, <1>4, <1>6, NoRequestSnapshots DEF GoodTable
<1>8. Counted'
  BY <1>1, <1>3, <1>4, PullsAssumption DEF TableInv, Counted
<1> QED
  BY <1>7, <1>8 DEF TableInv

(* ResolvePull reads a table whose stack GetStack could walk. *)
LEMMA ResolvePullTableInv ==
  ASSUME TableInv, NEW q \in Req, NEW i \in 1..Len(pulls), ResolvePull(q, i)
  PROVE  TableInv'
<1> DEFINE r == [at |-> "handler", pull |-> i, snap |-> pulls]
<1>1. req' = [req EXCEPT ![q] = r] /\ pulls' = pulls /\ UNCHANGED <<applied, tip>>
  BY DEF ResolvePull, knot
<1>2. IsReq(r) /\ r.at = "handler" /\ r.pull = i /\ r.snap = pulls
  BY DEF IsReq
<1> HIDE DEF r
<1>3. i \in 0..Len(pulls)
  BY GoodTableIsRows DEF TableInv
<1>4. Stacked(pulls, i) => HasTop(pulls, pulls[i].stack)
  BY DEF ResolvePull, WellFormed
<1>5. Snapshot(r, pulls')
  BY <1>1, <1>2, <1>3, <1>4, PullsSame DEF Snapshot, TableInv
<1>6. requests' \in 0..MaxRequests
  BY PullsAssumption DEF ResolvePull, TableInv, Counted
<1> QED
  BY <1>1, <1>2, <1>5, <1>6, PullsSame, RequestSnapshots DEF TableInv, Counted

(* A handler that gives up changes nothing. *)
LEMMA AbandonTableInv ==
  ASSUME TableInv, NEW q \in Req, Abandon(q)
  PROVE  TableInv'
<1>1. Done(q) /\ pulls' = pulls /\ UNCHANGED <<applied, tip, requests>>
  BY DEF Abandon, knot
<1> QED
  BY <1>1, PullsSame, DoneSnapshots DEF TableInv, Counted

(* A request that goes on with the same snapshot. *)
LEMMA SameSnapshot ==
  ASSUME TableInv, NEW q \in Req, req[q].at # "idle", NEW r, IsReq(r),
         r.pull = req[q].pull, r.snap = req[q].snap
  PROVE  Snapshot(r, pulls)
  BY DEF TableInv, Snapshots, Snapshot

(* RepoMerge only takes the clone, *)
LEMMA RepoMergeTableInv ==
  ASSUME TableInv, NEW q \in Req, RepoMerge(q)
  PROVE  TableInv'
<1> DEFINE r == [at |-> "push", pull |-> req[q].pull, snap |-> req[q].snap, base |-> cloneTemp]
<1>1. /\ req' = [req EXCEPT ![q] = r] /\ pulls' = pulls
      /\ UNCHANGED <<applied, tip, requests>> /\ req[q].at = "handler"
  BY DEF RepoMerge, Merge, Handle, knot
<1>2. IsReq(r) /\ r.pull = req[q].pull /\ r.snap = req[q].snap
  BY DEF IsReq
<1> HIDE DEF r
<1>3. Snapshot(r, pulls')
  BY <1>1, <1>2, SameSnapshot
<1> QED
  BY <1>1, <1>2, <1>3, PullsSame, RequestSnapshots DEF TableInv, Counted

(* the push applies pulls that are in the table. *)
LEMMA MergeWithOptionsTableInv ==
  ASSUME TableInv, NEW q \in Req, MergeWithOptions(q)
  PROVE  TableInv'
<1> DEFINE r == [req[q] EXCEPT !.at = "commit"]
<1>1. /\ req' = [req EXCEPT ![q] = r] /\ pulls' = pulls /\ req[q].at = "push"
      /\ tip' = tip + 1 /\ applied' = applied \cup ToMerge(q) /\ requests' = requests
  BY DEF MergeWithOptions, applyPatch
<1>2. IsReq(r) /\ r.pull = req[q].pull /\ r.snap = req[q].snap
  <2>1. {"at", "pull", "snap"} \subseteq DOMAIN req[q]
    BY DEF TableInv, Snapshots
  <2> QED BY <2>1 DEF IsReq
<1> HIDE DEF r
<1>3. Snapshot(r, pulls')
  BY <1>1, <1>2, SameSnapshot
<1>4. Snapshots'
  BY <1>1, <1>2, <1>3, PullsSame, RequestSnapshots
<1>5. ToMerge(q) \subseteq 1..MaxPulls
  BY <1>1, ToMergeType
<1>6. Counted'
  <2>1. Counted
    BY DEF TableInv
  <2>2. applied' \subseteq 1..MaxPulls
    BY ONLY <1>1, <1>5, <2>1 DEF Counted
  <2>3. tip' \in Nat
    BY ONLY <1>1, <2>1 DEF Counted
  <2> QED BY ONLY <1>1, <2>1, <2>2, <2>3 DEF Counted
<1> QED
  BY <1>1, <1>4, <1>6, PullsSame DEF TableInv

(* Closing, reopening and marking merged. *)
LEMMA SetStateTableInv ==
  ASSUME TableInv, NEW q \in Req, Done(q), UNCHANGED <<applied, tip, requests>>,
         \E state \in PullState : \E ids : pulls' = SetPullState(pulls, ids, state)
  PROVE  TableInv'
<1>0. PICK state \in PullState : \E ids : pulls' = SetPullState(pulls, ids, state)
  OBVIOUS
<1> PICK ids : pulls' = SetPullState(pulls, ids, state)
  BY <1>0
<1>1. GoodRows(pulls)
  BY DEF TableInv, GoodTable
<1>2. /\ GoodRows(pulls') /\ Later(pulls, pulls') /\ Len(pulls') = Len(pulls)
      /\ \A i \in 1..Len(pulls) :
           /\ pulls'[i].stack = pulls[i].stack /\ pulls'[i].change = pulls[i].change
           /\ pulls'[i].parent = pulls[i].parent
  BY <1>1, SetPullStateGood
<1>3. \A s \in StackId : Ordered(pulls', s)
  BY <1>2, MapOrdered DEF TableInv, GoodTable
<1> QED
  BY <1>2, <1>3, DoneSnapshots DEF TableInv, GoodTable, Counted

(* ClosePull, ReopenPull and MergePull are such steps. *)
LEMMA StateActionsTableInv ==
  ASSUME TableInv, NEW q \in Req, ClosePull(q) \/ ReopenPull(q) \/ MergePull(q)
  PROVE  TableInv'
<1>1. Done(q) /\ UNCHANGED <<applied, tip, requests>>
  BY DEF ClosePull, ReopenPull, MergePull, knot
<1>2. \E state \in PullState : \E ids : pulls' = SetPullState(pulls, ids, state)
  BY DEF ClosePull, ReopenPull, MergePull, PullState
<1> QED
  BY <1>1, <1>2, SetStateTableInv

(* resubmitPullHelper appends the round the unique constraint lets through: *)
(* the next one.                                                           *)
LEMMA ResubmitPullTableInv ==
  ASSUME TableInv, NEW q \in Req, ResubmitPull(q)
  PROVE  TableInv'
<1> DEFINE j == req[q].pull
           t == req[q].snap
           r == Len(t[j].rounds)
           x == AddRound(pulls[j], r)
<1>1. /\ pulls' = [pulls EXCEPT ![j] = x] /\ Done(q) /\ UNCHANGED <<applied, tip, requests>>
      /\ req[q].at = "handler" /\ r \notin Elems(pulls[j].rounds)
  BY DEF ResubmitPull, NextRound, RoundFree, Handle, knot
<1>2. GoodTable(t) /\ Later(t, pulls) /\ j \in 1..Len(t) /\ GoodRows(pulls) /\ Len(pulls) \in Nat
      /\ Len(t) \in Nat
  BY <1>1, GoodTableIsRows DEF TableInv, Snapshots, Snapshot
<1>3. j \in 1..Len(pulls) /\ GoodRow(pulls[j]) /\ r <= Len(pulls[j].rounds) /\ r \in Nat
  <2>1. j \in 1..Len(pulls) /\ r <= Len(pulls[j].rounds)
    <3> HIDE DEF j, t
    <3> QED BY <1>2 DEF Later, r
  <2>2. r \in Nat
    BY <1>2, RoundsCounted DEF GoodTable
  <2>3. GoodRow(pulls[j])
    BY <1>2, <2>1 DEF GoodRows
  <2> QED BY <2>1, <2>2, <2>3
<1>4. r = Len(pulls[j].rounds)
  BY <1>1, <1>3, FreeIsNext
<1>5. /\ GoodRow(x) /\ x.stack = pulls[j].stack /\ x.change = pulls[j].change
      /\ x.parent = pulls[j].parent /\ Len(pulls[j].rounds) <= Len(x.rounds)
  BY <1>3, <1>4, AddRoundGood
<1> DEFINE u == pulls'
<1>6. /\ DOMAIN u = 1..Len(pulls) /\ u = [i \in 1..Len(pulls) |-> u[i]]
      /\ \A i \in 1..Len(pulls) : u[i] = IF i = j THEN x ELSE pulls[i]
  <2> HIDE DEF x, j
  <2>1. DOMAIN pulls = 1..Len(pulls)
    BY <1>2 DEF GoodRows
  <2> QED BY <1>1, <2>1
<1> HIDE DEF u, x, j, t, r
<1>7. ASSUME NEW i \in 1..Len(pulls)
      PROVE  /\ GoodRow(u[i])
             /\ u[i].stack = pulls[i].stack /\ u[i].change = pulls[i].change
             /\ u[i].parent = pulls[i].parent
             /\ Len(pulls[i].rounds) <= Len(u[i].rounds)
  <2>1. CASE i = j
    BY <1>5, <1>6, <2>1
  <2>2. CASE i # j
    BY <1>2, <1>6, <2>2, RoundsCounted DEF GoodRows
  <2> QED BY <2>1, <2>2
<1>8. GoodRows(u) /\ Later(pulls, u) /\ Len(u) = Len(pulls)
  BY <1>2, <1>6, <1>7, MapGood
<1>9. \A s \in StackId : Ordered(u, s)
  BY <1>7, <1>8, MapOrdered DEF TableInv, GoodTable
<1>10. Snapshots'
  BY <1>1, <1>2, <1>8, DoneSnapshots DEF u
<1>11. Counted'
  BY <1>1, <1>8 DEF TableInv, Counted, u
<1> QED
  BY <1>8, <1>9, <1>10, <1>11 DEF TableInv, GoodTable, u

----------------------------------------------------------------------------
(***************************************************************************)
(* Resubmission of a stack.                                                *)
(***************************************************************************)

(* What resubmitting a stack does to the table: rows of the snapshot's     *)
(* stack that have no patch any more are deleted, those that have one and  *)
(* are not merged get a round, rows with the other patches are appended.   *)
Resubmitted(q, cs, n, u) ==
  LET t == req[q].snap
      s == t[req[q].pull].stack
      orig == Elems(Walk(t, s))
  IN  /\ GoodRows(u) /\ Later(pulls, u) /\ Len(u) = Len(pulls) + n
      /\ \A i \in 1..Len(pulls) :
           /\ u[i].stack = pulls[i].stack /\ u[i].change = pulls[i].change
           /\ u[i].parent = pulls[i].parent
           /\ u[i].state = IF i \in orig /\ t[i].state # "merged" /\ t[i].change \notin Elems(cs)
                           THEN "deleted" ELSE pulls[i].state
      /\ \A i \in 1..Len(u) : i > Len(pulls) =>
           /\ u[i].stack = s /\ u[i].state = "open"
           /\ u[i].change \in Elems(cs) \ {t[k].change : k \in orig}
      /\ \A i, k \in 1..Len(u) : i > Len(pulls) /\ k > Len(pulls) /\ u[i].change = u[k].change => i = k
      /\ \A c \in Elems(cs) \ {t[k].change : k \in orig} :
           \E i \in 1..Len(u) : i > Len(pulls) /\ u[i].change = c

(* The where clause of SetPullState holds of every row. *)
LEMMA MayChangeAlways ==
  ASSUME NEW p
  PROVE  MayChange(p)
  BY DEF MayChange

(* Every place is in an enumeration of the places of the same length once. *)
LEMMA EnumerationInjective ==
  ASSUME NEW S, IsFiniteSet(S), NEW f \in [1..Cardinality(S) -> S],
         \A x \in S : \E m \in DOMAIN f : f[m] = x
  PROVE  \A a, b \in 1..Cardinality(S) : f[a] = f[b] => a = b
<1>1. Cardinality(S) \in Nat
  BY FS_CardinalityType
<1>2. IsFiniteSet(1..Cardinality(S)) /\ Cardinality(1..Cardinality(S)) = Cardinality(S)
  BY <1>1, FS_Interval
<1>3. f \in Surjection(1..Cardinality(S), S)
  BY DEF Surjection
<1>4. f \in Injection(1..Cardinality(S), S)
  BY <1>2, <1>3, FS_SurjSameCardinalityImpliesInj
<1> QED
  BY <1>4 DEF Injection, IsInjective

(* resubmitStackedPullHelper does to the table what Resubmitted says, then  *)
(* rewrites the parents.                                                   *)
LEMMA ResubmitStackTable ==
  ASSUME TableInv, NEW q \in Req, NEW cs \in Patches, ResubmitStack(q, cs)
  PROVE  /\ Handle(q) /\ Stacked(req[q].snap, req[q].pull)
         /\ Done(q) /\ UNCHANGED <<applied, tip, requests>>
         /\ \E n \in Nat : \E u : /\ Resubmitted(q, cs, n, u) /\ Len(pulls) + n <= MaxPulls
                                  /\ pulls' = SetPullParentChangeId(u, cs)
<1> DEFINE t == req[q].snap
           s == t[req[q].pull].stack
           orig == Elems(Walk(t, s))
           kept == {i \in orig : t[i].change \in Elems(cs)}
           unmerged == {i \in orig : t[i].state # "merged"}
           updated == kept \cap unmerged
           ids == {t[i].change : i \in orig}
           added == Additions(cs, ids)
           deleted == SetPullState(pulls, unmerged \ kept, "deleted")
           rounds == [i \in 1..Len(pulls) |->
                        IF i \in updated THEN AddRound(deleted[i], NextRound(q, i)) ELSE deleted[i]]
           rows(ks) == [k \in 1..Len(ks) |-> Row(s, cs[ks[k]], ParentIn(cs, ks[k]))]
           places == {k \in 1..Len(cs) : cs[k] \notin ids}
<1>1. PICK ks \in added : /\ pulls' = SetPullParentChangeId(rounds \o rows(ks), cs)
                          /\ Len(pulls) + Len(ks) <= MaxPulls
  BY DEF ResubmitStack, GetStack
<1>2. /\ Handle(q) /\ Stacked(t, req[q].pull)
      /\ Done(q) /\ UNCHANGED <<applied, tip, requests>>
      /\ \A i \in updated : RoundFree(i, NextRound(q, i))
  BY DEF ResubmitStack, knot, GetStack
<1>3. GoodTable(t) /\ Later(t, pulls) /\ req[q].pull \in 1..Len(t) /\ GoodRows(pulls)
      /\ Len(pulls) \in Nat /\ Len(t) \in Nat /\ HasTop(t, s)
  BY <1>2, GoodTableIsRows DEF TableInv, Snapshots, Snapshot, Handle
<1>4. s \in StackId
  BY <1>2, <1>3 DEF Stacked, GoodTable, GoodRows, GoodRow, Pull
<1>5. orig \subseteq 1..Len(t) /\ 1..Len(t) \subseteq 1..Len(pulls)
  <2>1. Walk(t, s) \in Seq(StackPulls(t, s))
    BY <1>3, <1>4, WalkFacts
  <2>2. StackPulls(t, s) \subseteq 1..Len(t)
    BY DEF StackPulls
  <2> HIDE DEF t, s
  <2> QED BY <1>3, <2>1, <2>2 DEF Elems, Later
<1>6. /\ GoodRows(deleted) /\ Later(pulls, deleted) /\ Len(deleted) = Len(pulls)
      /\ \A i \in 1..Len(pulls) :
           /\ deleted[i].stack = pulls[i].stack /\ deleted[i].change = pulls[i].change
           /\ deleted[i].parent = pulls[i].parent /\ deleted[i].rounds = pulls[i].rounds
           /\ deleted[i].state = IF i \in unmerged \ kept THEN "deleted" ELSE pulls[i].state
  <2> HIDE DEF unmerged, kept
  <2> QED BY <1>3, SetPullStateGood, MayChangeAlways DEF PullState
<1>7. ASSUME NEW i \in 1..Len(pulls)
      PROVE  /\ GoodRow(rounds[i]) /\ Len(deleted[i].rounds) <= Len(rounds[i].rounds)
             /\ rounds[i].stack = deleted[i].stack /\ rounds[i].change = deleted[i].change
             /\ rounds[i].parent = deleted[i].parent /\ rounds[i].state = deleted[i].state
  <2> DEFINE d == deleted[i]
  <2>1. rounds[i] = IF i \in updated THEN AddRound(d, NextRound(q, i)) ELSE d
    OBVIOUS
  <2>2. GoodRow(d) /\ Len(d.rounds) \in Nat
    BY <1>6, RoundsCounted DEF GoodRows
  <2>3. CASE i \in updated
    <3>1. i \in 1..Len(t) /\ NextRound(q, i) \notin Elems(d.rounds)
      BY <1>2, <1>5, <1>6, <2>3 DEF RoundFree
    <3>2. NextRound(q, i) = Len(t[i].rounds) /\ Len(t[i].rounds) \in Nat
          /\ Len(t[i].rounds) <= Len(d.rounds)
      BY <1>3, <1>6, <3>1, RoundsCounted DEF NextRound, Later, GoodTable
    <3>3. NextRound(q, i) = Len(d.rounds)
      <4> HIDE DEF d
      <4> QED BY <2>2, <3>1, <3>2, FreeIsNext
    <3>4. rounds[i] = AddRound(d, Len(d.rounds))
      BY <2>1, <2>3, <3>3
    <3> HIDE DEF rounds, deleted, updated
    <3> QED BY <2>2, <3>4, AddRoundGood
  <2>4. CASE i \notin updated
    <3> HIDE DEF rounds, deleted, updated
    <3> QED BY <2>1, <2>2, <2>4
  <2> QED BY <2>3, <2>4
<1>8. GoodRows(rounds) /\ Later(deleted, rounds) /\ Len(rounds) = Len(pulls)
  <2>1. DOMAIN rounds = 1..Len(deleted) /\ rounds = [i \in 1..Len(deleted) |-> rounds[i]]
    BY <1>6
  <2> HIDE DEF rounds, deleted
  <2> QED BY <1>6, <1>7, <2>1, MapGood
<1>9. Later(pulls, rounds)
  <2> HIDE DEF rounds, deleted
  <2> QED BY <1>3, <1>6, <1>8, LaterTrans
<1>10. /\ Len(ks) \in Nat /\ \A k \in 1..Len(ks) : ks[k] \in places
       /\ \A a, b \in 1..Len(ks) : ks[a] = ks[b] => a = b
       /\ \A k \in places : \E m \in 1..Len(ks) : ks[m] = k
  <2>1. places \subseteq 1..Len(cs) /\ IsFiniteSet(1..Len(cs))
    BY PatchesFacts, FS_Interval
  <2>2. IsFiniteSet(places) /\ Cardinality(places) \in Nat
    <3> HIDE DEF places
    <3> QED BY <2>1, FS_Subset, FS_CardinalityType
  <2>3. ks \in [1..Cardinality(places) -> places] /\ \A k \in places : \E m \in DOMAIN ks : ks[m] = k
    <3> HIDE DEF ids
    <3> QED BY <1>1 DEF Additions
  <2> HIDE DEF places
  <2>4. Len(ks) = Cardinality(places) /\ DOMAIN ks = 1..Len(ks)
    BY <2>2, <2>3
  <2>5. \A a, b \in 1..Cardinality(places) : ks[a] = ks[b] => a = b
    BY <2>2, <2>3, EnumerationInjective
  <2> QED BY <2>2, <2>3, <2>4, <2>5
<1> DEFINE n == Len(ks)
           new == rows(ks)
           u == rounds \o new
<1>11. ASSUME NEW k \in 1..n
       PROVE  /\ GoodRow(new[k]) /\ new[k].stack = s /\ new[k].state = "open"
              /\ new[k].change = cs[ks[k]] /\ ks[k] \in 1..Len(cs) /\ cs[ks[k]] \notin ids
  <2>1. ks[k] \in 1..Len(cs) /\ cs[ks[k]] \notin ids
    BY <1>10
  <2>2. cs[ks[k]] \in Change /\ ParentIn(cs, ks[k]) \in Change \cup {Null}
    BY <2>1, PatchesFacts, ParentInType
  <2>3. new[k] = Row(s, cs[ks[k]], ParentIn(cs, ks[k]))
    OBVIOUS
  <2> HIDE DEF s, ids, new
  <2>4. GoodRow(Row(s, cs[ks[k]], ParentIn(cs, ks[k])))
    BY <1>4, <2>2, RowGood
  <2> QED BY <2>1, <2>3, <2>4 DEF Row
<1>12. /\ GoodRows(u) /\ Later(rounds, u) /\ Len(u) = Len(pulls) + n
       /\ \A i \in 1..Len(pulls) : u[i] = rounds[i]
       /\ \A i \in 1..Len(u) : i > Len(pulls) => i - Len(pulls) \in 1..n /\ u[i] = new[i - Len(pulls)]
       /\ \A k \in 1..n : u[Len(pulls) + k] = new[k]
  <2>1. DOMAIN new = 1..n /\ new = [k \in 1..n |-> new[k]] /\ n \in Nat
        /\ \A k \in 1..n : GoodRow(new[k])
    BY <1>10, <1>11
  <2>3. GoodRows(rounds)
    BY <1>8
  <2> HIDE DEF new, rounds, n, ids, places, added, rows, t, s, orig, kept, unmerged, updated, deleted
  <2>2. /\ GoodRows(u) /\ Later(rounds, u) /\ Len(u) = Len(rounds) + n
        /\ \A i \in 1..Len(rounds) : u[i] = rounds[i]
        /\ \A i \in 1..Len(u) :
             i > Len(rounds) => i - Len(rounds) \in 1..n /\ u[i] = new[i - Len(rounds)]
        /\ \A k \in 1..n : u[Len(rounds) + k] = new[k]
    BY ONLY <2>3, <2>1, AppendGood
  <2> HIDE DEF u
  <2> QED BY <1>8, <2>2
<1>13. Later(pulls, u)
  <2> HIDE DEF u, rounds
  <2> QED BY <1>3, <1>8, <1>9, <1>12, LaterTrans
<1>14. \A c \in Elems(cs) \ ids : \E i \in 1..Len(u) : i > Len(pulls) /\ u[i].change = c
  <2> SUFFICES ASSUME NEW c \in Elems(cs) \ ids
               PROVE  \E i \in 1..Len(u) : i > Len(pulls) /\ u[i].change = c
    OBVIOUS
  <2>1. PICK k \in 1..Len(cs) : cs[k] = c
    BY DEF Elems
  <2>2. PICK m \in 1..n : ks[m] = k
    <3>1. k \in places
      BY <2>1
    <3> HIDE DEF places, ids
    <3> QED BY <1>10, <3>1
  <2> HIDE DEF u, new, rounds
  <2>3. Len(pulls) + m \in 1..Len(u) /\ Len(pulls) + m > Len(pulls)
    <3> HIDE DEF n
    <3>1. n \in Nat
      BY <1>10 DEF n
    <3> QED BY <1>3, <1>12, <3>1
  <2>4. u[Len(pulls) + m].change = c
    BY <1>11, <1>12, <2>1, <2>2
  <2> QED BY <2>3, <2>4
<1>15. \A i, k \in 1..Len(u) :
         i > Len(pulls) /\ k > Len(pulls) /\ u[i].change = u[k].change => i = k
  <2> SUFFICES ASSUME NEW i \in 1..Len(u), NEW k \in 1..Len(u), i > Len(pulls), k > Len(pulls),
                      u[i].change = u[k].change
               PROVE  i = k
    OBVIOUS
  <2> DEFINE a == i - Len(pulls)
             b == k - Len(pulls)
  <2> HIDE DEF u, new, rounds, n
  <2>1. a \in 1..n /\ b \in 1..n /\ u[i] = new[a] /\ u[k] = new[b]
    BY <1>12
  <2>2. cs[ks[a]] = cs[ks[b]] /\ ks[a] \in 1..Len(cs) /\ ks[b] \in 1..Len(cs)
    <3> HIDE DEF a, b
    <3> QED BY <1>11, <2>1
  <2>3. ks[a] = ks[b]
    <3> HIDE DEF a, b
    <3> QED BY <2>2, PatchesFacts
  <2>4. a = b
    <3> HIDE DEF a, b, places
    <3> QED BY <1>10, <2>1, <2>3 DEF n
  <2> QED BY <1>3, <2>4
<1>16. Resubmitted(q, cs, n, u)
  <2>1. \A i \in 1..Len(pulls) :
           /\ u[i].stack = pulls[i].stack /\ u[i].change = pulls[i].change
           /\ u[i].parent = pulls[i].parent
           /\ u[i].state = IF i \in orig /\ t[i].state # "merged" /\ t[i].change \notin Elems(cs)
                           THEN "deleted" ELSE pulls[i].state
    <3>1. \A i : i \in unmerged \ kept <=> i \in orig /\ t[i].state # "merged" /\ t[i].change \notin Elems(cs)
      OBVIOUS
    <3> HIDE DEF u, rounds, deleted, unmerged, kept, orig, t
    <3> QED BY <1>6, <1>7, <1>12, <3>1
  <2>2. \A i \in 1..Len(u) : i > Len(pulls) =>
           /\ u[i].stack = s /\ u[i].state = "open"
           /\ u[i].change \in Elems(cs) \ ids
    <3> HIDE DEF u, rounds, new, n, ids, s
    <3> QED BY <1>11, <1>12 DEF Elems
  <2> HIDE DEF u, rounds, new, n
  <2> QED BY <1>12, <1>13, <1>14, <1>15, <2>1, <2>2 DEF Resubmitted
<1>17. \E m \in Nat : \E v : /\ Resubmitted(q, cs, m, v) /\ Len(pulls) + m <= MaxPulls
                             /\ pulls' = SetPullParentChangeId(v, cs)
  <2>1. n \in Nat /\ Len(pulls) + n <= MaxPulls /\ pulls' = SetPullParentChangeId(u, cs)
    BY <1>1, <1>10
  <2> HIDE DEF u, n
  <2> QED BY <1>16, <2>1
<1> QED
  BY <1>2, <1>17

(* The rewritten parents are ordered in every stack: rows with a patch go   *)
(* below the others, by their places.                                      *)
LEMMA ResubmitStackTableInv ==
  ASSUME TableInv, NEW q \in Req, NEW cs \in Patches, ResubmitStack(q, cs)
  PROVE  TableInv'
<1>1. Done(q) /\ UNCHANGED <<applied, tip, requests>>
  BY ResubmitStackTable
<1>0. PICK n \in Nat : \E u : /\ Resubmitted(q, cs, n, u) /\ Len(pulls) + n <= MaxPulls
                              /\ pulls' = SetPullParentChangeId(u, cs)
  BY ResubmitStackTable
<1>2. PICK u : /\ Resubmitted(q, cs, n, u) /\ Len(pulls) + n <= MaxPulls
               /\ pulls' = SetPullParentChangeId(u, cs)
  BY <1>0
<1>3. GoodRows(pulls) /\ Len(pulls) \in Nat
  BY GoodTableIsRows DEF TableInv
<1>4. /\ GoodRows(u) /\ Later(pulls, u) /\ Len(u) = Len(pulls) + n
      /\ \A i \in 1..Len(pulls) :
           u[i].stack = pulls[i].stack /\ u[i].change = pulls[i].change /\ u[i].parent = pulls[i].parent
      /\ \A i \in 1..Len(u) : i > Len(pulls) => u[i].change \in Elems(cs)
  BY <1>2 DEF Resubmitted
<1>5. GoodRows(pulls') /\ Later(u, pulls') /\ Len(pulls') = Len(u)
  BY <1>2, <1>4, SetParentGood
<1>6. Later(pulls, pulls')
  BY <1>3, <1>4, <1>5, LaterTrans
<1>7. ASSUME NEW s \in StackId PROVE Ordered(pulls', s)
  <2>1. PICK rank \in [Change -> Nat] :
          \A i \in 1..Len(pulls) :
            pulls[i].stack = s /\ pulls[i].parent # Null
              => rank[pulls[i].parent] < rank[pulls[i].change]
    BY DEF TableInv, GoodTable, Ordered
  <2>2. \A i \in 1..Len(u) : u[i].change \notin Elems(cs) => i \in 1..Len(pulls)
    BY <1>2, <1>3, <1>4
  <2>3. \A i \in 1..Len(u) :
          u[i].stack = s /\ u[i].change \notin Elems(cs) /\ u[i].parent # Null
            => rank[u[i].parent] < rank[u[i].change]
    BY <1>4, <2>1, <2>2
  <2> QED BY <1>2, <1>4, <2>3, SetParentOrdered
<1>8. Snapshots'
  BY <1>1, <1>5, <1>6, DoneSnapshots
<1>9. Counted'
  BY <1>1, <1>2, <1>4, <1>5 DEF TableInv, Counted
<1> QED
  BY <1>5, <1>7, <1>8, <1>9 DEF TableInv, GoodTable

(* The empty table is ordered. *)
LEMMA InitTableInv == Init => TableInv
<1> SUFFICES ASSUME Init PROVE TableInv
  OBVIOUS
<1>1. /\ pulls = << >> /\ req = [q \in Req |-> Idle] /\ applied = {} /\ tip = 0 /\ requests = 0
  BY DEF Init
<1>2. Len(pulls) = 0 /\ pulls \in Seq(Pull)
  BY <1>1
<1>3. IsReq(Idle) /\ Snapshot(Idle, pulls)
  BY <1>2, IdleSnapshot
<1>4. GoodTable(pulls)
  <2>1. pulls = Idle.snap
    BY <1>1 DEF Idle
  <2> QED BY <1>3, <2>1 DEF Snapshot
<1>5. Snapshots
  BY <1>1, <1>3 DEF Snapshots, IsReq
<1>6. Counted
  BY <1>1, <1>2, PullsAssumption DEF Counted
<1> QED
  BY <1>4, <1>5, <1>6 DEF TableInv

(* Every step, stuttering included, preserves the invariant of the table.  *)
LEMMA NextTableInv == TableInv /\ [Next]_vars => TableInv'
<1> SUFFICES ASSUME TableInv, [Next]_vars PROVE TableInv'
  OBVIOUS
<1>1. CASE UNCHANGED vars
  <2>1. pulls' = pulls /\ req' = req /\ UNCHANGED <<applied, tip, requests>>
    BY <1>1 DEF vars, knot
  <2>2. GoodTable(pulls') /\ Snapshots'
    BY <2>1, PullsSame, NoRequestSnapshots
  <2> QED BY <2>1, <2>2 DEF TableInv, Counted
<1>2. CASE CreatePull
  BY <1>2, CreatePullTableInv
<1>3. CASE \E s \in StackId, cs \in Patches : CreateStack(s, cs)
  BY <1>3, CreateStackTableInv
<1>4. ASSUME NEW q \in Req, NEW i \in 1..Len(pulls), ResolvePull(q, i) PROVE TableInv'
  BY <1>4, ResolvePullTableInv
<1>5. ASSUME NEW q \in Req, Abandon(q) PROVE TableInv'
  BY <1>5, AbandonTableInv
<1>6. ASSUME NEW q \in Req, ClosePull(q) \/ ReopenPull(q) \/ MergePull(q) PROVE TableInv'
  BY <1>6, StateActionsTableInv
<1>7. ASSUME NEW q \in Req, RepoMerge(q) PROVE TableInv'
  BY <1>7, RepoMergeTableInv
<1>8. ASSUME NEW q \in Req, MergeWithOptions(q) PROVE TableInv'
  BY <1>8, MergeWithOptionsTableInv
<1>9. ASSUME NEW q \in Req, ResubmitPull(q) PROVE TableInv'
  BY <1>9, ResubmitPullTableInv
<1>10. ASSUME NEW q \in Req, NEW cs \in Patches, ResubmitStack(q, cs) PROVE TableInv'
  BY <1>10, ResubmitStackTableInv
<1> QED
  BY <1>1, <1>2, <1>3, <1>4, <1>5, <1>6, <1>7, <1>8, <1>9, <1>10 DEF Next

----------------------------------------------------------------------------
(***************************************************************************)
(* The theorems.                                                           *)
(***************************************************************************)

(* The rows, the snapshots requests work on and what the knot merged have   *)
(* their types, and the requests stay within the bound.                    *)
THEOREM PullsTypeCorrect == Spec => []TypeOK
<1>1. TableInv => TypeOK
  BY TableInvImplies
<1> QED
  BY <1>1, InitTableInv, NextTableInv, PTL DEF Spec

(* Resubmissions from stale snapshots: the unique constraint on pull and    *)
(* round number leaves every pull the rounds 0, 1, ... without a gap.      *)
THEOREM RoundsStayContiguous == Spec => []RoundsContiguous
<1>1. TableInv => RoundsContiguous
  BY TableInvImplies
<1> QED
  BY <1>1, InitTableInv, NextTableInv, PTL DEF Spec

(* GetStack terminates: whatever SetPullParentChangeId did to the parents,  *)
(* of this stack or of another one with the same change ids, a stack with  *)
(* pulls has a top and the walk down from it meets no pull twice.          *)
THEOREM StackWalksEnd == Spec => []WalkTerminates
<1> QED
  BY TableInvWalk, InitTableInv, NextTableInv, PTL DEF Spec

----------------------------------------------------------------------------
(***************************************************************************)
(* What a resubmission leaves of a complete stack.                         *)
(***************************************************************************)

(* In a stack that GetStack finds completely, change ids are different:    *)
(* the walk would have chosen one row of two and never found the other.    *)
LEMMA CompleteHasDistinctChanges ==
  ASSUME NEW t, GoodTable(t), NEW s \in StackId, Complete(t, s),
         NEW i \in StackPulls(t, s), NEW j \in StackPulls(t, s), t[i].change = t[j].change
  PROVE  i = j
<1> DEFINE S == StackPulls(t, s)
           w == Walk(t, s)
<1>1. HasTop(t, s) /\ Elems(w) = S
  BY DEF Complete, WellFormed, GetStack
<1>2. /\ w \in Seq(S) /\ w # << >> /\ w[1] = Max(Tops(t, s)) /\ Linked(t, s, w)
      /\ S \in SUBSET Nat /\ IsFiniteSet(S)
  BY <1>1, WalkFacts, StackPullsFinite DEF GoodTable, GoodRows
<1>3. w[1] \in Tops(t, s)
  <2>1. Tops(t, s) \in SUBSET Nat /\ IsFiniteSet(Tops(t, s))
    BY <1>2, FS_Subset DEF Tops
  <2> QED BY <1>1, <1>2, <2>1, MaxOf DEF HasTop
<1>4. Len(w) \in Nat /\ \A a \in 1..Len(w) : w[a] \in S
  <2> HIDE DEF w, S
  <2> QED BY <1>2
<1> HIDE DEF w
<1>5. ASSUME NEW a \in 1..Len(w), a # 1
      PROVE  /\ w[a] = Min(ByChange(t, s, t[w[a]].change))
             /\ \E k \in S : t[k].parent = t[w[a]].change
  <2> DEFINE b == a - 1
             p == t[w[b]].parent
             B == ByChange(t, s, p)
  <2>1. b \in 1..Len(w) - 1 /\ b \in 1..Len(w) /\ b + 1 = a
    BY <1>4, <1>5
  <2>2. w[a] = Min(B) /\ B # {} /\ w[b] \in S
    <3> HIDE DEF b
    <3> QED BY <1>2, <1>4, <2>1 DEF Linked, Stops
  <2>3. w[a] \in B
    <3>1. B \in SUBSET Nat
      BY <1>2 DEF ByChange
    <3> HIDE DEF B
    <3> QED BY <2>2, <3>1, MinOf
  <2>4. t[w[a]].change = p
    BY <2>3 DEF ByChange
  <2> HIDE DEF b
  <2> QED BY <2>2, <2>4
<1>6. PICK a \in 1..Len(w), b \in 1..Len(w) : i = w[a] /\ j = w[b]
  BY <1>1 DEF Elems
<1>7. a = 1 /\ b # 1 => FALSE
  BY <1>3, <1>5, <1>6 DEF Tops
<1>8. b = 1 /\ a # 1 => FALSE
  BY <1>3, <1>5, <1>6 DEF Tops
<1> QED
  BY <1>5, <1>6, <1>7, <1>8

(* A stack that has one pull for each of the patches, with the parents of  *)
(* newStack, is found completely.                                          *)
LEMMA PatchesAreComplete ==
  ASSUME NEW v, GoodTable(v), NEW s \in StackId, NEW cs \in Patches,
         \A i \in StackPulls(v, s) :
           v[i].change \in Elems(cs) /\ v[i].parent = ParentIn(cs, PlaceIn(cs, v[i].change)),
         \A c \in Elems(cs) : \E i \in StackPulls(v, s) : v[i].change = c,
         \A i, j \in StackPulls(v, s) : v[i].change = v[j].change => i = j
  PROVE  Complete(v, s)
<1> DEFINE N == StackPulls(v, s)
           w == Walk(v, s)
           m == Len(cs)
           place(i) == PlaceIn(cs, v[i].change)
<1>1. m \in Nat /\ m >= 1 /\ \A k \in 1..m : cs[k] \in Elems(cs) /\ cs[k] # Null
  BY PatchesFacts, PullsAssumption DEF Elems
<1>2. HasTop(v, s)
  <2>1. 1 \in 1..m
    BY <1>1
  <2>2. N # {}
    BY <1>1, <2>1
  <2> QED BY <2>2, OrderedHasTop
<1>3. /\ w \in Seq(N) /\ w # << >> /\ Len(w) <= Cardinality(N)
      /\ w[1] = Max(Tops(v, s)) /\ Linked(v, s, w) /\ Stops(v, s, w[Len(w)])
      /\ N \in SUBSET Nat /\ IsFiniteSet(N)
  BY <1>2, WalkFacts, StackPullsFinite DEF GoodTable, GoodRows
<1>4. Len(w) \in Nat /\ Len(w) >= 1 /\ \A a \in 1..Len(w) : w[a] \in N
  <2> HIDE DEF w, N
  <2> QED BY <1>3
<1>5. w[1] \in Tops(v, s)
  <2>1. Tops(v, s) \in SUBSET Nat /\ IsFiniteSet(Tops(v, s))
    BY <1>3, FS_Subset DEF Tops
  <2> QED BY <1>2, <1>3, <2>1, MaxOf DEF HasTop
<1>6. ASSUME NEW i \in N
      PROVE  /\ place(i) \in 1..m /\ v[i].change = cs[place(i)]
             /\ v[i].parent = IF place(i) = 1 THEN Null ELSE cs[place(i) - 1]
             /\ Stops(v, s, i) <=> place(i) = 1
  <2>1. place(i) \in 1..m /\ v[i].change = cs[place(i)]
    BY PlaceInFacts
  <2>2. v[i].parent = IF place(i) = 1 THEN Null ELSE cs[place(i) - 1]
    BY DEF ParentIn
  <2>3. CASE place(i) = 1
    BY <2>1, <2>2, <2>3 DEF Stops
  <2>4. CASE place(i) # 1
    <3>1. place(i) - 1 \in 1..m
      BY <1>1, <2>1, <2>4
    <3>2. v[i].parent # Null /\ v[i].parent \in Elems(cs)
      BY <1>1, <2>2, <2>4, <3>1
    <3>3. ByChange(v, s, v[i].parent) # {}
      BY <3>2 DEF ByChange
    <3> QED BY <2>1, <2>2, <2>4, <3>2, <3>3 DEF Stops
  <2> QED BY <2>3, <2>4
<1> HIDE DEF w
<1>7. place(w[1]) = m
  <2> DEFINE k == place(w[1])
  <2>1. w[1] \in N /\ k \in 1..m /\ v[w[1]].change = cs[k]
    BY <1>5, <1>6 DEF Tops
  <2> SUFFICES ASSUME k # m PROVE FALSE
    OBVIOUS
  <2>2. k + 1 \in 1..m
    BY <1>1, <2>1
  <2>3. PICK j \in N : v[j].change = cs[k + 1]
    BY <1>1, <2>2
  <2>4. place(j) = k + 1
    BY <2>2, <2>3, PlaceInFacts
  <2>5. v[j].parent = cs[k]
    <3>1. place(j) # 1 /\ place(j) - 1 = k
      <4> HIDE DEF k, place
      <4> QED BY <2>1, <2>4
    <3> QED BY <1>6, <3>1
  <2> QED BY <1>5, <2>1, <2>5 DEF Tops
<1>8. ASSUME NEW a \in 1..Len(w), a < Len(w)
      PROVE  a + 1 \in 1..Len(w) /\ place(w[a + 1]) = place(w[a]) - 1
  <2> DEFINE k == place(w[a])
             B == ByChange(v, s, v[w[a]].parent)
  <2>1. a \in 1..Len(w) - 1 /\ a + 1 \in 1..Len(w)
    BY <1>4, <1>8
  <2>2. w[a + 1] = Min(B) /\ B # {} /\ ~ Stops(v, s, w[a])
    BY <1>3, <2>1 DEF Linked, Stops
  <2>3. w[a + 1] \in B
    <3>1. B \in SUBSET Nat
      BY <1>3 DEF ByChange
    <3> HIDE DEF B
    <3> QED BY <2>2, <3>1, MinOf
  <2>4. k \in 1..m /\ k # 1 /\ v[w[a]].parent = cs[k - 1]
    BY <1>4, <1>6, <2>2
  <2>5. v[w[a + 1]].change = cs[k - 1]
    BY <2>3, <2>4 DEF ByChange
  <2>6. k - 1 \in 1..m
    <3> HIDE DEF k
    <3> QED BY <1>1, <2>4
  <2>7. PlaceIn(cs, cs[k - 1]) = k - 1
    <3> HIDE DEF k
    <3> QED BY <2>6, PlaceInFacts
  <2> QED BY <2>1, <2>5, <2>7
<1> DEFINE A == {a \in 1..Len(w) : place(w[a]) = m - a + 1}
<1>9. 1..Len(w) \subseteq A
  <2>1. 1 \in A
    BY <1>1, <1>4, <1>7
  <2>2. ASSUME NEW a \in 1..Len(w), a \in A, a < Len(w) PROVE a + 1 \in A
    <3>1. a + 1 \in 1..Len(w) /\ place(w[a + 1]) = place(w[a]) - 1 /\ place(w[a]) = m - a + 1
      BY <1>8, <2>2
    <3> HIDE DEF place
    <3> QED BY <1>1, <3>1
  <2> HIDE DEF A
  <2> QED BY <1>4, <2>1, <2>2, IntervalInduction
<1>10. Len(w) = m /\ v[w[Len(w)]].parent = Null
  <2>1. Len(w) \in 1..Len(w) /\ place(w[Len(w)]) = m - Len(w) + 1
    BY <1>4, <1>9
  <2>2. w[Len(w)] \in N
    BY <1>4, <2>1
  <2>3. place(w[Len(w)]) = 1 /\ v[w[Len(w)]].parent = Null
    BY <1>3, <1>6, <2>2
  <2> HIDE DEF place
  <2> QED BY <1>1, <1>4, <2>1, <2>3
<1>11. ASSUME NEW i \in N PROVE i \in Elems(w)
  <2> DEFINE k == place(i)
             a == m - k + 1
  <2>1. k \in 1..m /\ v[i].change = cs[k]
    BY <1>6
  <2> HIDE DEF k
  <2>2. a \in 1..Len(w) /\ m - a + 1 = k
    BY <1>1, <1>10, <2>1
  <2> HIDE DEF a
  <2>3. place(w[a]) = k /\ w[a] \in N
    BY <1>4, <1>9, <2>2
  <2>4. v[w[a]].change = cs[k]
    BY <1>6, <2>3
  <2> QED BY <2>1, <2>2, <2>3, <2>4 DEF Elems
<1>12. Elems(w) = N
  BY <1>4, <1>11 DEF Elems
<1> QED
  BY <1>2, <1>3, <1>10, <1>12 DEF Complete, WellFormed, Terminates, GetStack, w, N

(* Resubmitting a complete stack without merged pulls, from a snapshot     *)
(* that is the table: one pull of the stack is left for each patch.        *)
LEMMA ResubmitStackKeeps ==
  ASSUME TableInv, NEW q \in Req, NEW cs \in Patches, ResubmitStack(q, cs),
         req[q].snap = pulls, NEW s \in StackId, pulls[req[q].pull].stack = s,
         Complete(pulls, s), \A i \in StackPulls(pulls, s) : pulls[i].state # "merged"
  PROVE  Complete(pulls', s)
<1> DEFINE S == StackPulls(pulls, s)
           E == Elems(cs)
           ids == {pulls[k].change : k \in S}
           v == pulls'
           N == StackPulls(v, s)
           old == 1..Len(pulls)
<1>0. PICK n \in Nat : \E u : /\ Resubmitted(q, cs, n, u)
                              /\ pulls' = SetPullParentChangeId(u, cs)
  BY ResubmitStackTable
<1>1. PICK u : Resubmitted(q, cs, n, u) /\ pulls' = SetPullParentChangeId(u, cs)
  BY <1>0
<1>2. GoodTable(pulls) /\ Len(pulls) \in Nat /\ Elems(Walk(pulls, s)) = S
  BY GoodTableIsRows DEF TableInv, Complete, GetStack
<1>3. /\ GoodRows(u) /\ Len(u) = Len(pulls) + n
      /\ \A i \in old :
           /\ u[i].stack = pulls[i].stack /\ u[i].change = pulls[i].change
           /\ u[i].state = IF i \in S /\ pulls[i].state # "merged" /\ pulls[i].change \notin E
                           THEN "deleted" ELSE pulls[i].state
      /\ \A i \in 1..Len(u) : i > Len(pulls) =>
           /\ u[i].stack = s /\ u[i].state = "open" /\ u[i].change \in E \ ids
      /\ \A i, k \in 1..Len(u) : i > Len(pulls) /\ k > Len(pulls) /\ u[i].change = u[k].change => i = k
      /\ \A c \in E \ ids : \E i \in 1..Len(u) : i > Len(pulls) /\ u[i].change = c
  <2>1. Elems(Walk(req[q].snap, req[q].snap[req[q].pull].stack)) = S
        /\ req[q].snap[req[q].pull].stack = s
    BY <1>2
  <2> HIDE DEF S
  <2> QED BY ONLY <1>1, <2>1, req[q].snap = pulls DEF Resubmitted
<1>4. /\ Len(v) = Len(u)
      /\ \A i \in 1..Len(u) :
           /\ v[i].stack = u[i].stack /\ v[i].change = u[i].change /\ v[i].state = u[i].state
           /\ v[i].parent = IF u[i].change \in E THEN ParentIn(cs, PlaceIn(cs, u[i].change))
                            ELSE u[i].parent
  BY <1>1, <1>3, SetParentGood
<1>5. GoodTable(v)
  BY ResubmitStackTableInv DEF TableInv
<1>6. \A i \in 1..Len(u) : i \in old \/ i > Len(pulls)
  BY <1>2, <1>3
<1>7. old \subseteq 1..Len(u)
  BY <1>2, <1>3
<1> HIDE DEF v, E
<1>8. ASSUME NEW i \in N
      PROVE  /\ i \in 1..Len(u) /\ v[i].change \in E
             /\ i \in old => i \in S /\ v[i].change = pulls[i].change
  <2>1. i \in 1..Len(u) /\ v[i].stack = s /\ v[i].state # "deleted"
    BY <1>4 DEF StackPulls
  <2>2. CASE i \in old
    <3>1. pulls[i].stack = s /\ pulls[i].state # "deleted"
      BY <1>3, <1>4, <2>1, <2>2
    <3>2. i \in S
      BY <2>2, <3>1 DEF StackPulls
    <3>3. pulls[i].change \in E
      BY <1>3, <1>4, <2>1, <2>2, <3>2
    <3> QED BY <1>3, <1>4, <2>1, <2>2, <3>2, <3>3
  <2>3. CASE i > Len(pulls)
    <3>1. i \notin old
      BY <1>2, <2>3
    <3> QED BY <1>3, <1>4, <2>1, <2>3, <3>1
  <2> QED BY <1>6, <2>1, <2>2, <2>3
<1>9. \A i \in N : v[i].change \in E /\ v[i].parent = ParentIn(cs, PlaceIn(cs, v[i].change))
  BY <1>4, <1>8
<1>10. ASSUME NEW c \in E PROVE \E i \in N : v[i].change = c
  <2>1. CASE c \in ids
    <3>1. PICK i \in S : pulls[i].change = c
      BY <2>1
    <3>2. i \in old /\ pulls[i].stack = s /\ pulls[i].state # "deleted"
      BY DEF StackPulls
    <3>3. v[i].stack = s /\ v[i].state # "deleted" /\ v[i].change = c
      BY <1>3, <1>4, <1>7, <3>1, <3>2
    <3>4. i \in N
      BY <1>4, <1>7, <3>2, <3>3 DEF StackPulls
    <3> QED BY <3>3, <3>4
  <2>2. CASE c \notin ids
    <3>1. PICK i \in 1..Len(u) : i > Len(pulls) /\ u[i].change = c
      BY <1>3, <2>2
    <3>2. v[i].stack = s /\ v[i].state = "open" /\ v[i].change = c
      BY <1>3, <1>4, <3>1
    <3>3. i \in N
      BY <1>4, <3>2 DEF StackPulls
    <3> QED BY <3>2, <3>3
  <2> QED BY <2>1, <2>2
<1>11. ASSUME NEW i \in N, NEW j \in N, v[i].change = v[j].change PROVE i = j
  <2>1. ASSUME NEW k \in N, k > Len(pulls) PROVE v[k].change \notin ids
    BY <1>3, <1>4, <1>8, <2>1
  <2>2. ASSUME NEW k \in N, k \in old PROVE v[k].change \in ids
    BY <1>8, <2>2
  <2>3. CASE i \in old /\ j \in old
    <3>1. i \in S /\ j \in S /\ pulls[i].change = pulls[j].change
      BY <1>8, <1>11, <2>3
    <3> QED BY <1>2, <3>1, CompleteHasDistinctChanges
  <2>4. CASE i > Len(pulls) /\ j > Len(pulls)
    <3>1. i \in 1..Len(u) /\ j \in 1..Len(u) /\ u[i].change = u[j].change
      BY <1>4, <1>8, <1>11
    <3> QED BY <1>3, <2>4, <3>1
  <2>5. \A k \in N : k \in old \/ k > Len(pulls)
    BY <1>6, <1>8
  <2> QED BY <1>11, <2>1, <2>2, <2>3, <2>4, <2>5
<1>12. Complete(v, s)
  <2> HIDE DEF S, ids, old
  <2> QED BY <1>5, <1>9, <1>10, <1>11, PatchesAreComplete DEF E
<1> QED
  BY <1>12 DEF v

(* Only resubmissions submit something. *)
LEMMA SubmittedBy ==
  ASSUME TableInv, [Next]_vars, NEW q \in Req, Handle(q), req'[q].at = "idle", Submitted
  PROVE  ResubmitPull(q) \/ \E cs \in Patches : ResubmitStack(q, cs)
<1>1. req[q].at = "handler" /\ req' # req /\ DOMAIN req = Req /\ GoodRows(pulls)
  BY DEF Handle, TableInv, Snapshots, GoodTable
<1>2. ASSUME NEW p \in Req, NEW r, req' = [req EXCEPT ![p] = r] PROVE p = q
  BY <1>1, <1>2
<1>3. pulls' # pulls
  BY DEF Submitted
<1>4. ~ UNCHANGED vars
  BY <1>3 DEF vars
<1>5. ~ CreatePull /\ ~ \E s \in StackId, cs \in Patches : CreateStack(s, cs)
  BY <1>1 DEF CreatePull, CreateStack
<1>6. ASSUME NEW p \in Req
      PROVE  /\ ~ \E i \in 1..Len(pulls) : ResolvePull(p, i)
             /\ ~ Abandon(p) /\ ~ RepoMerge(p) /\ ~ MergeWithOptions(p)
  BY <1>3 DEF ResolvePull, Abandon, RepoMerge, MergeWithOptions
<1>7. ASSUME NEW p \in Req, ClosePull(p) \/ ReopenPull(p) \/ MergePull(p) PROVE FALSE
  <2>1. PICK state \in PullState : \E ids : pulls' = SetPullState(pulls, ids, state)
    BY <1>7 DEF ClosePull, ReopenPull, MergePull, PullState
  <2>2. PICK ids : pulls' = SetPullState(pulls, ids, state)
    BY <2>1
  <2>3. Len(pulls') = Len(pulls) /\ \A i \in 1..Len(pulls) : pulls'[i].rounds = pulls[i].rounds
    BY <1>1, <2>2, SetPullStateGood
  <2>4. Len(pulls) \in Nat
    BY <1>1 DEF GoodRows
  <2> QED BY <2>3, <2>4 DEF Submitted
<1>8. ASSUME NEW p \in Req, ResubmitPull(p) PROVE ResubmitPull(q)
  BY <1>2, <1>8 DEF ResubmitPull, Done
<1>9. ASSUME NEW p \in Req, NEW cs \in Patches, ResubmitStack(p, cs) PROVE ResubmitStack(q, cs)
  <2>1. Done(p)
    BY <1>9 DEF ResubmitStack
  <2> QED BY <1>2, <1>9, <2>1 DEF Done
<1> QED
  BY <1>4, <1>5, <1>6, <1>7, <1>8, <1>9 DEF Next

(* resubmitStackedPullHelper: from an up-to-date snapshot of a complete     *)
(* stack without merged pulls, GetStack finds every pull of the stack      *)
(* again.                                                                  *)
THEOREM ResubmissionsKeepStacks == Spec => ResubmitKeepsStack
<1>1. ASSUME TableInv, [Next]_vars, NEW q \in Req, NEW s \in StackId,
             Handle(q), req'[q].at = "idle", Submitted,
             req[q].snap = pulls, pulls[req[q].pull].stack = s, Complete(pulls, s),
             \A i \in StackPulls(pulls, s) : pulls[i].state # "merged"
      PROVE  Complete(pulls', s)
  <2>1. ~ ResubmitPull(q)
    BY <1>1, PullsAssumption DEF ResubmitPull, Stacked
  <2>2. PICK cs \in Patches : ResubmitStack(q, cs)
    BY <1>1, <2>1, SubmittedBy
  <2> QED BY <1>1, <2>2, ResubmitStackKeeps
<1>2. TableInv /\ [Next]_vars =>
        [\A q \in Req : \A s \in StackId :
           ( /\ Handle(q) /\ req'[q].at = "idle" /\ Submitted
             /\ req[q].snap = pulls /\ pulls[req[q].pull].stack = s
             /\ Complete(pulls, s)
             /\ \A i \in StackPulls(pulls, s) : pulls[i].state # "merged" )
           => Complete(pulls', s)]_vars
  BY <1>1
<1> QED
  BY <1>2, InitTableInv, NextTableInv, PTL DEF Spec, ResubmitKeepsStack

----------------------------------------------------------------------------
(***************************************************************************)
(* Labels: folds along a sequence.                                         *)
(***************************************************************************)

(* Induction from 0. *)
LEMMA UpToInduction ==
  ASSUME NEW n \in Nat, NEW S, 0 \in S,
         \A k \in 0..n : k \in S /\ k < n => k + 1 \in S
  PROVE  0..n \subseteq S
<1> SUFFICES ASSUME NEW j \in 0..n, j \notin S PROVE FALSE
  OBVIOUS
<1> DEFINE T == {k \in 0..n : k \notin S}
<1>1. T \in SUBSET Nat /\ T # {}
  OBVIOUS
<1>2. PICK m \in T : \A k \in T : m <= k
  BY <1>1, NatMin
<1>3. m - 1 \in 0..n /\ m - 1 < n /\ (m - 1) + 1 = m
  OBVIOUS
<1>4. m - 1 \in S
  BY <1>2, <1>3
<1> QED
  BY <1>3, <1>4

(* The function that a recursion along 1..n defines.                       *)
FoldsAlong(g, a, G, n) == g[0] = a /\ \A k \in 1..n : g[k] = G[k][g[k - 1]]

LEMMA FoldExists ==
  ASSUME NEW n \in Nat, NEW X, NEW a \in X, NEW G \in [1..n -> [X -> X]]
  PROVE  \E g \in [0..n -> X] : FoldsAlong(g, a, G, n)
<1> DEFINE Fold(g, m) == FoldsAlong(g, a, G, m)
           T == {m \in 0..n : \E g \in [0..m -> X] : Fold(g, m)}
<1>1. 0 \in T
  <2> DEFINE g == [k \in 0..0 |-> a]
  <2>1. g \in [0..0 -> X] /\ Fold(g, 0)
    BY DEF FoldsAlong
  <2> HIDE DEF g
  <2>2. \E h \in [0..0 -> X] : Fold(h, 0)
    BY <2>1
  <2> HIDE DEF Fold
  <2> QED BY <2>2
<1>2. ASSUME NEW m \in 0..n, m \in T, m < n PROVE m + 1 \in T
  <2>1. PICK g \in [0..m -> X] : Fold(g, m)
    BY <1>2
  <2>2. G[m + 1][g[m]] \in X
    <3>1. m + 1 \in 1..n /\ g[m] \in X
      BY <1>2
    <3> QED BY <3>1
  <2> DEFINE h == [k \in 0..(m + 1) |-> IF k = m + 1 THEN G[m + 1][g[m]] ELSE g[k]]
  <2>3. h \in [0..(m + 1) -> X]
    BY <2>2
  <2>4. h[0] = a
    BY <2>1 DEF FoldsAlong
  <2>5. ASSUME NEW k \in 1..(m + 1)
        PROVE  h[k] = G[k][h[k - 1]]
    <3>1. CASE k = m + 1
      <4>1. h[k] = G[m + 1][g[m]] /\ h[k - 1] = g[m]
        BY <3>1
      <4> QED BY <3>1, <4>1
    <3>2. CASE k # m + 1
      <4>1. k \in 1..m /\ h[k] = g[k] /\ h[k - 1] = g[k - 1]
        BY <3>2
      <4> HIDE DEF h
      <4> QED BY <2>1, <4>1 DEF FoldsAlong
    <3> QED BY <3>1, <3>2
  <2> HIDE DEF h
  <2>6. Fold(h, m + 1)
    BY <2>4, <2>5 DEF FoldsAlong
  <2>7. m + 1 \in 0..n
    BY <1>2
  <2> HIDE DEF Fold
  <2> QED BY <2>3, <2>6, <2>7
<1>3. 0..n \subseteq T
  <2> HIDE DEF T
  <2> QED BY <1>1, <1>2, UpToInduction
<1>4. n \in T
  BY <1>3
<1> QED BY <1>4

(***************************************************************************)
(* One operation.                                                          *)
(***************************************************************************)
Add(l, v) == [op |-> "add", key |-> l, val |-> v]

(* After o, label l does not have v unless it is added again.              *)
Kills(o, l, v) ==
  /\ o.key = l
  /\ IF o.op = "del" THEN o.val = v ELSE l \notin Multiple /\ o.val # v

(* A label that does not take several values has at most one.              *)
Single(s) == \A l \in Label \ Multiple : \A v, w \in s[l] : v = w

States == {s \in State : Single(s)}

LEMMA ApplyStep ==
  ASSUME NEW known, NEW s \in States, NEW o \in Op
  PROVE  LET t == ApplyLabelOp(known, s, o)
         IN  /\ t \in States
             /\ \A l \in Label \cap known, v \in Value :
                  v \in t[l] <=> o = Add(l, v) \/ (v \in s[l] /\ ~Kills(o, l, v))
             /\ \A l \in Label : l \notin known => t[l] = s[l]
<1> DEFINE t == ApplyLabelOp(known, s, o)
<1>0. /\ o.key \in Label /\ o.val \in Value /\ o.op \in {"add", "del"}
      /\ o = [op |-> o.op, key |-> o.key, val |-> o.val]
      /\ s \in [Label -> SUBSET Value]
      /\ \A l \in Label \ Multiple : \A v, w \in s[l] : v = w
  BY DEF Op, States, State, Single
<1>1. CASE o.key \notin known
  <2>1. t = s
    BY <1>1 DEF ApplyLabelOp
  <2> QED BY <1>0, <1>1, <2>1 DEF Kills, Add
<1>2. CASE o.key \in known /\ o.op = "add" /\ o.val \in s[o.key]
  <2>1. t = s
    BY <1>2 DEF ApplyLabelOp
  <2>2. ASSUME NEW l \in Label, NEW v \in Value
        PROVE v \in s[l] <=> o = Add(l, v) \/ (v \in s[l] /\ ~Kills(o, l, v))
    <3>1. o = Add(l, v) <=> o.key = l /\ o.val = v
      BY <1>0, <1>2 DEF Add
    <3>2. Kills(o, l, v) <=> o.key = l /\ l \notin Multiple /\ o.val # v
      BY <1>2 DEF Kills
    <3> QED BY <1>0, <1>2, <3>1, <3>2
  <2> HIDE DEF t
  <2> QED BY <2>1, <2>2 DEF t
<1>3. CASE o.key \in known /\ o.op = "add" /\ o.val \notin s[o.key]
  <2>1. t = [s EXCEPT ![o.key] = IF o.key \in Multiple THEN @ \cup {o.val} ELSE {o.val}]
    BY <1>0, <1>3 DEF ApplyLabelOp
  <2>2. t \in State
    BY <1>0, <2>1 DEF State
  <2>3. \A l \in Label : t[l] = IF l # o.key THEN s[l] ELSE IF l \in Multiple THEN s[l] \cup {o.val} ELSE {o.val}
    BY <1>0, <2>1
  <2> HIDE DEF t
  <2>4. ASSUME NEW l \in Label \ Multiple PROVE \A v, w \in t[l] : v = w
    <3>1. \A v, w \in s[l] : v = w
      BY <1>0
    <3>2. CASE l = o.key
      BY <3>1, <3>2, <2>3
    <3>3. CASE l # o.key
      <4>1. t[l] = s[l]
        BY <3>3, <2>3
      <4> QED BY <3>1, <4>1
    <3> QED BY <3>2, <3>3
  <2>5. ASSUME NEW l \in Label, NEW v \in Value
        PROVE v \in t[l] <=> o = Add(l, v) \/ (v \in s[l] /\ ~Kills(o, l, v))
    <3>1. o = Add(l, v) <=> o.key = l /\ o.val = v
      BY <1>0, <1>3 DEF Add
    <3>2. Kills(o, l, v) <=> o.key = l /\ l \notin Multiple /\ o.val # v
      BY <1>3 DEF Kills
    <3>3. CASE l # o.key
      BY <3>1, <3>2, <3>3, <2>3
    <3>4. CASE l = o.key /\ l \in Multiple
      BY <3>1, <3>2, <3>4, <2>3
    <3>5. CASE l = o.key /\ l \notin Multiple
      BY <3>1, <3>2, <3>5, <2>3
    <3> QED BY <3>3, <3>4, <3>5
  <2> QED BY <1>3, <2>2, <2>3, <2>4, <2>5 DEF States, Single, t
<1>4. CASE o.key \in known /\ o.op = "del"
  <2>1. t = [s EXCEPT ![o.key] = @ \ {o.val}]
    BY <1>0, <1>4 DEF ApplyLabelOp
  <2>2. t \in State
    BY <1>0, <2>1 DEF State
  <2>3. \A l \in Label : t[l] = IF l # o.key THEN s[l] ELSE s[l] \ {o.val}
    BY <1>0, <2>1
  <2> HIDE DEF t
  <2>4. ASSUME NEW l \in Label \ Multiple PROVE \A v, w \in t[l] : v = w
    <3>1. \A v, w \in s[l] : v = w
      BY <1>0
    <3>2. CASE l = o.key
      BY <3>1, <3>2, <2>3
    <3>3. CASE l # o.key
      <4>1. t[l] = s[l]
        BY <3>3, <2>3
      <4> QED BY <3>1, <4>1
    <3> QED BY <3>2, <3>3
  <2>5. ASSUME NEW l \in Label, NEW v \in Value
        PROVE v \in t[l] <=> o = Add(l, v) \/ (v \in s[l] /\ ~Kills(o, l, v))
    <3>1. o # Add(l, v)
      BY <1>0, <1>4 DEF Add
    <3>2. Kills(o, l, v) <=> o.key = l /\ o.val = v
      BY <1>4 DEF Kills
    <3>3. t[l] = IF l # o.key THEN s[l] ELSE s[l] \ {o.val}
      BY <2>3
    <3> HIDE DEF t
    <3> QED BY ONLY <3>1, <3>2, <3>3
  <2> QED BY <1>4, <2>2, <2>3, <2>4, <2>5 DEF States, Single, t
<1> QED BY <1>0, <1>1, <1>2, <1>3, <1>4

(***************************************************************************)
(* All operations.                                                         *)
(***************************************************************************)
ApplyRun(known, s, ops) ==
  CHOOSE at : at = [k \in 0..Len(ops) |->
                      IF k = 0 THEN s ELSE ApplyLabelOp(known, at[k - 1], ops[k])]

(* ApplyLabelOps goes through a sequence of states.                        *)
LEMMA ApplyAllSteps ==
  ASSUME NEW known, NEW s \in States, NEW ops \in Seq(Op)
  PROVE  \E g \in [0..Len(ops) -> States] :
           /\ g[0] = s /\ \A k \in 1..Len(ops) : g[k] = ApplyLabelOp(known, g[k - 1], ops[k])
           /\ ApplyAll(known, s, ops) = g[Len(ops)]
<1> DEFINE n == Len(ops)
           G == [k \in 1..n |-> [x \in States |-> ApplyLabelOp(known, x, ops[k])]]
           c == ApplyRun(known, s, ops)
<1>1. n \in Nat /\ \A k \in 1..n : ops[k] \in Op
  OBVIOUS
<1>2. G \in [1..n -> [States -> States]]
  <2>1. ASSUME NEW k \in 1..n, NEW x \in States PROVE ApplyLabelOp(known, x, ops[k]) \in States
    BY <1>1, ApplyStep
  <2> QED BY <2>1
<1>3. \A k \in 1..n, x \in States : G[k][x] = ApplyLabelOp(known, x, ops[k])
  OBVIOUS
<1> HIDE DEF G, n
<1>4. PICK g \in [0..n -> States] : FoldsAlong(g, s, G, n)
  BY <1>1, <1>2, FoldExists
<1>f. g[0] = s /\ \A k \in 1..n : g[k] = G[k][g[k - 1]]
  BY <1>4 DEF FoldsAlong
<1>5. \A k \in 1..n : g[k] = ApplyLabelOp(known, g[k - 1], ops[k])
  <2> SUFFICES ASSUME NEW k \in 1..n PROVE g[k] = ApplyLabelOp(known, g[k - 1], ops[k])
    OBVIOUS
  <2>1. k - 1 \in 0..n
    BY <1>1
  <2> QED BY <2>1, <1>3, <1>f
<1>6. g = [k \in 0..n |-> IF k = 0 THEN s ELSE ApplyLabelOp(known, g[k - 1], ops[k])]
  <2>1. \A k \in 0..n : g[k] = IF k = 0 THEN s ELSE ApplyLabelOp(known, g[k - 1], ops[k])
    BY <1>1, <1>f, <1>5
  <2> QED BY <2>1, <1>4
<1>7. c = [k \in 0..n |-> IF k = 0 THEN s ELSE ApplyLabelOp(known, c[k - 1], ops[k])]
  BY <1>6 DEF ApplyRun, n
<1> HIDE DEF c
<1>8. 0..n \subseteq {k \in 0..n : c[k] = g[k]}
  <2> DEFINE S == {k \in 0..n : c[k] = g[k]}
  <2>1. 0 \in S
    BY <1>1, <1>f, <1>7
  <2>2. ASSUME NEW k \in 0..n, k \in S, k < n PROVE k + 1 \in S
    <3>1. k + 1 \in 1..n /\ k + 1 \in 0..n /\ k + 1 # 0 /\ (k + 1) - 1 = k
      BY <1>1, <2>2
    <3>2. c[k + 1] = ApplyLabelOp(known, c[k], ops[k + 1])
      BY <1>7, <3>1
    <3>3. g[k + 1] = ApplyLabelOp(known, g[k], ops[k + 1])
      BY <1>5, <3>1
    <3> QED BY <2>2, <3>1, <3>2, <3>3
  <2> HIDE DEF S
  <2>3. 0..n \subseteq S
    BY <1>1, <2>1, <2>2, UpToInduction
  <2> QED BY <2>3 DEF S
<1>9. ApplyAll(known, s, ops) = c[n]
  BY DEF ApplyAll, ApplyRun, c, n
<1>10. ApplyAll(known, s, ops) = g[n]
  <2>1. n \in 0..n
    BY <1>1
  <2> QED BY <2>1, <1>8, <1>9
<1>11. \E h \in [0..n -> States] :
         /\ h[0] = s /\ \A k \in 1..n : h[k] = ApplyLabelOp(known, h[k - 1], ops[k])
         /\ ApplyAll(known, s, ops) = h[n]
  BY <1>f, <1>5, <1>10
<1> QED BY <1>11 DEF n

(* Label l has v after ops: from the start or by an addition, and nothing  *)
(* has undone it.                                                          *)
Lasts(s, ops, l, v) ==
  \/ v \in s[l] /\ \A j \in 1..Len(ops) : ~Kills(ops[j], l, v)
  \/ \E i \in 1..Len(ops) :
       ops[i] = Add(l, v) /\ \A j \in (i + 1)..Len(ops) : ~Kills(ops[j], l, v)

LEMMA ApplyAllHolds ==
  ASSUME NEW known, NEW s \in States, NEW ops \in Seq(Op)
  PROVE  LET t == ApplyAll(known, s, ops)
         IN  /\ t \in States
             /\ \A l \in Label \cap known, v \in Value : v \in t[l] <=> Lasts(s, ops, l, v)
             /\ \A l \in Label \ known, v \in Value : v \in t[l] <=> v \in s[l]
<1> DEFINE n == Len(ops)
           Holds(k, l, v) ==
             \/ v \in s[l] /\ \A j \in 1..k : ~Kills(ops[j], l, v)
             \/ \E i \in 1..k : ops[i] = Add(l, v) /\ \A j \in (i + 1)..k : ~Kills(ops[j], l, v)
<1>1. n \in Nat /\ \A k \in 1..n : ops[k] \in Op
  OBVIOUS
<1> HIDE DEF n
<1>2. PICK g \in [0..n -> States] :
        /\ g[0] = s /\ \A k \in 1..n : g[k] = ApplyLabelOp(known, g[k - 1], ops[k])
        /\ ApplyAll(known, s, ops) = g[n]
  BY ApplyAllSteps DEF n
<1> DEFINE S == {k \in 0..n : /\ \A l \in Label \cap known, v \in Value : v \in g[k][l] <=> Holds(k, l, v)
                              /\ \A l \in Label : l \notin known => g[k][l] = s[l]}
<1>3. 0 \in S
  BY <1>1, <1>2
<1>4. ASSUME NEW k \in 0..n, k \in S, k < n PROVE k + 1 \in S
  <2>1. k + 1 \in 1..n /\ k + 1 \in 0..n /\ (k + 1) - 1 = k
    BY <1>1, <1>4
  <2>2. g[k] \in States /\ ops[k + 1] \in Op /\ g[k + 1] = ApplyLabelOp(known, g[k], ops[k + 1])
    BY <1>1, <1>2, <2>1
  <2>3. /\ \A l \in Label \cap known, v \in Value :
             v \in g[k + 1][l] <=>
               ops[k + 1] = Add(l, v) \/ (v \in g[k][l] /\ ~Kills(ops[k + 1], l, v))
        /\ \A l \in Label : l \notin known => g[k + 1][l] = g[k][l]
    <3> DEFINE x == g[k]
               o == ops[k + 1]
    <3>1. x \in States /\ o \in Op /\ g[k + 1] = ApplyLabelOp(known, x, o)
      BY <2>2
    <3> HIDE DEF x, o
    <3>2. /\ \A l \in Label \cap known, v \in Value :
               v \in g[k + 1][l] <=> o = Add(l, v) \/ (v \in x[l] /\ ~Kills(o, l, v))
          /\ \A l \in Label : l \notin known => g[k + 1][l] = x[l]
      BY <3>1, ApplyStep
    <3> QED BY <3>2 DEF x, o
  <2>4. ASSUME NEW l \in Label \cap known, NEW v \in Value
        PROVE  v \in g[k + 1][l] <=> Holds(k + 1, l, v)
    <3>0. ops[k + 1] = Add(l, v) => ~Kills(ops[k + 1], l, v)
      BY DEF Add, Kills
    <3>1. v \in g[k][l] <=> Holds(k, l, v)
      BY <1>4
    <3>2. v \in g[k + 1][l] <=> ops[k + 1] = Add(l, v) \/ (Holds(k, l, v) /\ ~Kills(ops[k + 1], l, v))
      BY <2>3, <3>1
    <3> HIDE DEF S
    <3>3. 1..(k + 1) = (1..k) \cup {k + 1} /\ (k + 2)..(k + 1) = {}
          /\ \A i \in 1..k : (i + 1)..(k + 1) = ((i + 1)..k) \cup {k + 1}
      OBVIOUS
    <3>4. Holds(k + 1, l, v) <=>
            \/ (v \in s[l] /\ \A j \in 1..k : ~Kills(ops[j], l, v)) /\ ~Kills(ops[k + 1], l, v)
            \/ ops[k + 1] = Add(l, v)
            \/ (\E i \in 1..k : ops[i] = Add(l, v) /\ \A j \in (i + 1)..k : ~Kills(ops[j], l, v))
                 /\ ~Kills(ops[k + 1], l, v)
      <4>1. (v \in s[l] /\ \A j \in 1..(k + 1) : ~Kills(ops[j], l, v)) <=>
              (v \in s[l] /\ \A j \in 1..k : ~Kills(ops[j], l, v)) /\ ~Kills(ops[k + 1], l, v)
        BY <3>3
      <4>2. \A i \in 1..k :
              (ops[i] = Add(l, v) /\ \A j \in (i + 1)..(k + 1) : ~Kills(ops[j], l, v)) <=>
              (ops[i] = Add(l, v) /\ \A j \in (i + 1)..k : ~Kills(ops[j], l, v)) /\ ~Kills(ops[k + 1], l, v)
        BY <3>3
      <4>3. (\E i \in 1..(k + 1) : ops[i] = Add(l, v) /\ \A j \in (i + 1)..(k + 1) : ~Kills(ops[j], l, v))
            <=> \/ \E i \in 1..k : ops[i] = Add(l, v) /\ \A j \in (i + 1)..(k + 1) : ~Kills(ops[j], l, v)
                \/ ops[k + 1] = Add(l, v)
        <5>1. \A j \in ((k + 1) + 1)..(k + 1) : FALSE
          BY <1>1
        <5> QED BY <3>3, <5>1
      <4> QED BY <4>1, <4>2, <4>3
    <3> QED BY <3>0, <3>2, <3>4
  <2>5. \A l \in Label : l \notin known => g[k + 1][l] = s[l]
    BY <1>4, <2>3
  <2> HIDE DEF Holds
  <2> QED BY <2>1, <2>4, <2>5
<1>5. 0..n \subseteq S
  <2> HIDE DEF S
  <2> QED BY <1>1, <1>3, <1>4, UpToInduction
<1>6. n \in S /\ g[n] \in States
  BY <1>1, <1>2, <1>5
<1> QED BY <1>2, <1>6 DEF n, Lasts

(***************************************************************************)
(* What the pages show.                                                    *)
(***************************************************************************)

(* In a strict total order of 1..n each element has a rank of its own, and *)
(* each rank an element.                                                   *)
LEMMA RanksNumber ==
  ASSUME NEW n \in Nat, NEW R,
         \A i \in 1..n : <<i, i>> \notin R,
         \A i, j, k \in 1..n : <<i, j>> \in R /\ <<j, k>> \in R => <<i, k>> \in R,
         \A i, j \in 1..n : i = j \/ <<i, j>> \in R \/ <<j, i>> \in R
  PROVE  LET Place(i) == Cardinality({j \in 1..n : <<j, i>> \in R}) + 1
         IN  /\ \A i \in 1..n : Place(i) \in 1..n
             /\ \A i, j \in 1..n : <<i, j>> \in R <=> Place(i) < Place(j)
             /\ \A k \in 1..n : \E i \in 1..n : Place(i) = k
<1> DEFINE D == 1..n
           Lower(i) == {j \in D : <<j, i>> \in R}
           Place(i) == Cardinality(Lower(i)) + 1
<1>1. IsFiniteSet(D) /\ Cardinality(D) = n
  <2>1. 1 \in Int /\ n \in Int
    OBVIOUS
  <2>2. IsFiniteSet(1..n) /\ Cardinality(1..n) = IF 1 > n THEN 0 ELSE n - 1 + 1
    BY <2>1, FS_Interval
  <2> QED BY <2>1, <2>2
<1>2. /\ \A i \in D : <<i, i>> \notin R
      /\ \A i, j, k \in D : <<i, j>> \in R /\ <<j, k>> \in R => <<i, k>> \in R
      /\ \A i, j \in D : i = j \/ <<i, j>> \in R \/ <<j, i>> \in R
  OBVIOUS
<1>3. ASSUME NEW i \in D
      PROVE  IsFiniteSet(Lower(i)) /\ Cardinality(Lower(i)) \in Nat /\ Cardinality(Lower(i)) < n
  <2>1. Lower(i) \subseteq D /\ i \in D /\ i \notin Lower(i)
    BY <1>2
  <2> HIDE DEF Lower, D
  <2>2. IsFiniteSet(Lower(i)) /\ Cardinality(Lower(i)) <= n /\ (Cardinality(Lower(i)) = n => Lower(i) = D)
    BY <1>1, <2>1, FS_Subset
  <2>3. Cardinality(Lower(i)) \in Nat
    BY <2>2, FS_CardinalityType
  <2> QED BY <1>1, <2>1, <2>2, <2>3
<1>4. ASSUME NEW i \in D, NEW j \in D, <<i, j>> \in R PROVE Place(i) < Place(j)
  <2>1. Lower(i) \subseteq Lower(j) /\ i \in Lower(j) /\ i \notin Lower(i)
    BY <1>2, <1>4
  <2>2. IsFiniteSet(Lower(j)) /\ Cardinality(Lower(i)) \in Nat /\ Cardinality(Lower(j)) \in Nat
    BY <1>3
  <2> HIDE DEF Lower
  <2>3. Cardinality(Lower(i)) <= Cardinality(Lower(j))
        /\ (Cardinality(Lower(i)) = Cardinality(Lower(j)) => Lower(i) = Lower(j))
    BY <2>1, <2>2, FS_Subset
  <2> QED BY <2>1, <2>2, <2>3
<1>5. \A i \in D : Place(i) \in D
  <2> SUFFICES ASSUME NEW i \in D PROVE Place(i) \in D
    OBVIOUS
  <2>1. Cardinality(Lower(i)) \in Nat /\ Cardinality(Lower(i)) < n
    BY <1>3
  <2> HIDE DEF Lower
  <2> QED BY <2>1
<1>6. ASSUME NEW i \in D, NEW j \in D PROVE <<i, j>> \in R <=> Place(i) < Place(j)
  <2>1. Place(i) \in Nat /\ Place(j) \in Nat
    BY <1>5
  <2>2. /\ <<i, j>> \in R => Place(i) < Place(j)
        /\ <<j, i>> \in R => Place(j) < Place(i)
    BY <1>4
  <2>3. i = j \/ <<i, j>> \in R \/ <<j, i>> \in R
    BY <1>2
  <2> HIDE DEF Place
  <2> QED BY <2>1, <2>2, <2>3
<1>7. \A k \in D : \E i \in D : Place(i) = k
  <2> DEFINE f == [i \in D |-> Place(i)]
  <2>1. f \in [D -> D]
    BY <1>5
  <2>2. ASSUME NEW i \in D, NEW j \in D, f[i] = f[j] PROVE i = j
    <3>1. Place(i) = Place(j) /\ Place(i) \in Nat
      BY <1>5, <2>2
    <3>2. <<i, j>> \notin R /\ <<j, i>> \notin R
      <4> HIDE DEF Place
      <4> QED BY <1>6, <3>1
    <3> QED BY <1>2, <3>2
  <2> HIDE DEF f
  <2>3. f \in Injection(D, D)
    BY <2>1, <2>2 DEF Injection, IsInjective
  <2>4. f \in Surjection(D, D)
    <3> HIDE DEF D
    <3> QED BY <1>1, <2>3, FS_Injection
  <2>5. \A k \in D : \E i \in D : f[i] = k
    BY <2>4 DEF Surjection
  <2> QED BY <2>5 DEF f
<1> QED BY <1>5, <1>6, <1>7

RowShape == [rkey : Nat, op : Op, performed : Nat, indexed : Nat]

Rows_ == 1..Len(table)

(* The order of the rows is strict and total.                              *)
LEMMA BeforeOrders ==
  ASSUME table \in Seq(RowShape)
  PROVE  /\ \A i \in Rows_ : ~Before(i, i)
         /\ \A i, j, k \in Rows_ : Before(i, j) /\ Before(j, k) => Before(i, k)
         /\ \A i, j \in Rows_ : i = j \/ Before(i, j) \/ Before(j, i)
<1>1. \A i \in Rows_ : SortAt(table[i]) \in Nat /\ table[i].indexed \in Nat /\ i \in Nat
  <2> SUFFICES ASSUME NEW i \in Rows_
               PROVE  SortAt(table[i]) \in Nat /\ table[i].indexed \in Nat /\ i \in Nat
    OBVIOUS
  <2>1. i \in 1..Len(table) /\ table[i] \in RowShape
    BY DEF Rows_
  <2>2. table[i].performed \in Nat /\ table[i].indexed \in Nat
    BY <2>1 DEF RowShape
  <2> QED BY <2>1, <2>2 DEF SortAt
<1> QED BY <1>1 DEF Before

Rank_(i) == Cardinality({j \in Rows_ : Before(j, i)}) + 1

(* So each row has a rank of its own, and each rank a row.                 *)
LEMMA RanksOrder ==
  ASSUME table \in Seq(RowShape)
  PROVE  /\ \A i \in Rows_ : Rank_(i) \in Rows_
         /\ \A i, j \in Rows_ : Before(i, j) <=> Rank_(i) < Rank_(j)
         /\ \A k \in Rows_ : \E i \in Rows_ : Rank_(i) = k
<1> DEFINE n == Len(table)
           R == {p \in Rows_ \X Rows_ : Before(p[1], p[2])}
           Place(i) == Cardinality({j \in 1..n : <<j, i>> \in R}) + 1
<1>1. n \in Nat /\ Rows_ = 1..n
  BY DEF Rows_
<1>2. \A i, j \in 1..n : <<i, j>> \in R <=> Before(i, j)
  BY <1>1
<1> HIDE DEF R, n
<1>3. /\ \A i \in 1..n : <<i, i>> \notin R
      /\ \A i, j, k \in 1..n : <<i, j>> \in R /\ <<j, k>> \in R => <<i, k>> \in R
      /\ \A i, j \in 1..n : i = j \/ <<i, j>> \in R \/ <<j, i>> \in R
  BY <1>1, <1>2, BeforeOrders
<1>4. /\ \A i \in 1..n : Place(i) \in 1..n
      /\ \A i, j \in 1..n : <<i, j>> \in R <=> Place(i) < Place(j)
      /\ \A k \in 1..n : \E i \in 1..n : Place(i) = k
  BY <1>1, <1>3, RanksNumber
<1>5. \A i \in 1..n : Place(i) = Rank_(i)
  <2> SUFFICES ASSUME NEW i \in 1..n PROVE Place(i) = Rank_(i)
    OBVIOUS
  <2>1. {j \in 1..n : <<j, i>> \in R} = {j \in Rows_ : Before(j, i)}
    BY <1>1, <1>2
  <2> QED BY <2>1 DEF Rank_
<1> HIDE DEF Place
<1> QED BY <1>1, <1>2, <1>4, <1>5

(* What is shown: an addition that no later operation undoes.              *)
Stands(i, l, v) ==
  table[i].op = Add(l, v) /\ \A j \in Rows_ : Before(i, j) => ~Kills(table[j].op, l, v)

LEMMA EmptyIsState == Empty \in States
  BY DEF Empty, States, State, Single

LEMMA ShownHolds ==
  ASSUME table \in Seq(RowShape), NEW known
  PROVE  LET t == ApplyLabelOps(known)
         IN  /\ t \in States
             /\ \A l \in Label \cap known, v \in Value :
                  v \in t[l] <=> \E i \in Rows_ : Stands(i, l, v)
             /\ \A l \in Label \ known, v \in Value : v \notin t[l]
<1> DEFINE n == Len(table)
           Nth(k) == CHOOSE i \in Rows_ : Rank_(i) = k
           ops == [k \in 1..n |-> table[Nth(k)].op]
           t == ApplyAll(known, Empty, ops)
<1>1. ApplyLabelOps(known) = t
  BY DEF ApplyLabelOps, Rows_, Rank_
<1>2. /\ \A i \in Rows_ : Rank_(i) \in Rows_
      /\ \A i, j \in Rows_ : Before(i, j) <=> Rank_(i) < Rank_(j)
      /\ \A k \in Rows_ : \E i \in Rows_ : Rank_(i) = k
  BY RanksOrder
<1>3. \A i, j \in Rows_ : Rank_(i) = Rank_(j) => i = j
  <2>1. \A i \in Rows_ : Rank_(i) \in Nat
    BY <1>2 DEF Rows_
  <2> QED BY <1>2, <2>1, BeforeOrders
<1>4. \A k \in Rows_ : Nth(k) \in Rows_ /\ Rank_(Nth(k)) = k
  BY <1>2
<1> HIDE DEF Nth
<1>5. \A i \in Rows_ : Nth(Rank_(i)) = i
  BY <1>2, <1>3, <1>4
<1>6. n \in Nat /\ ops \in Seq(Op) /\ Len(ops) = n /\ \A k \in Rows_ : ops[k] = table[Nth(k)].op
  <2>1. \A k \in 1..n : table[Nth(k)].op \in Op
    <3> SUFFICES ASSUME NEW k \in 1..n PROVE table[Nth(k)].op \in Op
      OBVIOUS
    <3>1. Nth(k) \in 1..Len(table)
      BY <1>4 DEF Rows_
    <3>2. table[Nth(k)] \in RowShape
      BY <3>1
    <3> QED BY <3>2 DEF RowShape
  <2> QED BY <2>1 DEF Rows_
<1> HIDE DEF ops, n
<1>7. /\ t \in States
      /\ \A l \in Label \cap known, v \in Value :
           v \in t[l] <=> Lasts(Empty, ops, l, v)
      /\ \A l \in Label \ known, v \in Value : v \notin t[l]
  <2> DEFINE e == Empty
  <2>1. e \in States /\ ops \in Seq(Op)
    BY <1>6, EmptyIsState
  <2> HIDE DEF e
  <2>2. ApplyAll(known, e, ops) \in States
    BY <2>1, ApplyAllHolds
  <2>3. \A l \in Label \cap known, v \in Value :
          v \in ApplyAll(known, e, ops)[l] <=> Lasts(e, ops, l, v)
    BY <2>1, ApplyAllHolds
  <2>4. \A l \in Label \ known, v \in Value : v \in ApplyAll(known, e, ops)[l] <=> v \in e[l]
    BY <2>1, ApplyAllHolds
  <2>5. \A l \in Label, v \in Value : v \notin e[l]
    BY DEF e, Empty
  <2> QED BY <2>2, <2>3, <2>4, <2>5 DEF e
<1> HIDE DEF t
<1>8. ASSUME NEW l \in Label \cap known, NEW v \in Value
      PROVE  v \in t[l] <=> \E i \in Rows_ : Stands(i, l, v)
  <2>1. v \in t[l] <=> \E k \in Rows_ : ops[k] = Add(l, v) /\ \A m \in (k + 1)..n : ~Kills(ops[m], l, v)
    <3>1. v \notin Empty[l] /\ Len(ops) = n /\ 1..Len(ops) = Rows_
      BY <1>6 DEF Empty, Rows_, n
    <3>2. v \in t[l] <=> Lasts(Empty, ops, l, v)
      BY <1>7
    <3> QED BY <3>1, <3>2 DEF Lasts
  <2>2. ASSUME NEW k \in Rows_, ops[k] = Add(l, v), \A m \in (k + 1)..n : ~Kills(ops[m], l, v)
        PROVE  Stands(Nth(k), l, v)
    <3>1. Nth(k) \in Rows_ /\ table[Nth(k)].op = Add(l, v)
      BY <1>4, <1>6, <2>2
    <3>2. ASSUME NEW j \in Rows_, Before(Nth(k), j) PROVE ~Kills(table[j].op, l, v)
      <4>1. k < Rank_(j) /\ Rank_(j) \in Rows_
        BY <1>2, <1>4, <3>1, <3>2
      <4>2. Rank_(j) \in (k + 1)..n
        BY <1>6, <4>1 DEF Rows_, n
      <4>3. ops[Rank_(j)] = table[j].op
        BY <1>5, <1>6, <4>1
      <4> QED BY <2>2, <4>2, <4>3
    <3> QED BY <3>1, <3>2 DEF Stands
  <2>3. ASSUME NEW i \in Rows_, Stands(i, l, v)
        PROVE  /\ Rank_(i) \in Rows_ /\ ops[Rank_(i)] = Add(l, v)
               /\ \A m \in (Rank_(i) + 1)..n : ~Kills(ops[m], l, v)
    <3>1. Rank_(i) \in Rows_ /\ ops[Rank_(i)] = Add(l, v)
      BY <1>2, <1>5, <1>6, <2>3 DEF Stands
    <3>2. ASSUME NEW m \in (Rank_(i) + 1)..n PROVE ~Kills(ops[m], l, v)
      <4>1. m \in Rows_ /\ Rank_(i) < m
        BY <1>6, <3>1 DEF Rows_, n
      <4>2. Nth(m) \in Rows_ /\ Rank_(Nth(m)) = m /\ ops[m] = table[Nth(m)].op
        BY <1>4, <1>6, <4>1
      <4>3. Before(i, Nth(m))
        BY <1>2, <4>1, <4>2
      <4> QED BY <2>3, <4>2, <4>3 DEF Stands
    <3> QED BY <3>1, <3>2
  <2>4. \A k \in Rows_ : Nth(k) \in Rows_
    BY <1>4
  <2> QED BY <2>1, <2>2, <2>3, <2>4
<1> QED BY <1>1, <1>7, <1>8

(***************************************************************************)
(* Parts of a sequence.                                                    *)
(***************************************************************************)
Kept(q, K) ==
  CHOOSE at : at = [k \in 0..Len(q) |->
                      IF k = 0 THEN << >> ELSE IF k \in K THEN Append(at[k - 1], q[k]) ELSE at[k - 1]]

(* The elements of Keep are those at the positions.                        *)
LEMMA KeepHas ==
  ASSUME NEW S, NEW q \in Seq(S), NEW K
  PROVE  /\ Keep(q, K) \in Seq(S)
         /\ \A x : x \in Range(Keep(q, K)) <=> \E k \in 1..Len(q) : k \in K /\ q[k] = x
<1> DEFINE n == Len(q)
           X == Seq(S)
           Next_(k, x) == IF k \in K THEN Append(x, q[k]) ELSE x
           G == [k \in 1..n |-> [x \in X |-> Next_(k, x)]]
           c == Kept(q, K)
<1>1. n \in Nat /\ \A k \in 1..n : q[k] \in S
  OBVIOUS
<1>2. G \in [1..n -> [X -> X]]
  <2>1. ASSUME NEW k \in 1..n, NEW x \in X PROVE Next_(k, x) \in X
    BY <1>1
  <2> HIDE DEF Next_, X
  <2> QED BY <2>1
<1>3. \A k \in 1..n, x \in X : G[k][x] = Next_(k, x)
  OBVIOUS
<1>e. << >> \in X
  OBVIOUS
<1> HIDE DEF G, n, X
<1>4. PICK g \in [0..n -> X] : FoldsAlong(g, << >>, G, n)
  BY <1>1, <1>2, <1>e, FoldExists
<1>f. g[0] = << >> /\ \A k \in 1..n : g[k] = G[k][g[k - 1]]
  BY <1>4 DEF FoldsAlong
<1>5. \A k \in 1..n : g[k] = Next_(k, g[k - 1])
  <2> SUFFICES ASSUME NEW k \in 1..n PROVE g[k] = Next_(k, g[k - 1])
    OBVIOUS
  <2>1. k - 1 \in 0..n
    BY <1>1
  <2> HIDE DEF Next_
  <2> QED BY <2>1, <1>3, <1>f
<1>6. g = [k \in 0..n |-> IF k = 0 THEN << >> ELSE Next_(k, g[k - 1])]
  <2> HIDE DEF Next_
  <2>1. \A k \in 0..n : g[k] = IF k = 0 THEN << >> ELSE Next_(k, g[k - 1])
    BY <1>1, <1>f, <1>5
  <2> QED BY <2>1, <1>4
<1>7. c = [k \in 0..n |-> IF k = 0 THEN << >> ELSE Next_(k, c[k - 1])]
  BY <1>6 DEF Kept, n
<1>9. Keep(q, K) = c[n]
  BY DEF Keep, Kept, c, n
<1> HIDE DEF c
<1> DEFINE Has(k) == /\ c[k] \in Seq(S)
                     /\ \A x : x \in Range(c[k]) <=> \E i \in 1..k : i \in K /\ q[i] = x
           T == {k \in 0..n : Has(k)}
<1>8. 0 \in T
  <2>1. c[0] = << >>
    BY <1>1, <1>7
  <2>2. Range(<< >>) = {} /\ << >> \in Seq(S)
    BY DEF Range
  <2>3. Has(0)
    BY <2>1, <2>2
  <2> HIDE DEF Has
  <2> QED BY <1>1, <2>3
<1>10. ASSUME NEW k \in 0..n, k \in T, k < n PROVE k + 1 \in T
  <2>1. k + 1 \in 1..n /\ k + 1 \in 0..n /\ k + 1 # 0 /\ (k + 1) - 1 = k
    BY <1>1, <1>10
  <2>2. c[k + 1] = IF k + 1 \in K THEN Append(c[k], q[k + 1]) ELSE c[k]
    BY <1>7, <2>1
  <2>3. Has(k)
    BY <1>10
  <2>4. CASE k + 1 \in K
    <3> DEFINE b == c[k]
               d == c[k + 1]
               e == q[k + 1]
    <3>1. d = Append(b, e) /\ b \in Seq(S) /\ e \in S
      BY <1>1, <2>1, <2>2, <2>3, <2>4
    <3>h. \A x : x \in Range(b) <=> \E i \in 1..k : i \in K /\ q[i] = x
      BY <2>3
    <3> HIDE DEF b, d, T
    <3>2. d \in Seq(S) /\ Range(d) = Range(b) \cup {e}
      <4>1. /\ d \in Seq(S) /\ DOMAIN d = (DOMAIN b) \cup {Len(b) + 1}
            /\ \A i \in DOMAIN b : d[i] = b[i]
            /\ d[Len(b) + 1] = e
        BY ONLY <3>1
      <4> QED BY <4>1 DEF Range
    <3>3. 1..(k + 1) = (1..k) \cup {k + 1}
      BY <1>1
    <3>4. \A x : x \in Range(d) <=> \E i \in 1..(k + 1) : i \in K /\ q[i] = x
      <4> SUFFICES ASSUME NEW x PROVE x \in Range(d) <=> \E i \in 1..(k + 1) : i \in K /\ q[i] = x
        OBVIOUS
      <4>1. x \in Range(d) <=> (\E i \in 1..k : i \in K /\ q[i] = x) \/ x = q[k + 1]
        BY <3>2, <3>h DEF e
      <4>2. (\E i \in 1..(k + 1) : i \in K /\ q[i] = x)
            <=> (\E i \in 1..k : i \in K /\ q[i] = x) \/ (k + 1 \in K /\ q[k + 1] = x)
        BY <3>3
      <4> QED BY <4>1, <4>2, <2>4
    <3> QED BY <2>1, <3>2, <3>4 DEF d, T
  <2>5. CASE k + 1 \notin K
    <3>1. \A i : i \in 1..(k + 1) /\ i \in K <=> i \in 1..k /\ i \in K
      <4>1. 1..(k + 1) = (1..k) \cup {k + 1}
        BY <1>1
      <4> QED BY <4>1, <2>5
    <3>2. Has(k + 1)
      BY <2>2, <2>3, <2>5, <3>1
    <3> HIDE DEF Has
    <3> QED BY <2>1, <3>2
  <2> QED BY <2>4, <2>5
<1>11. 0..n \subseteq T
  <2> HIDE DEF T
  <2> QED BY <1>1, <1>8, <1>10, UpToInduction
<1>12. Has(n)
  <2> HIDE DEF Has
  <2> QED BY <1>1, <1>11
<1> QED BY <1>9, <1>12 DEF n

(* A set in any order.                                                     *)
LEMMA SetToSeqHas ==
  ASSUME NEW S, IsFiniteSet(S)
  PROVE  LET q == SetToSeq(S)
         IN  /\ q \in Seq(S) /\ Range(q) = S
             /\ \A i, j \in 1..Len(q) : q[i] = q[j] => i = j
<1> DEFINE n == Cardinality(S)
           q == SetToSeq(S)
<1>1. n \in Nat /\ IsFiniteSet(1..n) /\ Cardinality(1..n) = n
  <2>1. n \in Nat
    BY FS_CardinalityType
  <2> HIDE DEF n
  <2>2. IsFiniteSet(1..n) /\ Cardinality(1..n) = IF 1 > n THEN 0 ELSE n - 1 + 1
    BY <2>1, FS_Interval
  <2> QED BY <2>1, <2>2
<1>2. ExistsBijection(1..n, S)
  <2> HIDE DEF n
  <2>1. Cardinality(1..n) = Cardinality(S)
    BY <1>1 DEF n
  <2> QED BY <2>1, <1>1, FS_SameCardinalityBij
<1>3. PICK f \in [1..n -> S] : IsInjective(f)
  BY <1>2 DEF ExistsBijection, Bijection, Injection, IsInjective
<1>4. q \in [1..n -> S] /\ IsInjective(q)
  BY <1>3 DEF SetToSeq
<1> HIDE DEF q
<1>5. q \in Injection(1..n, S)
  BY <1>4 DEF Injection, IsInjective
<1>6. q \in Surjection(1..n, S)
  <2>1. Cardinality(1..n) = Cardinality(S)
    BY <1>1
  <2> HIDE DEF n
  <2> QED BY <1>5, <2>1, FS_Injection
<1>7. q \in Seq(S) /\ Len(q) = n /\ DOMAIN q = 1..n
  <2> HIDE DEF n
  <2> QED BY <1>1, <1>4
<1>8. Range(q) = S
  BY <1>6, <1>7 DEF Surjection, Range
<1>9. \A i, j \in 1..Len(q) : q[i] = q[j] => i = j
  BY <1>4, <1>7 DEF IsInjective
<1> QED BY <1>7, <1>8, <1>9 DEF q

(* A concatenation has the elements of both.                               *)
LEMMA ConcatHas ==
  ASSUME NEW S, NEW d \in Seq(S), NEW a \in Seq(S)
  PROVE  d \o a \in Seq(S) /\ Range(d \o a) = Range(d) \cup Range(a)
<1> DEFINE q == d \o a
<1>1. /\ q \in Seq(S) /\ Len(q) = Len(d) + Len(a)
      /\ Len(d) \in Nat /\ Len(a) \in Nat
      /\ \A i \in 1..Len(d) : q[i] = d[i]
      /\ \A i \in 1..Len(a) : q[Len(d) + i] = a[i]
  OBVIOUS
<1> HIDE DEF q
<1>2. \A i \in 1..Len(q) : i \in 1..Len(d) \/ (i - Len(d) \in 1..Len(a) /\ i = Len(d) + (i - Len(d)))
  BY ONLY <1>1
<1>3. /\ \A i \in 1..Len(d) : d[i] \in Range(d)
      /\ \A i \in 1..Len(a) : a[i] \in Range(a)
  BY DEF Range
<1>4. ASSUME NEW o \in Range(q) PROVE o \in Range(d) \/ o \in Range(a)
  <2>1. PICK i \in 1..Len(q) : q[i] = o
    BY <1>1 DEF Range
  <2>2. CASE i \in 1..Len(d)
    BY <1>1, <1>3, <2>1, <2>2
  <2>3. CASE i - Len(d) \in 1..Len(a) /\ i = Len(d) + (i - Len(d))
    BY <1>1, <1>3, <2>1, <2>3
  <2> QED BY <1>2, <2>2, <2>3
<1>5. ASSUME NEW o \in Range(d) PROVE o \in Range(q)
  <2>1. PICK i \in 1..Len(d) : d[i] = o
    BY DEF Range
  <2>2. i \in 1..Len(q) /\ q[i] = o
    BY <1>1, <2>1
  <2> QED BY <1>1, <2>2 DEF Range
<1>6. ASSUME NEW o \in Range(a) PROVE o \in Range(q)
  <2>1. PICK i \in 1..Len(a) : a[i] = o
    BY DEF Range
  <2>2. Len(d) + i \in 1..Len(q) /\ q[Len(d) + i] = o
    BY <1>1, <2>1
  <2> QED BY <1>1, <2>2 DEF Range
<1>7. Range(q) = Range(d) \cup Range(a)
  BY <1>4, <1>5, <1>6
<1> QED BY <1>1, <1>7 DEF q

(***************************************************************************)
(* The operations of a save.                                               *)
(***************************************************************************)
Del(l, v) == [op |-> "del", key |-> l, val |-> v]

Distinct(q) == \A i, j \in 1..Len(q) : q[i] = q[j] => i = j

LEMMA OpsHave ==
  ASSUME NEW op \in {"add", "del"}, NEW s \in State
  PROVE  /\ Ops(op, s) \in Seq(Op) /\ Distinct(Ops(op, s))
         /\ \A o : o \in Range(Ops(op, s)) <=>
                     \E l \in Label, v \in Value :
                       v \in s[l] /\ o = [op |-> op, key |-> l, val |-> v]
<1> DEFINE P == {q \in Label \X Value : q[2] \in s[q[1]]}
           S == {[op |-> op, key |-> p[1], val |-> p[2]] : p \in P}
<1>1. IsFiniteSet(S)
  <2>1. IsFiniteSet(Label \X Value)
    BY LabelsAssumption, FS_Product
  <2>2. P \subseteq Label \X Value
    OBVIOUS
  <2> HIDE DEF P
  <2>3. IsFiniteSet(P)
    BY <2>1, <2>2, FS_Subset
  <2> DEFINE f == [p \in P |-> [op |-> op, key |-> p[1], val |-> p[2]]]
  <2>4. f \in Surjection(P, S)
    BY DEF Surjection
  <2> HIDE DEF f, S
  <2> QED BY <2>3, <2>4, FS_Surjection
<1>2. S \subseteq Op
  BY DEF Op
<1>3. \A o : o \in S <=> \E l \in Label, v \in Value :
                           v \in s[l] /\ o = [op |-> op, key |-> l, val |-> v]
  <2>1. ASSUME NEW o \in S
        PROVE \E l \in Label, v \in Value : v \in s[l] /\ o = [op |-> op, key |-> l, val |-> v]
    OBVIOUS
  <2>2. ASSUME NEW l \in Label, NEW v \in Value, v \in s[l]
        PROVE [op |-> op, key |-> l, val |-> v] \in S
    <3>1. <<l, v>> \in P /\ <<l, v>>[1] = l /\ <<l, v>>[2] = v
      BY <2>2
    <3> HIDE DEF P
    <3> QED BY <3>1
  <2> QED BY <2>1, <2>2
<1>4. Ops(op, s) = SetToSeq(S)
  BY DEF Ops
<1> HIDE DEF S
<1> DEFINE q == SetToSeq(S)
<1>5. q \in Seq(S) /\ Range(q) = S /\ \A i, j \in 1..Len(q) : q[i] = q[j] => i = j
  BY <1>1, SetToSeqHas
<1> HIDE DEF q
<1>6. q \in Seq(Op)
  BY <1>2, <1>5
<1>7. Ops(op, s) = q
  BY <1>4 DEF q
<1> QED BY <1>3, <1>5, <1>6, <1>7 DEF Distinct

(* An operation has at most one inverse, to which it is the inverse.       *)
LEMMA InversesPair ==
  ASSUME NEW o \in Op, NEW p \in Op, NEW q \in Op, IsInverse(o, p)
  PROVE  /\ IsInverse(p, o) /\ o # p
         /\ IsInverse(o, q) => p = q
<1>1. /\ o.key = p.key /\ o.val = p.val /\ o.op # p.op
      /\ o.op \in {"add", "del"} /\ p.op \in {"add", "del"} /\ q.op \in {"add", "del"}
      /\ p = [op |-> p.op, key |-> p.key, val |-> p.val]
      /\ q = [op |-> q.op, key |-> q.key, val |-> q.val]
  BY DEF IsInverse, Op
<1> QED BY <1>1 DEF IsInverse

(* The choice of ReduceLabelOps.                                           *)
Reduced(ops) ==
  CHOOSE kept : kept = [i \in 0..Len(ops) |->
        IF i = 0 THEN 1..Len(ops)
        ELSE LET left == kept[i - 1]
                 js == {j \in left : j > i /\ IsInverse(ops[i], ops[j])}
             IN  IF i \notin left \/ js = {} THEN left
                 ELSE left \ {i, CHOOSE j \in js : \A k \in js : j <= k}]

(* What is left has no inverse among the operations.                       *)
LEMMA ReduceHas ==
  ASSUME NEW ops \in Seq(Op), Distinct(ops)
  PROVE  /\ ReduceLabelOps(ops) \in Seq(Op)
         /\ \A o : o \in Range(ReduceLabelOps(ops)) <=>
                     o \in Range(ops) /\ \A p \in Range(ops) : ~IsInverse(o, p)
<1> DEFINE n == Len(ops)
           X == SUBSET (1..n)
           Js(i, left) == {j \in left : j > i /\ IsInverse(ops[i], ops[j])}
           Next_(i, left) == IF i \notin left \/ Js(i, left) = {} THEN left
                             ELSE left \ {i, CHOOSE j \in Js(i, left) : \A k \in Js(i, left) : j <= k}
           G == [k \in 1..n |-> [x \in X |-> Next_(k, x)]]
           c == Reduced(ops)
<1>1. n \in Nat /\ \A k \in 1..n : ops[k] \in Op
  OBVIOUS
<1>2. G \in [1..n -> [X -> X]]
  <2>1. ASSUME NEW k \in 1..n, NEW x \in X PROVE Next_(k, x) \in X
    OBVIOUS
  <2> HIDE DEF Next_, X
  <2> QED BY <2>1
<1>3. \A k \in 1..n, x \in X : G[k][x] = Next_(k, x)
  <2> HIDE DEF Next_, X
  <2> QED OBVIOUS
<1>e. 1..n \in X
  OBVIOUS
<1>c. c = CHOOSE at : at = [k \in 0..n |-> IF k = 0 THEN 1..n ELSE Next_(k, at[k - 1])]
  BY DEF Reduced
<1>9. ReduceLabelOps(ops) = Keep(ops, c[n])
  BY DEF ReduceLabelOps, Reduced
<1> HIDE DEF G, n, X, c, Next_
<1>4. PICK g \in [0..n -> X] : FoldsAlong(g, 1..n, G, n)
  BY <1>1, <1>2, <1>e, FoldExists
<1>f. g[0] = 1..n /\ \A k \in 1..n : g[k] = G[k][g[k - 1]]
  BY <1>4 DEF FoldsAlong
<1>5. \A k \in 1..n : g[k] = Next_(k, g[k - 1])
  <2> SUFFICES ASSUME NEW k \in 1..n PROVE g[k] = Next_(k, g[k - 1])
    OBVIOUS
  <2>1. k - 1 \in 0..n
    BY <1>1
  <2> QED BY <2>1, <1>3, <1>f
<1>6. g = [k \in 0..n |-> IF k = 0 THEN 1..n ELSE Next_(k, g[k - 1])]
  <2>1. \A k \in 0..n : g[k] = IF k = 0 THEN 1..n ELSE Next_(k, g[k - 1])
    BY <1>1, <1>f, <1>5
  <2> QED BY <2>1, <1>4
<1>7. c = [k \in 0..n |-> IF k = 0 THEN 1..n ELSE Next_(k, c[k - 1])]
  BY <1>6, <1>c
<1> DEFINE Pair(a, b) == a \in 1..n /\ b \in 1..n /\ a < b /\ IsInverse(ops[a], ops[b])
           Gone(i, m) == \E a, b \in 1..n : a <= i /\ Pair(a, b) /\ m \in {a, b}
           T == {i \in 0..n : /\ c[i] \subseteq 1..n
                              /\ \A m \in 1..n : m \in c[i] <=> ~Gone(i, m)}
<1>u. \A a, b, d \in 1..n : IsInverse(ops[a], ops[b]) /\ IsInverse(ops[a], ops[d]) => b = d
  <2> SUFFICES ASSUME NEW a \in 1..n, NEW b \in 1..n, NEW d \in 1..n,
                      IsInverse(ops[a], ops[b]), IsInverse(ops[a], ops[d])
               PROVE  b = d
    OBVIOUS
  <2>1. ops[a] \in Op /\ ops[b] \in Op /\ ops[d] \in Op
    BY <1>1
  <2>2. ops[b] = ops[d]
    BY <2>1, InversesPair
  <2> QED BY <2>2 DEF Distinct, n
<1>s. \A a, b \in 1..n : IsInverse(ops[a], ops[b]) => IsInverse(ops[b], ops[a]) /\ a # b
  <2> SUFFICES ASSUME NEW a \in 1..n, NEW b \in 1..n, IsInverse(ops[a], ops[b])
               PROVE  IsInverse(ops[b], ops[a]) /\ a # b
    OBVIOUS
  <2>1. ops[a] \in Op /\ ops[b] \in Op
    BY <1>1
  <2> QED BY <2>1, InversesPair
<1>8. 0 \in T
  <2>1. c[0] = 1..n
    BY <1>1, <1>7
  <2>2. \A m \in 1..n : ~Gone(0, m)
    BY <1>1
  <2> QED BY <1>1, <2>1, <2>2
<1>10. ASSUME NEW k \in 0..n, k \in T, k < n PROVE k + 1 \in T
  <2> DEFINE i == k + 1
             left == c[k]
  <2>1. i \in 1..n /\ i \in 0..n /\ i # 0 /\ i - 1 = k
    BY <1>1, <1>10
  <2>2. c[i] = Next_(i, left)
    BY <1>7, <2>1
  <2>3. left \subseteq 1..n /\ \A m \in 1..n : m \in left <=> ~Gone(k, m)
    BY <1>10
  <2>4. \A m : Gone(i, m) <=> Gone(k, m) \/ \E b \in 1..n : Pair(i, b) /\ m \in {i, b}
    BY <1>1, <2>1
  <2>5. CASE \E b \in 1..n : Pair(i, b)
    <3>1. PICK b \in 1..n : Pair(i, b)
      BY <2>5
    <3>2. ~Gone(k, i) /\ ~Gone(k, b)
      <4>1. IsInverse(ops[i], ops[b]) /\ IsInverse(ops[b], ops[i]) /\ i < b /\ k < i
        BY <3>1, <1>1, <1>s, <2>1
      <4>2. ASSUME NEW a \in 1..n, NEW d \in 1..n, a <= k, Pair(a, d) PROVE i \notin {a, d} /\ b \notin {a, d}
        <5>1. IsInverse(ops[a], ops[d]) /\ IsInverse(ops[d], ops[a]) /\ a < d
          BY <4>2, <1>s
        <5>2. a # i /\ a # b
          BY <4>1, <4>2, <2>1
        <5>3. d # i
          BY <1>u, <4>1, <5>1, <5>2, <2>1
        <5>4. d # b
          BY <1>u, <4>1, <5>1, <5>2, <2>1
        <5> QED BY <5>2, <5>3, <5>4
      <4> QED BY <4>2
    <3>3. i \in left /\ b \in left
      BY <2>1, <2>3, <3>2
    <3>4. Js(i, left) = {b}
      <4>1. b \in Js(i, left)
        BY <3>1, <3>3
      <4>2. \A j \in Js(i, left) : j = b
        BY <1>u, <2>1, <2>3, <3>1
      <4> QED BY <4>1, <4>2
    <3>5. c[i] = left \ {i, b}
      <4>1. (CHOOSE j \in Js(i, left) : \A m \in Js(i, left) : j <= m) = b
        BY <3>4
      <4> HIDE DEF Js
      <4> QED BY <2>2, <3>3, <3>4, <4>1 DEF Next_
    <3>6. \A m : Gone(i, m) <=> Gone(k, m) \/ m \in {i, b}
      BY <2>4, <1>u, <2>1, <3>1
    <3> HIDE DEF Gone, Pair, i, left
    <3>7. c[i] \subseteq 1..n /\ \A m \in 1..n : m \in c[i] <=> ~Gone(i, m)
      BY <2>3, <3>5, <3>6
    <3> QED BY <2>1, <3>7 DEF i
  <2>6. CASE ~\E b \in 1..n : Pair(i, b)
    <3>1. Js(i, left) = {}
      BY <2>1, <2>3, <2>6
    <3>2. c[i] = left
      BY <2>2, <3>1 DEF Next_
    <3>3. \A m : Gone(i, m) <=> Gone(k, m)
      BY <2>4, <2>6
    <3> HIDE DEF Gone, Pair, i, left
    <3>7. c[i] \subseteq 1..n /\ \A m \in 1..n : m \in c[i] <=> ~Gone(i, m)
      BY <2>3, <3>2, <3>3
    <3> QED BY <2>1, <3>7 DEF i
  <2> QED BY <2>5, <2>6
<1>11. 0..n \subseteq T
  <2> HIDE DEF T
  <2> QED BY <1>1, <1>8, <1>10, UpToInduction
<1>12. \A m \in 1..n : m \in c[n] <=> \A j \in 1..n : ~IsInverse(ops[m], ops[j])
  <2> SUFFICES ASSUME NEW m \in 1..n PROVE m \in c[n] <=> \A j \in 1..n : ~IsInverse(ops[m], ops[j])
    OBVIOUS
  <2>1. m \in c[n] <=> ~Gone(n, m)
    <3> HIDE DEF Gone, Pair
    <3>1. n \in T
      <4> HIDE DEF T
      <4> QED BY <1>1, <1>11
    <3>2. \A m2 \in 1..n : m2 \in c[n] <=> ~Gone(n, m2)
      BY <3>1
    <3> QED BY <3>2
  <2>2. ASSUME NEW j \in 1..n, IsInverse(ops[m], ops[j]) PROVE Gone(n, m)
    <3>1. IsInverse(ops[j], ops[m]) /\ m # j
      BY <1>s, <2>2
    <3>2. CASE m < j
      BY <2>2, <3>2, <1>1
    <3>3. CASE j < m
      BY <3>1, <3>3, <1>1
    <3> QED BY <3>1, <3>2, <3>3, <1>1
  <2>3. ASSUME Gone(n, m) PROVE \E j \in 1..n : IsInverse(ops[m], ops[j])
    <3>1. PICK a, b \in 1..n : Pair(a, b) /\ m \in {a, b}
      BY <2>3
    <3>2. IsInverse(ops[a], ops[b]) /\ IsInverse(ops[b], ops[a])
      BY <3>1, <1>s
    <3> QED BY <3>1, <3>2
  <2> QED BY <2>1, <2>2, <2>3
<1> DEFINE r == Keep(ops, c[n])
<1>13. r \in Seq(Op)
  BY KeepHas
<1>14. \A x : x \in Range(r) <=> \E k \in 1..n : k \in c[n] /\ ops[k] = x
  BY KeepHas DEF n
<1> HIDE DEF r
<1>15. \A o : o \in Range(ops) <=> \E k \in 1..n : ops[k] = o
  BY DEF Range, n
<1>16. \A o : o \in Range(r) <=> o \in Range(ops) /\ \A p \in Range(ops) : ~IsInverse(o, p)
  BY <1>12, <1>14, <1>15
<1> QED BY <1>9, <1>13, <1>16 DEF r

Agree(O) == \A o, p \in O : o.key = p.key /\ o.val = p.val => o = p

(* The operations turn s into want, and no two are about one value.        *)
DiffGood(known, s, want, O) ==
  /\ Agree(O)
  /\ \A l \in Label \cap known, v \in Value :
       /\ v \in want[l] => /\ v \in s[l] \/ Add(l, v) \in O
                           /\ \A o \in O : ~Kills(o, l, v)
       /\ v \notin want[l] => /\ Add(l, v) \notin O
                              /\ v \in s[l] => \E o \in O : Kills(o, l, v)

(* What reduction leaves of the deletions and additions of PerformLabelOp. *)
Changes(s, want) ==
  {o \in Op : \/ o.op = "del" /\ o.val \in s[o.key] /\ o.val \notin want[o.key]
              \/ o.op = "add" /\ o.val \in want[o.key] /\ o.val \notin s[o.key]}

LEMMA ChangesAre ==
  ASSUME NEW s \in State, NEW want \in State
  PROVE  LET q == ReduceLabelOps(Ops("del", s) \o Ops("add", want))
         IN  q \in Seq(Op) /\ \A o : o \in Range(q) <=> o \in Changes(s, want)
<1> DEFINE d == Ops("del", s)
           a == Ops("add", want)
           q == d \o a
<1>1. d \in Seq(Op) /\ Distinct(d) /\ a \in Seq(Op) /\ Distinct(a)
  BY OpsHave
<1>2. \A o : o \in Range(d) <=> o \in Op /\ o.op = "del" /\ o.val \in s[o.key]
  <2>1. \A o : o \in Range(d) <=>
                 \E l \in Label, v \in Value : v \in s[l] /\ o = [op |-> "del", key |-> l, val |-> v]
    BY OpsHave
  <2> HIDE DEF d
  <2>2. ASSUME NEW l \in Label, NEW v \in Value, v \in s[l]
        PROVE  LET o == [op |-> "del", key |-> l, val |-> v]
               IN  o \in Op /\ o.op = "del" /\ o.val \in s[o.key]
    BY <2>2 DEF Op
  <2>3. ASSUME NEW o \in Op, o.op = "del", o.val \in s[o.key]
        PROVE  o.key \in Label /\ o.val \in Value /\ o = [op |-> "del", key |-> o.key, val |-> o.val]
    BY <2>3 DEF Op
  <2> QED BY <2>1, <2>2, <2>3
<1>3. \A o : o \in Range(a) <=> o \in Op /\ o.op = "add" /\ o.val \in want[o.key]
  <2>1. \A o : o \in Range(a) <=>
                 \E l \in Label, v \in Value : v \in want[l] /\ o = [op |-> "add", key |-> l, val |-> v]
    BY OpsHave
  <2> HIDE DEF a
  <2>2. ASSUME NEW l \in Label, NEW v \in Value, v \in want[l]
        PROVE  LET o == [op |-> "add", key |-> l, val |-> v]
               IN  o \in Op /\ o.op = "add" /\ o.val \in want[o.key]
    BY <2>2 DEF Op
  <2>3. ASSUME NEW o \in Op, o.op = "add", o.val \in want[o.key]
        PROVE  o.key \in Label /\ o.val \in Value /\ o = [op |-> "add", key |-> o.key, val |-> o.val]
    BY <2>3 DEF Op
  <2> QED BY <2>1, <2>2, <2>3
<1> HIDE DEF d, a
<1>4. /\ q \in Seq(Op) /\ Len(q) = Len(d) + Len(a)
      /\ Len(d) \in Nat /\ Len(a) \in Nat
      /\ \A i \in 1..Len(d) : q[i] = d[i]
      /\ \A i \in 1..Len(a) : q[Len(d) + i] = a[i]
      /\ \A i \in 1..Len(q) : i \in 1..Len(d) \/ (i - Len(d) \in 1..Len(a) /\ i = Len(d) + (i - Len(d)))
  <2>0. d \in Seq(Op) /\ a \in Seq(Op)
    BY <1>1
  <2>1. /\ q \in Seq(Op) /\ Len(q) = Len(d) + Len(a)
        /\ Len(d) \in Nat /\ Len(a) \in Nat
        /\ \A i \in 1..Len(d) : q[i] = d[i]
        /\ \A i \in 1..Len(a) : q[Len(d) + i] = a[i]
    BY ONLY <2>0
  <2> HIDE DEF q
  <2>2. \A i \in 1..Len(q) : i \in 1..Len(d) \/ (i - Len(d) \in 1..Len(a) /\ i = Len(d) + (i - Len(d)))
    BY ONLY <2>1
  <2> QED BY <2>1, <2>2
<1> HIDE DEF q
<1>5. \A i \in 1..Len(d) : d[i] \in Range(d)
  BY <1>1 DEF Range
<1>6. \A i \in 1..Len(a) : a[i] \in Range(a)
  BY <1>1 DEF Range
<1>7. \A o : o \in Range(q) <=> o \in Range(d) \/ o \in Range(a)
  <2>1. d \in Seq(Op) /\ a \in Seq(Op)
    BY <1>1
  <2>2. Range(d \o a) = Range(d) \cup Range(a)
    BY ONLY <2>1, ConcatHas
  <2> QED BY <2>2 DEF q
<1>8. Distinct(q)
  <2> SUFFICES ASSUME NEW i \in 1..Len(q), NEW j \in 1..Len(q), q[i] = q[j] PROVE i = j
    BY DEF Distinct
  <2>1. CASE i \in 1..Len(d) /\ j \in 1..Len(d)
    BY <1>1, <1>4, <2>1 DEF Distinct
  <2>2. CASE i \in 1..Len(d) /\ j \notin 1..Len(d)
    <3>1. q[i].op = "del"
      BY <1>2, <1>4, <1>5, <2>2
    <3>2. q[j].op = "add"
      BY <1>3, <1>4, <1>6, <2>2
    <3> QED BY <3>1, <3>2
  <2>3. CASE i \notin 1..Len(d) /\ j \in 1..Len(d)
    <3>1. q[j].op = "del"
      BY <1>2, <1>4, <1>5, <2>3
    <3>2. q[i].op = "add"
      BY <1>3, <1>4, <1>6, <2>3
    <3> QED BY <3>1, <3>2
  <2>4. CASE i \notin 1..Len(d) /\ j \notin 1..Len(d)
    <3>1. i - Len(d) \in 1..Len(a) /\ j - Len(d) \in 1..Len(a)
          /\ i = Len(d) + (i - Len(d)) /\ j = Len(d) + (j - Len(d))
      BY <1>4, <2>4
    <3>2. a[i - Len(d)] = a[j - Len(d)]
      BY <1>4, <3>1
    <3>3. i - Len(d) = j - Len(d)
      BY <1>1, <3>1, <3>2 DEF Distinct
    <3> QED BY <3>1, <3>3
  <2> QED BY <2>1, <2>2, <2>3, <2>4
<1>9. /\ ReduceLabelOps(q) \in Seq(Op)
      /\ \A o : o \in Range(ReduceLabelOps(q)) <=>
                  o \in Range(q) /\ \A p \in Range(q) : ~IsInverse(o, p)
  BY <1>4, <1>8, ReduceHas
<1>10. \A o : (o \in Range(q) /\ \A p \in Range(q) : ~IsInverse(o, p)) <=> o \in Changes(s, want)
  <2> SUFFICES ASSUME NEW o
               PROVE (o \in Range(q) /\ \A p \in Range(q) : ~IsInverse(o, p)) <=> o \in Changes(s, want)
    OBVIOUS
  <2>1. ASSUME NEW p, IsInverse(o, p), o \in Range(q), p \in Range(q) PROVE o \notin Changes(s, want)
    <3>1. o.key = p.key /\ o.val = p.val /\ o.op # p.op
      BY <2>1 DEF IsInverse
    <3>2. \/ o.op = "del" /\ p.op = "add" /\ p.val \in want[p.key]
          \/ o.op = "add" /\ p.op = "del" /\ p.val \in s[p.key]
      BY <1>2, <1>3, <1>7, <2>1, <3>1
    <3> QED BY <3>1, <3>2 DEF Changes
  <2>2. ASSUME o \in Range(q), o \notin Changes(s, want) PROVE \E p \in Range(q) : IsInverse(o, p)
    <3>0. o \in Op /\ o.key \in Label /\ o.val \in Value
      BY <1>2, <1>3, <1>7, <2>2 DEF Op
    <3>1. CASE o.op = "del" /\ o.val \in s[o.key]
      <4>1. o.val \in want[o.key]
        BY <2>2, <3>0, <3>1 DEF Changes
      <4> DEFINE p == Add(o.key, o.val)
      <4>2. p \in Op /\ p.op = "add" /\ p.key = o.key /\ p.val = o.val
        BY <3>0 DEF Add, Op
      <4> HIDE DEF p
      <4>3. p \in Range(q)
        BY <1>3, <1>7, <4>1, <4>2
      <4> QED BY <3>1, <4>2, <4>3 DEF IsInverse
    <3>2. CASE o.op = "add" /\ o.val \in want[o.key]
      <4>1. o.val \in s[o.key]
        BY <2>2, <3>0, <3>2 DEF Changes
      <4> DEFINE p == Del(o.key, o.val)
      <4>2. p \in Op /\ p.op = "del" /\ p.key = o.key /\ p.val = o.val
        BY <3>0 DEF Del, Op
      <4> HIDE DEF p
      <4>3. p \in Range(q)
        BY <1>2, <1>7, <4>1, <4>2
      <4> QED BY <3>2, <4>2, <4>3 DEF IsInverse
    <3> QED BY <1>2, <1>3, <1>7, <2>2, <3>1, <3>2
  <2>3. o \in Changes(s, want) => o \in Range(q)
    BY <1>2, <1>3, <1>7 DEF Changes
  <2> QED BY <2>1, <2>2, <2>3
<1>11. q = Ops("del", s) \o Ops("add", want)
  BY DEF q, d, a
<1> QED BY <1>9, <1>10, <1>11

(* Changes undo only what is not wanted.                                   *)
LEMMA ChangesFit ==
  ASSUME NEW s \in States, NEW want \in States
  PROVE  LET O == Changes(s, want)
         IN  /\ Agree(O)
             /\ \A l \in Label, v \in Value :
                  /\ v \in want[l] => \A o \in O : ~Kills(o, l, v)
                  /\ v \in want[l] /\ v \notin s[l] => Add(l, v) \in O
                  /\ v \notin want[l] => Add(l, v) \notin O
                  /\ v \notin want[l] /\ v \in s[l] => \E o \in O : Kills(o, l, v)
<1> DEFINE O == Changes(s, want)
<1>0. want \in State /\ \A l \in Label \ Multiple : \A v, w \in want[l] : v = w
  BY DEF States, Single
<1>1. \A o \in O : /\ o.op \in {"add", "del"} /\ o.key \in Label
                   /\ o = [op |-> o.op, key |-> o.key, val |-> o.val]
                   /\ o.op = "del" => o.val \in s[o.key] /\ o.val \notin want[o.key]
                   /\ o.op = "add" => o.val \in want[o.key] /\ o.val \notin s[o.key]
  BY DEF Changes, Op
<1>2. Agree(O)
  BY <1>1 DEF Agree
<1>3. ASSUME NEW l \in Label, NEW v \in Value, v \in want[l] PROVE \A o \in O : ~Kills(o, l, v)
  BY <1>0, <1>1, <1>3 DEF Kills
<1>4. ASSUME NEW l \in Label, NEW v \in Value PROVE Add(l, v) \in O <=> v \in want[l] /\ v \notin s[l]
  <2>1. Add(l, v) \in Op /\ Add(l, v).op = "add" /\ Add(l, v).key = l /\ Add(l, v).val = v
    BY DEF Add, Op
  <2> QED BY <2>1 DEF Changes
<1>5. ASSUME NEW l \in Label, NEW v \in Value, v \notin want[l], v \in s[l] PROVE \E o \in O : Kills(o, l, v)
  <2>1. Del(l, v) \in Op /\ Del(l, v).op = "del" /\ Del(l, v).key = l /\ Del(l, v).val = v
    BY DEF Del, Op
  <2>2. Del(l, v) \in O
    BY <1>5, <2>1 DEF Changes
  <2> QED BY <2>1, <2>2 DEF Kills
<1> QED BY <1>2, <1>3, <1>4, <1>5

(* The choice of Diff.                                                     *)
DiffRun(known, s, ops) ==
  CHOOSE at : at = [k \in 0..Len(ops) |->
        IF k = 0 THEN [s |-> s, ops |-> << >>]
        ELSE LET x == at[k - 1]
             IN  [s   |-> ApplyLabelOp(known, x.s, ops[k]),
                  ops |-> IF NoOp(x.s, ops[k]) THEN x.ops ELSE Append(x.ops, ops[k])]]

(* s with the operations of O, of which none undoes an addition.           *)
Reached(known, s, O, t) ==
  \A l \in Label \cap known, v \in Value :
    v \in t[l] <=> (v \in s[l] /\ \A o \in O : ~Kills(o, l, v)) \/ Add(l, v) \in O

LEMMA ReachedStep ==
  ASSUME NEW known, NEW s, NEW t \in States, NEW o \in Op, NEW O,
         Reached(known, s, O, t),
         \A l \in Label, v \in Value : Add(l, v) \in O => ~Kills(o, l, v)
  PROVE  Reached(known, s, O \cup {o}, ApplyLabelOp(known, t, o))
<1> DEFINE u == ApplyLabelOp(known, t, o)
<1>1. \A l \in Label \cap known, v \in Value :
        v \in u[l] <=> o = Add(l, v) \/ (v \in t[l] /\ ~Kills(o, l, v))
  BY ApplyStep
<1> HIDE DEF u
<1>2. ASSUME NEW l \in Label \cap known, NEW v \in Value
      PROVE  v \in u[l] <=> (v \in s[l] /\ \A p \in O \cup {o} : ~Kills(p, l, v)) \/ Add(l, v) \in O \cup {o}
  BY <1>1 DEF Reached
<1> QED BY <1>2 DEF Reached, u

(* What changes nothing may be left out.                                   *)
LEMMA NoOpSame ==
  ASSUME NEW known, NEW s, NEW t \in States, NEW o \in Op, NEW O,
         Reached(known, s, O, t), NoOp(t, o)
  PROVE  Reached(known, s, O, ApplyLabelOp(known, t, o))
<1> DEFINE u == ApplyLabelOp(known, t, o)
<1>1. \A l \in Label \cap known, v \in Value :
        v \in u[l] <=> o = Add(l, v) \/ (v \in t[l] /\ ~Kills(o, l, v))
  BY ApplyStep
<1> HIDE DEF u
<1>2. ASSUME NEW l \in Label \cap known, NEW v \in Value PROVE v \in u[l] <=> v \in t[l]
  <2>0. /\ o.op \in {"add", "del"} /\ o = [op |-> o.op, key |-> o.key, val |-> o.val]
        /\ l \notin Multiple => \A x, y \in t[l] : x = y
    BY DEF Op, States, Single
  <2>1. CASE o.op = "add"
    <3>1. o.val \in t[o.key]
      BY <2>1 DEF NoOp
    <3>2. o = Add(l, v) => o.key = l /\ o.val = v
      BY DEF Add
    <3>3. Kills(o, l, v) <=> o.key = l /\ l \notin Multiple /\ o.val # v
      BY <2>1 DEF Kills
    <3> QED BY <1>1, <2>0, <3>1, <3>2, <3>3
  <2>2. CASE o.op = "del"
    <3>1. o.val \notin t[o.key]
      BY <2>2 DEF NoOp
    <3>2. o # Add(l, v)
      BY <2>2 DEF Add
    <3>3. Kills(o, l, v) <=> o.key = l /\ o.val = v
      BY <2>2 DEF Kills
    <3> QED BY <1>1, <3>1, <3>2, <3>3
  <2> QED BY <2>0, <2>1, <2>2
<1> QED BY <1>2 DEF Reached, u

LEMMA DiffTurns ==
  ASSUME NEW known, NEW s \in States, NEW want \in States
  PROVE  /\ Diff(known, s, want) \in Seq(Op)
         /\ DiffGood(known, s, want, Range(Diff(known, s, want)))
         /\ Range(Diff(known, s, want)) \subseteq Changes(s, want)
<1> DEFINE ops == ReduceLabelOps(Ops("del", s) \o Ops("add", want))
           n == Len(ops)
           X == [s : States, ops : Seq(Op)]
           Next_(k, x) == [s   |-> ApplyLabelOp(known, x.s, ops[k]),
                           ops |-> IF NoOp(x.s, ops[k]) THEN x.ops ELSE Append(x.ops, ops[k])]
           G == [k \in 1..n |-> [x \in X |-> Next_(k, x)]]
           a == [s |-> s, ops |-> << >>]
           c == DiffRun(known, s, ops)
           C == Changes(s, want)
<1>0. s \in State /\ want \in State
  BY DEF States
<1>1. ops \in Seq(Op) /\ \A o : o \in Range(ops) <=> o \in C
  BY <1>0, ChangesAre
<1>9. Diff(known, s, want) = c[n].ops
  BY DEF Diff, DiffRun
<1>c. c = CHOOSE at : at = [k \in 0..n |-> IF k = 0 THEN a ELSE Next_(k, at[k - 1])]
  BY DEF DiffRun
<1>d. /\ Agree(C)
      /\ \A l \in Label, v \in Value :
           /\ v \in want[l] => \A o \in C : ~Kills(o, l, v)
           /\ v \in want[l] /\ v \notin s[l] => Add(l, v) \in C
           /\ v \notin want[l] => Add(l, v) \notin C
           /\ v \notin want[l] /\ v \in s[l] => \E o \in C : Kills(o, l, v)
  BY ChangesFit
<1> HIDE DEF ops, c, C
<1>n. n \in Nat /\ \A k \in 1..n : ops[k] \in Op /\ ops[k] \in C
  <2>1. \A k \in 1..n : ops[k] \in Range(ops)
    BY <1>1 DEF Range
  <2> QED BY <1>1, <2>1
<1>2. G \in [1..n -> [X -> X]]
  <2>1. ASSUME NEW k \in 1..n, NEW x \in X PROVE Next_(k, x) \in X
    <3>1. ApplyLabelOp(known, x.s, ops[k]) \in States
      <4>1. x.s \in States /\ ops[k] \in Op
        BY <1>n
      <4> QED BY <4>1, ApplyStep
    <3>2. Append(x.ops, ops[k]) \in Seq(Op) /\ x.ops \in Seq(Op)
      BY <1>n
    <3> QED BY <3>1, <3>2
  <2> HIDE DEF Next_, X
  <2> QED BY <2>1
<1>3. \A k \in 1..n, x \in X : G[k][x] = Next_(k, x)
  <2> HIDE DEF Next_, X
  <2> QED OBVIOUS
<1>e. a \in X
  OBVIOUS
<1>x. \A x \in X : x.s \in States /\ x.ops \in Seq(Op)
  OBVIOUS
<1> HIDE DEF G, n, X, a
<1>4. PICK g \in [0..n -> X] : FoldsAlong(g, a, G, n)
  <2> HIDE DEF Next_
  <2> QED BY <1>n, <1>2, <1>e, FoldExists
<1>f. g[0] = a /\ \A k \in 1..n : g[k] = G[k][g[k - 1]]
  BY <1>4 DEF FoldsAlong
<1>5. \A k \in 1..n : g[k] = Next_(k, g[k - 1])
  <2> SUFFICES ASSUME NEW k \in 1..n PROVE g[k] = Next_(k, g[k - 1])
    OBVIOUS
  <2>1. k - 1 \in 0..n
    BY <1>n
  <2> HIDE DEF Next_
  <2> QED BY <2>1, <1>3, <1>f
<1>6. g = [k \in 0..n |-> IF k = 0 THEN a ELSE Next_(k, g[k - 1])]
  <2> HIDE DEF Next_
  <2>1. \A k \in 0..n : g[k] = IF k = 0 THEN a ELSE Next_(k, g[k - 1])
    BY <1>n, <1>f, <1>5
  <2> QED BY <2>1, <1>4
<1>7. c = [k \in 0..n |-> IF k = 0 THEN a ELSE Next_(k, c[k - 1])]
  <2> HIDE DEF Next_
  <2> QED BY <1>6, <1>c
<1> DEFINE Kept_(x) == Range(x.ops)
           Fine(x) == /\ x.s \in States /\ x.ops \in Seq(Op)
                      /\ Kept_(x) \subseteq C
                      /\ Reached(known, s, Kept_(x), x.s)
           T == {k \in 0..n : Fine(c[k]) /\ Reached(known, s, {ops[i] : i \in 1..k}, c[k].s)}
<1>w. \A l \in Label, v \in Value, o \in C : Add(l, v) \in C => ~Kills(o, l, v)
  BY <1>d
<1>8. 0 \in T
  <2>1. c[0].s = s /\ c[0].ops = << >>
    BY <1>7, <1>n DEF a
  <2>2. Kept_(c[0]) = {} /\ {ops[i] : i \in 1..0} = {} /\ << >> \in Seq(Op)
    BY <2>1 DEF Range
  <2>3. Reached(known, s, {}, s)
    BY DEF Reached
  <2>4. Fine(c[0])
    BY <2>1, <2>2, <2>3
  <2>5. Reached(known, s, {ops[i] : i \in 1..0}, c[0].s)
    BY <2>1, <2>2, <2>3
  <2> HIDE DEF Fine
  <2> QED BY <1>n, <2>4, <2>5
<1>10. ASSUME NEW k \in 0..n, k \in T, k < n PROVE k + 1 \in T
  <2> DEFINE i == k + 1
             x == c[k]
             y == c[k + 1]
             o == ops[k + 1]
             Q == {ops[j] : j \in 1..k}
  <2>1. i \in 1..n /\ i \in 0..n /\ i # 0 /\ i - 1 = k
    BY <1>n, <1>10
  <2>2. y = Next_(i, x)
    <3> HIDE DEF Next_
    <3> QED BY <1>7, <2>1
  <2>3. y.s = ApplyLabelOp(known, x.s, o) /\ y.ops = IF NoOp(x.s, o) THEN x.ops ELSE Append(x.ops, o)
    BY <2>2
  <2>4. o \in Op /\ o \in C
    BY <1>n, <2>1
  <2>5. Fine(x) /\ Reached(known, s, Q, x.s)
    <3> HIDE DEF Fine
    <3> QED BY <1>10
  <2>6. {ops[j] : j \in 1..i} = Q \cup {o}
    <3>1. 1..i = (1..k) \cup {i}
      BY <2>1
    <3> HIDE DEF i
    <3> QED BY <3>1 DEF i
  <2>7. Q \subseteq C
    BY <1>n, <1>10
  <2> HIDE DEF x, y, o, Q, i, T
  <2>8. y.s \in States
    <3> DEFINE t == x.s
    <3>1. t \in States
      BY <2>5
    <3> HIDE DEF t
    <3>2. ApplyLabelOp(known, t, o) \in States
      BY <2>4, <3>1, ApplyStep
    <3> QED BY <2>3, <3>2 DEF t
  <2>9. Reached(known, s, Q \cup {o}, y.s)
    <3>1. \A l \in Label, v \in Value : Add(l, v) \in Q => ~Kills(o, l, v)
      BY <1>w, <2>4, <2>7
    <3> DEFINE t == x.s
    <3>2. t \in States /\ Reached(known, s, Q, t)
      BY <2>5
    <3> HIDE DEF t
    <3>3. Reached(known, s, Q \cup {o}, ApplyLabelOp(known, t, o))
      BY <2>4, <3>1, <3>2, ReachedStep
    <3> QED BY <2>3, <3>3 DEF t
  <2>10. Fine(y)
    <3> DEFINE t == x.s
               K == Kept_(x)
    <3>1. t \in States /\ Reached(known, s, K, t) /\ K \subseteq C
      BY <2>5
    <3>2. CASE NoOp(x.s, o)
      <4>1. y.ops = x.ops
        BY <2>3, <3>2
      <4>2. NoOp(t, o)
        BY <3>2
      <4> HIDE DEF t, K
      <4>3. Reached(known, s, K, ApplyLabelOp(known, t, o))
        BY <2>4, <3>1, <4>2, NoOpSame
      <4> QED BY <2>3, <2>5, <2>8, <3>1, <4>1, <4>3 DEF t, K
    <3>3. CASE ~NoOp(x.s, o)
      <4>1. y.ops = Append(x.ops, o) /\ x.ops \in Seq(Op)
        BY <2>3, <2>5, <3>3
      <4>2. y.ops \in Seq(Op) /\ Range(y.ops) = K \cup {o}
        <5> DEFINE b == x.ops
                   d == y.ops
        <5>1. d = Append(b, o) /\ b \in Seq(Op) /\ o \in Op
          BY <4>1, <2>4
        <5> HIDE DEF b, d
        <5>2. /\ d \in Seq(Op) /\ DOMAIN d = (DOMAIN b) \cup {Len(b) + 1}
              /\ \A j \in DOMAIN b : d[j] = b[j]
              /\ d[Len(b) + 1] = o
          BY ONLY <5>1
        <5>3. Range(d) = Range(b) \cup {o}
          BY <5>2 DEF Range
        <5> QED BY <5>2, <5>3 DEF b, d
      <4>3. \A l \in Label, v \in Value : Add(l, v) \in K => ~Kills(o, l, v)
        BY <1>w, <2>4, <3>1
      <4> HIDE DEF t, K
      <4>4. Reached(known, s, K \cup {o}, ApplyLabelOp(known, t, o))
        BY <2>4, <3>1, <4>3, ReachedStep
      <4> QED BY <2>3, <2>4, <2>8, <3>1, <4>2, <4>4 DEF t
    <3> QED BY <3>2, <3>3
  <2> HIDE DEF Fine
  <2> QED BY <2>1, <2>6, <2>9, <2>10 DEF T, i, y
<1>11. 0..n \subseteq T
  <2> HIDE DEF T
  <2> QED BY <1>n, <1>8, <1>10, UpToInduction
<1> DEFINE R == Range(c[n].ops)
<1>12. /\ c[n].ops \in Seq(Op) /\ R \subseteq C
       /\ Reached(known, s, R, c[n].s)
       /\ Reached(known, s, C, c[n].s)
  <2>1. n \in T
    <3> HIDE DEF T
    <3> QED BY <1>n, <1>11
  <2>2. Fine(c[n]) /\ Reached(known, s, {ops[i] : i \in 1..n}, c[n].s)
    <3> HIDE DEF Fine
    <3> QED BY <2>1
  <2>3. {ops[i] : i \in 1..n} = C
    <3>1. Range(ops) = {ops[i] : i \in 1..n}
      BY <1>1 DEF Range, n
    <3> QED BY <1>1, <3>1
  <2> QED BY <2>2, <2>3
<1> HIDE DEF R
<1>13. Agree(R)
  BY <1>12, <1>d DEF Agree
<1>14. ASSUME NEW l \in Label \cap known, NEW v \in Value
       PROVE  /\ v \in want[l] => /\ v \in s[l] \/ Add(l, v) \in R
                                  /\ \A o \in R : ~Kills(o, l, v)
              /\ v \notin want[l] => /\ Add(l, v) \notin R
                                     /\ v \in s[l] => \E o \in R : Kills(o, l, v)
  <2>1. v \in c[n].s[l] <=> (v \in s[l] /\ \A o \in R : ~Kills(o, l, v)) \/ Add(l, v) \in R
    BY <1>12 DEF Reached
  <2>2. v \in c[n].s[l] <=> (v \in s[l] /\ \A o \in C : ~Kills(o, l, v)) \/ Add(l, v) \in C
    BY <1>12 DEF Reached
  <2>3. v \in c[n].s[l] <=> v \in want[l]
    BY <1>d, <2>2
  <2> QED BY <1>12, <1>d, <2>1, <2>3
<1> QED BY <1>9, <1>12, <1>13, <1>14 DEF DiffGood, R, C

(***************************************************************************)
(* Rows that are stored.                                                   *)
(***************************************************************************)

(* u is t with operations of O under the key k: rows of other keys stay,   *)
(* a row of this key may be replaced by one about the same value.          *)
StoredIn(t, u, k, O, p) ==
  /\ u \in Seq(RowShape) /\ Len(t) <= Len(u)
  /\ \A i \in 1..Len(u) :
       \/ i <= Len(t) /\ u[i] = t[i]
       \/ /\ u[i].rkey = k /\ u[i].performed = p /\ u[i].indexed = clock /\ u[i].op \in O
          /\ i <= Len(t) => Same(t[i], k, u[i].op)

LEMMA AddStores ==
  ASSUME clock \in Nat, NEW t \in Seq(RowShape), NEW k \in Nat, NEW o \in Op, NEW p \in Nat
  PROVE  LET u == AddLabelOp(t, k, o, p)
             row == [rkey |-> k, op |-> o, performed |-> p, indexed |-> clock]
         IN  /\ u \in Seq(RowShape) /\ Len(t) <= Len(u)
             /\ \A i \in 1..Len(u) : \/ i <= Len(t) /\ u[i] = t[i]
                                     \/ u[i] = row /\ (i <= Len(t) => Same(t[i], k, o))
             /\ \E i \in 1..Len(u) : u[i] = row
<1> DEFINE u == AddLabelOp(t, k, o, p)
           row == [rkey |-> k, op |-> o, performed |-> p, indexed |-> clock]
           at == {i \in 1..Len(t) : Same(t[i], k, o)}
<1>0. row \in RowShape
  BY DEF RowShape
<1>r. u = IF at = {} THEN Append(t, row) ELSE [i \in 1..Len(t) |-> IF i \in at THEN row ELSE t[i]]
  BY DEF AddLabelOp
<1>1. CASE at = {}
  <2>1. u = Append(t, row)
    BY <1>1, <1>r
  <2> HIDE DEF row, at, u
  <2>2. /\ u \in Seq(RowShape) /\ Len(u) = Len(t) + 1 /\ Len(t) \in Nat
        /\ \A i \in 1..Len(t) : u[i] = t[i]
        /\ u[Len(t) + 1] = row
    BY ONLY <2>1, <1>0, t \in Seq(RowShape)
  <2>3. \A i \in 1..Len(u) : (i <= Len(t) /\ u[i] = t[i]) \/ (u[i] = row /\ i > Len(t))
    BY ONLY <2>2
  <2>4. Len(u) \in 1..Len(u) /\ u[Len(u)] = row
    BY ONLY <2>2
  <2>5. \A i \in 1..Len(u) : i > Len(t) => ~(i <= Len(t))
    BY <2>2
  <2>6. Len(t) <= Len(u)
    BY <2>2
  <2> QED BY <2>2, <2>3, <2>4, <2>5, <2>6 DEF u, row
<1>2. CASE at # {}
  <2>1. u = [i \in 1..Len(t) |-> IF i \in at THEN row ELSE t[i]]
    BY <1>2, <1>r
  <2>a. \A i \in at : i \in 1..Len(t) /\ Same(t[i], k, o)
    OBVIOUS
  <2> HIDE DEF row, at, u
  <2>2. Len(t) \in Nat /\ \A i \in 1..Len(t) : t[i] \in RowShape
    OBVIOUS
  <2>3. u \in Seq(RowShape) /\ Len(u) = Len(t)
    BY <1>0, <2>1, <2>2
  <2>4. \A i \in 1..Len(u) : u[i] = IF i \in at THEN row ELSE t[i]
    BY <2>1, <2>3
  <2>5. \A i \in 1..Len(u) : (i <= Len(t) /\ u[i] = t[i]) \/ (u[i] = row /\ Same(t[i], k, o))
    BY <2>2, <2>3, <2>4, <2>a
  <2>6. \E i \in 1..Len(u) : u[i] = row
    BY <1>2, <2>3, <2>4, <2>a
  <2>7. Len(t) <= Len(u)
    BY <2>2, <2>3
  <2> QED BY <2>3, <2>5, <2>6, <2>7 DEF u, row
<1> QED BY <1>1, <1>2

LEMMA StoresMore ==
  ASSUME clock \in Nat, NEW t \in Seq(RowShape), NEW u, NEW k \in Nat, NEW O, NEW p \in Nat,
         NEW o \in O, o \in Op, StoredIn(t, u, k, O, p)
  PROVE  StoredIn(t, AddLabelOp(u, k, o, p), k, O, p)
<1> DEFINE w == AddLabelOp(u, k, o, p)
           row == [rkey |-> k, op |-> o, performed |-> p, indexed |-> clock]
<1>1. u \in Seq(RowShape) /\ Len(t) <= Len(u)
  BY DEF StoredIn
<1>2. /\ w \in Seq(RowShape) /\ Len(u) <= Len(w)
      /\ \A i \in 1..Len(w) : \/ i <= Len(u) /\ w[i] = u[i]
                              \/ w[i] = row /\ (i <= Len(u) => Same(u[i], k, o))
  BY <1>1, AddStores
<1> HIDE DEF w
<1>3. Len(t) \in Nat /\ Len(u) \in Nat /\ Len(w) \in Nat
  BY <1>1, <1>2
<1>4. ASSUME NEW i \in 1..Len(w)
      PROVE  \/ i <= Len(t) /\ w[i] = t[i]
             \/ /\ w[i].rkey = k /\ w[i].performed = p /\ w[i].indexed = clock /\ w[i].op \in O
                /\ i <= Len(t) => Same(t[i], k, w[i].op)
  <2>1. CASE i <= Len(u) /\ w[i] = u[i]
    <3>1. i \in 1..Len(u)
      BY <1>3, <2>1
    <3>2. \/ i <= Len(t) /\ u[i] = t[i]
          \/ /\ u[i].rkey = k /\ u[i].performed = p /\ u[i].indexed = clock /\ u[i].op \in O
             /\ i <= Len(t) => Same(t[i], k, u[i].op)
      BY <3>1 DEF StoredIn
    <3> QED BY <2>1, <3>2
  <2>2. CASE w[i] = row /\ (i <= Len(u) => Same(u[i], k, o))
    <3>1. w[i].rkey = k /\ w[i].performed = p /\ w[i].indexed = clock /\ w[i].op = o
      BY <2>2
    <3>2. ASSUME i <= Len(t) PROVE Same(t[i], k, o)
      <4>1. i \in 1..Len(u) /\ Same(u[i], k, o)
        BY <1>1, <1>3, <2>2, <3>2
      <4>2. \/ u[i] = t[i]
            \/ Same(t[i], k, u[i].op)
        BY <3>2, <4>1 DEF StoredIn
      <4> QED BY <4>1, <4>2 DEF Same
    <3> QED BY <3>1, <3>2
  <2> QED BY <1>2, <2>1, <2>2
<1>5. Len(t) <= Len(w)
  BY <1>1, <1>2, <1>3
<1>6. StoredIn(t, w, k, O, p)
  BY <1>2, <1>4, <1>5 DEF StoredIn
<1> QED BY <1>6 DEF w

Entry == [rkey : Nat, ops : Seq(Op), performed : Nat]

(* The choice of ingestLabelOp.                                            *)
StoredRun(e) ==
  CHOOSE stored : stored = [k \in 0..Len(e.ops) |->
        IF k = 0 THEN table ELSE AddLabelOp(stored[k - 1], e.rkey, e.ops[k], e.performed)]

(* It stores the operations one by one.                                    *)
LEMMA StoredSteps ==
  ASSUME clock \in Nat, table \in Seq(RowShape), NEW e \in Entry
  PROVE  LET c == StoredRun(e)
         IN  /\ \A k \in 0..Len(e.ops) : c[k] \in Seq(RowShape)
             /\ c[0] = table
             /\ \A k \in 1..Len(e.ops) : c[k] = AddLabelOp(c[k - 1], e.rkey, e.ops[k], e.performed)
<1> DEFINE n == Len(e.ops)
           X == Seq(RowShape)
           Next_(k, x) == AddLabelOp(x, e.rkey, e.ops[k], e.performed)
           G == [k \in 1..n |-> [x \in X |-> Next_(k, x)]]
           c == StoredRun(e)
<1>1. /\ n \in Nat /\ e.rkey \in Nat /\ e.performed \in Nat /\ e.ops \in Seq(Op)
      /\ \A k \in 1..n : e.ops[k] \in Op
  BY DEF Entry
<1>2. G \in [1..n -> [X -> X]]
  <2>1. ASSUME NEW k \in 1..n, NEW x \in X PROVE Next_(k, x) \in X
    BY <1>1, AddStores
  <2> HIDE DEF Next_, X
  <2> QED BY <2>1
<1>3. \A k \in 1..n, x \in X : G[k][x] = Next_(k, x)
  <2> HIDE DEF Next_, X
  <2> QED OBVIOUS
<1>e. table \in X
  OBVIOUS
<1>c. c = CHOOSE at : at = [k \in 0..n |-> IF k = 0 THEN table ELSE Next_(k, at[k - 1])]
  BY DEF StoredRun
<1> HIDE DEF G, n, X, c, Next_
<1>4. PICK g \in [0..n -> X] : FoldsAlong(g, table, G, n)
  BY <1>1, <1>2, <1>e, FoldExists
<1>f. g[0] = table /\ \A k \in 1..n : g[k] = G[k][g[k - 1]]
  BY <1>4 DEF FoldsAlong
<1>5. \A k \in 1..n : g[k] = Next_(k, g[k - 1])
  <2> SUFFICES ASSUME NEW k \in 1..n PROVE g[k] = Next_(k, g[k - 1])
    OBVIOUS
  <2>1. k - 1 \in 0..n
    BY <1>1
  <2> QED BY <2>1, <1>3, <1>f
<1>6. g = [k \in 0..n |-> IF k = 0 THEN table ELSE Next_(k, g[k - 1])]
  <2>1. \A k \in 0..n : g[k] = IF k = 0 THEN table ELSE Next_(k, g[k - 1])
    BY <1>1, <1>f, <1>5
  <2> QED BY <2>1, <1>4
<1>7. c = [k \in 0..n |-> IF k = 0 THEN table ELSE Next_(k, c[k - 1])]
  BY <1>6, <1>c
<1>8. c[0] = table /\ \A k \in 1..n : c[k] = Next_(k, c[k - 1])
  BY <1>1, <1>7
<1> DEFINE T == {k \in 0..n : c[k] \in X}
<1>9. 0 \in T
  BY <1>1, <1>8, <1>e
<1>10. ASSUME NEW k \in 0..n, k \in T, k < n PROVE k + 1 \in T
  <2>1. k + 1 \in 1..n /\ k + 1 \in 0..n /\ (k + 1) - 1 = k
    BY <1>1, <1>10
  <2>2. c[k] \in X /\ c[k + 1] = Next_(k + 1, c[k])
    BY <1>8, <1>10, <2>1
  <2>3. ASSUME NEW x \in X PROVE Next_(k + 1, x) \in X
    BY <1>1, <2>1, AddStores DEF Next_, X
  <2> QED BY <2>1, <2>2, <2>3
<1>11. 0..n \subseteq T
  <2> HIDE DEF T
  <2> QED BY <1>1, <1>9, <1>10, UpToInduction
<1>12. \A k \in 0..n : c[k] \in X
  BY <1>11
<1> QED BY <1>8, <1>12 DEF c, n, X, Next_

LEMMA IngestStores ==
  ASSUME clock \in Nat, table \in Seq(RowShape), NEW e \in Entry
  PROVE  StoredIn(table, StoredRun(e)[Len(e.ops)], e.rkey, Range(e.ops), e.performed)
<1> DEFINE n == Len(e.ops)
           Next_(k, x) == AddLabelOp(x, e.rkey, e.ops[k], e.performed)
           c == StoredRun(e)
<1>1. /\ n \in Nat /\ e.rkey \in Nat /\ e.performed \in Nat /\ e.ops \in Seq(Op)
      /\ \A k \in 1..n : e.ops[k] \in Op
  BY DEF Entry
<1>r. \A k \in 1..n : e.ops[k] \in Range(e.ops)
  BY <1>1 DEF Range
<1>7. c[0] = table /\ \A k \in 1..n : c[k] = Next_(k, c[k - 1])
  BY StoredSteps
<1> HIDE DEF n, c, Next_
<1> DEFINE Fine(x) == StoredIn(table, x, e.rkey, Range(e.ops), e.performed)
           T == {k \in 0..n : Fine(c[k])}
<1>8. 0 \in T
  <2>1. c[0] = table
    BY <1>7, <1>1
  <2>2. Fine(table)
    BY DEF StoredIn
  <2> HIDE DEF Fine
  <2> QED BY <1>1, <2>1, <2>2
<1>10. ASSUME NEW k \in 0..n, k \in T, k < n PROVE k + 1 \in T
  <2>1. k + 1 \in 1..n /\ k + 1 \in 0..n /\ k + 1 # 0 /\ (k + 1) - 1 = k
    BY <1>1, <1>10
  <2>2. c[k + 1] = Next_(k + 1, c[k])
    BY <1>7, <2>1
  <2>3. Fine(c[k])
    <3> HIDE DEF Fine
    <3> QED BY <1>10
  <2> DEFINE x == c[k]
             o == e.ops[k + 1]
             O == Range(e.ops)
             rk == e.rkey
             p == e.performed
  <2>4. o \in O /\ o \in Op /\ rk \in Nat /\ p \in Nat /\ StoredIn(table, x, rk, O, p)
    BY <1>1, <1>r, <2>1, <2>3
  <2> HIDE DEF x, o, O, rk, p, T
  <2>5. StoredIn(table, AddLabelOp(x, rk, o, p), rk, O, p)
    BY <2>4, StoresMore
  <2>6. Fine(c[k + 1])
    BY <2>2, <2>5 DEF x, o, O, rk, p, Next_
  <2> HIDE DEF Fine
  <2> QED BY <2>1, <2>6 DEF T
<1>11. n \in T
  <2> HIDE DEF T
  <2>1. 0..n \subseteq T
    BY <1>1, <1>8, <1>10, UpToInduction
  <2> QED BY <1>1, <2>1
<1>12. Fine(c[n])
  <2> HIDE DEF Fine
  <2> QED BY <1>11
<1> QED BY <1>12 DEF c, n

(***************************************************************************)
(* A save that nobody has disturbed.                                       *)
(***************************************************************************)
OwnRow(a, i) == table[i].rkey = job[a].rkey

SaveOps(a) == {table[i].op : i \in {j \in Rows_ : OwnRow(a, j)}} \cup Range(job[a].ops)

(* What the other rows show: what the save has read.                       *)
StoodBefore(a, l, v) ==
  \E i \in Rows_ :
    /\ ~OwnRow(a, i) /\ table[i].op = Add(l, v)
    /\ \A j \in Rows_ : ~OwnRow(a, j) /\ Before(i, j) => ~Kills(table[j].op, l, v)

Stood(a) == [l \in Label |-> {v \in Value : StoodBefore(a, l, v)}]

(* Its rows come after all others, ...                                     *)
OwnRowsLast(a) ==
  /\ \A i \in Rows_ : IF OwnRow(a, i) THEN /\ table[i].performed = job[a].performed
                                           /\ job[a].performed <= table[i].indexed
                      ELSE table[i].indexed <= job[a].performed
  /\ \A i, j \in Rows_ : OwnRow(a, i) /\ ~OwnRow(a, j) => j < i
  /\ job[a].performed <= clock

(* ... its record has the operations that are stored or will be, ...       *)
Logged(a) ==
  \A k \in 1..Len(log) : log[k].rkey = job[a].rkey =>
    log[k].performed = job[a].performed /\ Range(log[k].ops) = SaveOps(a)

(* ... and these turn what the save has read into the panel.               *)
SaveHolds(a) ==
  /\ OwnRowsLast(a) /\ Logged(a)
  /\ DiffGood(defs \cap subscribed, Stood(a), panel[a], SaveOps(a))

LabelShape ==
  /\ defs \subseteq Label
  /\ clock \in Nat /\ records \in Nat /\ pos \in Nat \ {0}
  /\ table \in Seq(RowShape)
  /\ \A i \in Rows_ : table[i].rkey <= records /\ table[i].indexed <= clock
  /\ log \in Seq(Entry)
  /\ \A k \in 1..Len(log) : log[k].rkey <= records
  /\ pc \in [Request -> {"idle", "put", "insert", "undo", "done"}]
  /\ job \in [Request -> Entry]
  /\ calm \in [Request -> BOOLEAN]
  /\ panel \in [Request -> State]

Unseen(key) ==
  /\ \A i \in Rows_ : table[i].rkey # key
  /\ \A k \in 1..Len(log) : log[k].rkey # key

(* Every save has a record key of its own, which nobody has seen before    *)
(* the call of the PDS, and operations until it is done.                   *)
SavesKeyed ==
  /\ \A a \in Request :
       /\ pc[a] # "idle" => job[a].rkey \in 1..records
       /\ pc[a] \in {"put", "insert"} => job[a].ops # << >>
       /\ pc[a] = "put" => Unseen(job[a].rkey)
       /\ pc[a] = "done" => job[a].ops = << >>
  /\ \A a, b \in Request :
       pc[a] # "idle" /\ pc[b] # "idle" /\ job[a].rkey = job[b].rkey => a = b

SavesHold ==
  \A a \in Request : pc[a] \in {"put", "insert", "done"} /\ calm[a] => SaveHolds(a)

LabelsInv == LabelShape /\ SavesKeyed /\ SavesHold

(* The rows of a save come after those it has read.                        *)
LEMMA OwnAfter ==
  ASSUME LabelShape, NEW a \in Request, OwnRowsLast(a),
         NEW i \in Rows_, ~OwnRow(a, i), NEW j \in Rows_, OwnRow(a, j)
  PROVE  Before(i, j) /\ ~Before(j, i)
<1>1. table[i] \in RowShape /\ table[j] \in RowShape /\ i \in Nat /\ j \in Nat
  BY DEF LabelShape, Rows_
<1>2. /\ table[i].performed \in Nat /\ table[i].indexed \in Nat
      /\ table[j].performed \in Nat /\ table[j].indexed \in Nat
  BY <1>1 DEF RowShape
<1>3. /\ table[j].performed = job[a].performed /\ job[a].performed <= table[j].indexed
      /\ table[i].indexed <= job[a].performed /\ i < j
  BY DEF OwnRowsLast
<1>4. SortAt(table[j]) = table[j].performed
  BY <1>3 DEF SortAt
<1>5. SortAt(table[i]) \in Nat /\ SortAt(table[i]) <= table[i].indexed
  BY <1>2 DEF SortAt
<1> QED BY <1>1, <1>2, <1>3, <1>4, <1>5 DEF Before

(* Done, its rows are all there is of it: the page shows the panel.        *)
LEMMA InvShows == LabelsInv => SaveIsShown
<1> SUFFICES ASSUME LabelsInv, NEW a \in Request, pc[a] = "done", calm[a],
                    NEW l \in defs \cap subscribed
             PROVE  Shown[l] = panel[a][l]
  BY DEF SaveIsShown
<1>0. LabelShape /\ SavesKeyed /\ SaveHolds(a) /\ job[a].ops = << >>
  BY DEF LabelsInv, SavesHold, SavesKeyed
<1>1. table \in Seq(RowShape) /\ l \in Label /\ panel[a] \in State /\ l \in Label \cap defs
  BY <1>0 DEF LabelShape
<1>2. ApplyLabelOps(defs) \in States
  BY <1>1, ShownHolds
<1>3. \A v \in Value : v \in ApplyLabelOps(defs)[l] <=> \E i \in Rows_ : Stands(i, l, v)
  BY <1>1, ShownHolds
<1> DEFINE O == SaveOps(a)
<1>4. \A o : o \in O <=> \E i \in Rows_ : OwnRow(a, i) /\ table[i].op = o
  <2>1. Range(job[a].ops) = {}
    BY <1>0 DEF Range
  <2> QED BY <2>1 DEF SaveOps
<1>5. \A v \in Value :
        /\ v \in panel[a][l] => /\ StoodBefore(a, l, v) \/ Add(l, v) \in O
                                /\ \A o \in O : ~Kills(o, l, v)
        /\ v \notin panel[a][l] => /\ Add(l, v) \notin O
                                   /\ StoodBefore(a, l, v) => \E o \in O : Kills(o, l, v)
  <2>1. l \in Label \cap (defs \cap subscribed)
    BY <1>1
  <2>2. \A v \in Value : v \in Stood(a)[l] <=> StoodBefore(a, l, v)
    BY <1>1 DEF Stood
  <2> HIDE DEF O
  <2>3. DiffGood(defs \cap subscribed, Stood(a), panel[a], O)
    BY <1>0 DEF SaveHolds, O
  <2> QED BY <2>1, <2>2, <2>3 DEF DiffGood
<1>6. \A i, j \in Rows_ : ~OwnRow(a, i) /\ OwnRow(a, j) => Before(i, j) /\ ~Before(j, i)
  BY <1>0, OwnAfter DEF SaveHolds
<1> HIDE DEF O
<1>7. ASSUME NEW v \in Value, v \in panel[a][l] PROVE \E i \in Rows_ : Stands(i, l, v)
  <2>1. \A j \in Rows_ : OwnRow(a, j) => ~Kills(table[j].op, l, v)
    BY <1>4, <1>5, <1>7
  <2>2. CASE Add(l, v) \in O
    <3>1. PICK i \in Rows_ : OwnRow(a, i) /\ table[i].op = Add(l, v)
      BY <1>4, <2>2
    <3>2. Stands(i, l, v)
      BY <1>6, <2>1, <3>1 DEF Stands
    <3> QED BY <3>2
  <2>3. CASE StoodBefore(a, l, v)
    <3>1. PICK i \in Rows_ : /\ ~OwnRow(a, i) /\ table[i].op = Add(l, v)
                             /\ \A j \in Rows_ : ~OwnRow(a, j) /\ Before(i, j) => ~Kills(table[j].op, l, v)
      BY <2>3 DEF StoodBefore
    <3>2. Stands(i, l, v)
      BY <2>1, <3>1 DEF Stands
    <3> QED BY <3>2
  <2> QED BY <1>5, <1>7, <2>2, <2>3
<1>8. ASSUME NEW v \in Value, v \notin panel[a][l], NEW i \in Rows_, Stands(i, l, v) PROVE FALSE
  <2>1. CASE OwnRow(a, i)
    BY <1>4, <1>5, <1>8, <2>1 DEF Stands
  <2>2. CASE ~OwnRow(a, i)
    <3>1. StoodBefore(a, l, v)
      BY <1>8, <2>2 DEF Stands, StoodBefore
    <3>2. PICK j \in Rows_ : OwnRow(a, j) /\ Kills(table[j].op, l, v)
      BY <1>4, <1>5, <1>8, <3>1
    <3> QED BY <1>6, <1>8, <2>2, <3>2 DEF Stands
  <2> QED BY <2>1, <2>2
<1>9. Shown[l] \subseteq Value /\ panel[a][l] \subseteq Value
  BY <1>1, <1>2 DEF Shown, States, State
<1>10. \A v \in Value : v \in Shown[l] <=> v \in panel[a][l]
  BY <1>3, <1>7, <1>8 DEF Shown
<1> QED BY <1>9, <1>10

(* Steps that do not touch the table.                                      *)
LEMMA SaveUntouched ==
  ASSUME NEW a \in Request, SaveHolds(a), LabelShape,
         table' = table, job'[a] = job[a], panel'[a] = panel[a],
         defs' = defs, subscribed' = subscribed, clock' \in Nat, clock <= clock',
         \A k \in 1..Len(log') : log'[k].rkey = job[a].rkey =>
           log'[k].performed = job[a].performed /\ Range(log'[k].ops) = SaveOps(a)
  PROVE  SaveHolds(a)'
<1>1. /\ \A i : OwnRow(a, i)' <=> OwnRow(a, i)
      /\ Rows_' = Rows_
      /\ \A i, j : Before(i, j)' <=> Before(i, j)
  BY DEF OwnRow, Rows_, Before, SortAt
<1>2. SaveOps(a)' = SaveOps(a)
  BY <1>1 DEF SaveOps
<1>3. Stood(a)' = Stood(a)
  BY <1>1 DEF Stood, StoodBefore
<1>4. OwnRowsLast(a)'
  <2>1. job[a].performed \in Nat /\ clock \in Nat
    BY DEF LabelShape, Entry
  <2>2. job[a].performed <= clock
    BY DEF SaveHolds, OwnRowsLast
  <2>3. job[a].performed <= clock'
    BY <2>1, <2>2
  <2> QED BY <1>1, <2>3 DEF SaveHolds, OwnRowsLast
<1>5. Logged(a)'
  BY <1>2 DEF Logged
<1> QED BY <1>2, <1>3, <1>4, <1>5 DEF SaveHolds, DiffGood

(* Steps that store operations of this save.                               *)
LEMMA SaveStored ==
  ASSUME NEW a \in Request, SaveHolds(a), LabelShape,
         StoredIn(table, table', job[a].rkey, SaveOps(a), job[a].performed),
         job'[a].rkey = job[a].rkey, job'[a].performed = job[a].performed,
         panel'[a] = panel[a],
         Range(job'[a].ops) \subseteq SaveOps(a),
         \A o \in Range(job[a].ops) :
           \/ o \in Range(job'[a].ops)
           \/ \E i \in 1..Len(table') : table'[i].rkey = job[a].rkey /\ table'[i].op = o,
         defs' = defs, subscribed' = subscribed, log' = log, clock' = clock
  PROVE  SaveHolds(a)'
<1> DEFINE k == job[a].rkey
           p == job[a].performed
           O == SaveOps(a)
           n == Len(table)
<1>1. /\ table \in Seq(RowShape) /\ n \in Nat /\ Rows_ = 1..n
      /\ table' \in Seq(RowShape) /\ n <= Len(table') /\ Len(table') \in Nat /\ Rows_' = 1..Len(table')
  BY DEF LabelShape, StoredIn, Rows_
<1>2. p \in Nat /\ clock \in Nat /\ p <= clock
  BY DEF LabelShape, Entry, SaveHolds, OwnRowsLast
<1>3. \A i \in Rows_' :
        \/ i \in Rows_ /\ table'[i] = table[i]
        \/ /\ table'[i].rkey = k /\ table'[i].performed = p /\ table'[i].indexed = clock
           /\ table'[i].op \in O
           /\ i \in Rows_ => Same(table[i], k, table'[i].op)
  BY <1>1 DEF StoredIn
<1>4. Rows_ \subseteq Rows_'
  BY <1>1
<1>5. \A i \in Rows_ : OwnRow(a, i)' <=> OwnRow(a, i)
  BY <1>3, <1>4 DEF OwnRow, Same
<1>6. \A i \in Rows_' : ~OwnRow(a, i)' => i \in Rows_ /\ table'[i] = table[i]
  BY <1>3 DEF OwnRow
<1>7. \A i \in Rows_ : ~OwnRow(a, i) => table'[i] = table[i] /\ i \in Rows_' /\ ~OwnRow(a, i)'
  BY <1>4, <1>5, <1>6
<1>8. ASSUME NEW o PROVE o \in SaveOps(a)' <=> o \in O
  <2>1. o \in SaveOps(a)' <=> (\E i \in Rows_' : OwnRow(a, i)' /\ table'[i].op = o) \/ o \in Range(job'[a].ops)
    BY DEF SaveOps
  <2>2. o \in O <=> (\E i \in Rows_ : OwnRow(a, i) /\ table[i].op = o) \/ o \in Range(job[a].ops)
    BY DEF SaveOps
  <2>3. ASSUME NEW i \in Rows_', OwnRow(a, i)', table'[i].op = o PROVE o \in O
    <3>1. CASE i \in Rows_ /\ table'[i] = table[i]
      BY <1>5, <2>2, <2>3, <3>1
    <3>2. CASE table'[i].op \in O
      BY <2>3, <3>2
    <3> QED BY <1>3, <3>1, <3>2
  <2>4. ASSUME NEW i \in Rows_, OwnRow(a, i), table[i].op = o PROVE OwnRow(a, i)' /\ table'[i].op = o
    <3>1. o \in O
      BY <2>2, <2>4
    <3>2. Agree(O)
      BY DEF SaveHolds, DiffGood
    <3>3. CASE table'[i] = table[i]
      BY <1>5, <2>4, <3>3
    <3>4. CASE table'[i].op \in O /\ Same(table[i], k, table'[i].op)
      <4>1. table'[i].op.key = o.key /\ table'[i].op.val = o.val
        BY <2>4, <3>4 DEF Same
      <4> HIDE DEF O
      <4>2. table'[i].op = o
        BY <3>1, <3>2, <3>4, <4>1 DEF Agree
      <4> QED BY <1>5, <2>4, <4>2
    <3> QED BY <1>3, <1>4, <3>3, <3>4
  <2>5. ASSUME o \in Range(job[a].ops)
        PROVE  o \in Range(job'[a].ops) \/ \E i \in Rows_' : OwnRow(a, i)' /\ table'[i].op = o
    BY <1>1, <2>5 DEF OwnRow
  <2> HIDE DEF O
  <2>6. Range(job'[a].ops) \subseteq O
    BY DEF O
  <2> QED BY <2>1, <2>2, <2>3, <2>4, <2>5, <2>6, <1>4
<1>9. SaveOps(a)' = O
  <2> HIDE DEF O
  <2> QED BY <1>8
<1>10. \A i, j \in Rows_ : ~OwnRow(a, i) /\ ~OwnRow(a, j) => (Before(i, j)' <=> Before(i, j))
  BY <1>7 DEF Before, SortAt
<1>11. \A l, v : StoodBefore(a, l, v)' <=> StoodBefore(a, l, v)
  <2> SUFFICES ASSUME NEW l, NEW v PROVE StoodBefore(a, l, v)' <=> StoodBefore(a, l, v)
    OBVIOUS
  <2>1. ASSUME StoodBefore(a, l, v) PROVE StoodBefore(a, l, v)'
    <3>1. PICK i \in Rows_ : /\ ~OwnRow(a, i) /\ table[i].op = Add(l, v)
                             /\ \A j \in Rows_ : ~OwnRow(a, j) /\ Before(i, j) => ~Kills(table[j].op, l, v)
      BY <2>1 DEF StoodBefore
    <3>2. i \in Rows_' /\ ~OwnRow(a, i)' /\ table'[i].op = Add(l, v)
      BY <1>7, <3>1
    <3>3. \A j \in Rows_' : ~OwnRow(a, j)' /\ Before(i, j)' => ~Kills(table'[j].op, l, v)
      BY <1>5, <1>6, <1>10, <3>1
    <3> QED BY <3>2, <3>3 DEF StoodBefore
  <2>2. ASSUME StoodBefore(a, l, v)' PROVE StoodBefore(a, l, v)
    <3>1. PICK i \in Rows_' : /\ ~OwnRow(a, i)' /\ table'[i].op = Add(l, v)
                              /\ \A j \in Rows_' : ~OwnRow(a, j)' /\ Before(i, j)' => ~Kills(table'[j].op, l, v)
      BY <2>2 DEF StoodBefore
    <3>2. i \in Rows_ /\ ~OwnRow(a, i) /\ table[i].op = Add(l, v)
      BY <1>5, <1>6, <3>1
    <3>3. \A j \in Rows_ : ~OwnRow(a, j) /\ Before(i, j) => ~Kills(table[j].op, l, v)
      BY <1>7, <1>10, <3>1, <3>2
    <3> QED BY <3>2, <3>3 DEF StoodBefore
  <2> QED BY <2>1, <2>2
<1>12. Stood(a)' = Stood(a)
  BY <1>11 DEF Stood
<1>13. OwnRowsLast(a)'
  <2>1. ASSUME NEW i \in Rows_'
        PROVE  IF OwnRow(a, i)' THEN table'[i].performed = p /\ p <= table'[i].indexed
               ELSE table'[i].indexed <= p
    <3>1. CASE ~OwnRow(a, i)'
      BY <1>5, <1>6, <3>1 DEF SaveHolds, OwnRowsLast
    <3>2. CASE OwnRow(a, i)' /\ i \in Rows_ /\ table'[i] = table[i]
      BY <1>5, <3>2 DEF SaveHolds, OwnRowsLast
    <3>3. CASE OwnRow(a, i)' /\ table'[i].performed = p /\ table'[i].indexed = clock
      BY <1>2, <3>3
    <3> QED BY <1>3, <3>1, <3>2, <3>3
  <2>2. ASSUME NEW i \in Rows_', NEW j \in Rows_', OwnRow(a, i)', ~OwnRow(a, j)' PROVE j < i
    <3>1. j \in Rows_ /\ ~OwnRow(a, j)
      BY <1>5, <1>6, <2>2
    <3>2. CASE i \in Rows_
      BY <1>5, <2>2, <3>1, <3>2 DEF SaveHolds, OwnRowsLast
    <3>3. CASE i \notin Rows_
      BY <1>1, <3>1, <3>3
    <3> QED BY <3>2, <3>3
  <2> QED BY <1>2, <2>1, <2>2 DEF OwnRowsLast
<1>14. Logged(a)'
  BY <1>9 DEF Logged, SaveHolds
<1> QED BY <1>9, <1>12, <1>13, <1>14 DEF SaveHolds, DiffGood

LEMMA InitLabels == LabelsInit => LabelsInv
<1> SUFFICES ASSUME LabelsInit PROVE LabelsInv
  OBVIOUS
<1>1. Rest \in Entry /\ Empty \in State
  <2>1. << >> \in Seq(Op)
    OBVIOUS
  <2> QED BY <2>1 DEF Rest, Entry, Empty, State
<1>2. /\ table = << >> /\ log = << >> /\ << >> \in Seq(RowShape) /\ << >> \in Seq(Entry)
      /\ Rows_ = {} /\ 1..Len(log) = {}
  BY DEF LabelsInit, Rows_
<1>3. LabelShape
  BY <1>1, <1>2 DEF LabelsInit, LabelShape
<1>4. \A a \in Request : pc[a] = "idle"
  BY DEF LabelsInit
<1> QED BY <1>3, <1>4 DEF LabelsInv, SavesKeyed, SavesHold

(* A record has the operations of its save.                                *)
LEMMA RecordHas ==
  ASSUME NEW j \in Entry
  PROVE  /\ AsRecord(j) \in Entry /\ AsRecord(j).rkey = j.rkey
         /\ AsRecord(j).performed = j.performed
         /\ Range(AsRecord(j).ops) = Range(j.ops)
<1> DEFINE K(op) == {k \in 1..Len(j.ops) : j.ops[k].op = op}
           d == Keep(j.ops, K("del"))
           a == Keep(j.ops, K("add"))
           q == d \o a
<1>1. j.ops \in Seq(Op) /\ j.rkey \in Nat /\ j.performed \in Nat
  BY DEF Entry
<1>2. AsRecord(j) = [rkey |-> j.rkey, performed |-> j.performed, ops |-> q]
  BY DEF AsRecord
<1>3. d \in Seq(Op) /\ a \in Seq(Op)
  <2> HIDE DEF K
  <2> QED BY <1>1, KeepHas
<1>4. \A x : x \in Range(d) <=> \E k \in 1..Len(j.ops) : k \in K("del") /\ j.ops[k] = x
  <2> DEFINE S == K("del")
             r == j.ops
  <2>1. r \in Seq(Op)
    BY <1>1
  <2> HIDE DEF S, r
  <2>2. \A x : x \in Range(Keep(r, S)) <=> \E k \in 1..Len(r) : k \in S /\ r[k] = x
    BY <2>1, KeepHas
  <2> QED BY <2>2 DEF S, r
<1>5. \A x : x \in Range(a) <=> \E k \in 1..Len(j.ops) : k \in K("add") /\ j.ops[k] = x
  <2> DEFINE S == K("add")
             r == j.ops
  <2>1. r \in Seq(Op)
    BY <1>1
  <2> HIDE DEF S, r
  <2>2. \A x : x \in Range(Keep(r, S)) <=> \E k \in 1..Len(r) : k \in S /\ r[k] = x
    BY <2>1, KeepHas
  <2> QED BY <2>2 DEF S, r
<1>6. \A x : x \in Range(j.ops) <=> \E k \in 1..Len(j.ops) : j.ops[k] = x
  BY <1>1 DEF Range
<1>7. \A k \in 1..Len(j.ops) : j.ops[k].op \in {"add", "del"}
  <2>1. \A k \in 1..Len(j.ops) : j.ops[k] \in Op
    BY <1>1
  <2> QED BY <2>1 DEF Op
<1> HIDE DEF d, a
<1>8. Range(q) = Range(d) \cup Range(a) /\ q \in Seq(Op)
  BY <1>3, ConcatHas
<1>9. Range(q) = Range(j.ops)
  BY <1>4, <1>5, <1>6, <1>7, <1>8
<1> HIDE DEF q
<1>10. [rkey |-> j.rkey, performed |-> j.performed, ops |-> q] \in Entry
  BY <1>1, <1>8 DEF Entry
<1> QED BY <1>2, <1>9, <1>10

LEMMA PanelsAreStates == Panels \subseteq States
<1> SUFFICES ASSUME NEW s \in Panels PROVE s \in States
  OBVIOUS
<1>1. s \in State /\ \A l \in Label : l \notin Multiple => Cardinality(s[l]) <= 1
  BY DEF Panels
<1>2. ASSUME NEW l \in Label \ Multiple, NEW v \in s[l], NEW w \in s[l], v # w PROVE FALSE
  <2>1. s[l] \subseteq Value /\ IsFiniteSet(s[l])
    <3>1. s[l] \subseteq Value
      BY <1>1 DEF State
    <3> QED BY <3>1, LabelsAssumption, FS_Subset
  <2>2. Cardinality({v, w}) <= Cardinality(s[l])
    BY <2>1, FS_Subset
  <2>3. Cardinality({v, w}) = 2
    <3>1. IsFiniteSet({v}) /\ Cardinality({v}) = 1
      BY FS_Singleton
    <3>2. w \notin {v} /\ {v} \cup {w} = {v, w}
      BY <1>2
    <3>3. Cardinality({v} \cup {w}) = Cardinality({v}) + 1
      <4> DEFINE T == {v}
      <4>1. IsFiniteSet(T) /\ w \notin T
        BY <3>1, <3>2
      <4> HIDE DEF T
      <4>2. Cardinality(T \cup {w}) = Cardinality(T) + 1
        BY <4>1, FS_AddElement
      <4> QED BY <4>2 DEF T
    <3> QED BY <3>1, <3>2, <3>3
  <2>4. Cardinality(s[l]) \in Nat /\ Cardinality(s[l]) <= 1
    BY <1>1, <2>1, FS_CardinalityType
  <2> QED BY <2>2, <2>3, <2>4
<1> QED BY <1>1, <1>2 DEF States, Single

LEMMA TickKeeps == LabelsInv /\ Tick => LabelsInv'
<1> SUFFICES ASSUME LabelsInv, Tick PROVE LabelsInv'
  OBVIOUS
<1> USE DEF content, bounds
<1>0. LabelShape /\ SavesKeyed /\ SavesHold
  BY DEF LabelsInv
<1>1. /\ table' = table /\ log' = log /\ job' = job /\ pc' = pc /\ panel' = panel /\ calm' = calm
      /\ defs' = defs /\ subscribed' = subscribed /\ records' = records /\ pos' = pos
      /\ clock \in Nat /\ clock' = clock + 1
  BY <1>0 DEF Tick, LabelShape
<1>2. LabelShape'
  <2>2. ASSUME NEW i \in Rows_ PROVE table[i].indexed <= clock + 1
    <3>1. table[i] \in RowShape /\ table[i].indexed <= clock
      BY <1>0 DEF LabelShape, Rows_
    <3>2. table[i].indexed \in Nat
      BY <3>1 DEF RowShape
    <3> QED BY <1>1, <3>1, <3>2
  <2> QED BY <1>0, <1>1, <2>2 DEF LabelShape, Rows_
<1>3. SavesKeyed'
  BY <1>0, <1>1 DEF SavesKeyed, Unseen, Rows_
<1>4. SavesHold'
  <2> SUFFICES ASSUME NEW a \in Request, pc[a] \in {"put", "insert", "done"}, calm[a] PROVE SaveHolds(a)'
    BY <1>1 DEF SavesHold
  <2>1. SaveHolds(a)
    BY <1>0 DEF SavesHold
  <2>2. clock' \in Nat /\ clock <= clock'
    BY <1>1
  <2>3. \A k \in 1..Len(log') : log'[k].rkey = job[a].rkey =>
          log'[k].performed = job[a].performed /\ Range(log'[k].ops) = SaveOps(a)
    BY <1>1, <2>1 DEF SaveHolds, Logged
  <2> QED BY <1>0, <1>1, <2>1, <2>2, <2>3, SaveUntouched
<1> QED BY <1>2, <1>3, <1>4 DEF LabelsInv

LEMMA PerformKeeps ==
  ASSUME LabelsInv, NEW a \in Request, NEW want \in Panels, PerformLabelOp(a, want)
  PROVE  LabelsInv'
<1> USE DEF content
<1> DEFINE known == defs \cap subscribed
           s == ApplyLabelOps(known)
           ops == Diff(known, s, want)
           new == [rkey |-> records + 1, ops |-> ops, performed |-> clock]
           at == IF ops = << >> THEN "done" ELSE "put"
<1>0. LabelShape /\ SavesKeyed /\ SavesHold
  BY DEF LabelsInv
<1>1. /\ table' = table /\ log' = log /\ calm' = calm /\ clock' = clock
      /\ defs' = defs /\ subscribed' = subscribed /\ pos' = pos
      /\ records' = records + 1
      /\ job' = [job EXCEPT ![a] = new]
      /\ panel' = [panel EXCEPT ![a] = want]
      /\ pc' = [pc EXCEPT ![a] = at]
      /\ pc[a] = "idle"
  BY DEF PerformLabelOp
<1>2. /\ clock \in Nat /\ records \in Nat /\ table \in Seq(RowShape)
      /\ pc \in [Request -> {"idle", "put", "insert", "undo", "done"}]
      /\ job \in [Request -> Entry] /\ panel \in [Request -> State]
      /\ \A i \in Rows_ : table[i] \in RowShape /\ table[i].rkey <= records /\ table[i].indexed <= clock
      /\ \A k \in 1..Len(log) : log[k] \in Entry /\ log[k].rkey <= records
  BY <1>0 DEF LabelShape, Rows_
<1>n. /\ \A i \in Rows_ : table[i].rkey \in Nat /\ table[i].indexed \in Nat
      /\ \A k \in 1..Len(log) : log[k].rkey \in Nat
  BY <1>2 DEF RowShape, Entry
<1>3. s \in States /\ want \in States
  <2> HIDE DEF known
  <2>1. s \in States
    BY <1>2, ShownHolds
  <2> QED BY <2>1, PanelsAreStates
<1>4. \A l \in Label \cap known, v \in Value : v \in s[l] <=> \E i \in Rows_ : Stands(i, l, v)
  <2> HIDE DEF known
  <2> QED BY <1>2, ShownHolds
<1> HIDE DEF s, known
<1>5. ops \in Seq(Op) /\ DiffGood(known, s, want, Range(ops))
  BY <1>3, DiffTurns
<1> HIDE DEF ops
<1>6. new \in Entry /\ want \in State
  BY <1>2, <1>3, <1>5 DEF Entry, States
<1>7. /\ \A b \in Request : b # a => job'[b] = job[b] /\ panel'[b] = panel[b] /\ pc'[b] = pc[b]
      /\ job'[a] = new /\ panel'[a] = want /\ pc'[a] = at
  BY <1>1, <1>2
<1>8. LabelShape'
  <2>1. job' \in [Request -> Entry] /\ panel' \in [Request -> State]
        /\ pc' \in [Request -> {"idle", "put", "insert", "undo", "done"}]
    BY <1>1, <1>2, <1>6
  <2>2. \A i \in Rows_ : table[i].rkey <= records + 1
    BY <1>2, <1>n
  <2>3. \A k \in 1..Len(log) : log[k].rkey <= records + 1
    BY <1>2, <1>n
  <2> QED BY <1>0, <1>1, <1>2, <2>1, <2>2, <2>3 DEF LabelShape, Rows_
<1>9. Unseen(records + 1)
  BY <1>2, <1>n DEF Unseen
<1>10. SavesKeyed'
  <2>1. ASSUME NEW b \in Request, pc'[b] # "idle" PROVE job'[b].rkey \in 1..(records + 1)
    <3>1. CASE b = a
      BY <1>2, <1>7, <3>1
    <3>2. CASE b # a
      <4>1. job[b].rkey \in 1..records
        BY <1>0, <1>7, <2>1, <3>2 DEF SavesKeyed
      <4> QED BY <1>2, <1>7, <3>2, <4>1
    <3> QED BY <3>1, <3>2
  <2>2. ASSUME NEW b \in Request
        PROVE  /\ pc'[b] \in {"put", "insert"} => job'[b].ops # << >>
               /\ pc'[b] = "put" => Unseen(job'[b].rkey)
               /\ pc'[b] = "done" => job'[b].ops = << >>
    <3>1. CASE b = a
      BY <1>7, <1>9, <3>1
    <3>2. CASE b # a
      BY <1>0, <1>7, <3>2 DEF SavesKeyed
    <3> QED BY <3>1, <3>2
  <2>3. ASSUME NEW b \in Request, NEW c \in Request, pc'[b] # "idle", pc'[c] # "idle",
               job'[b].rkey = job'[c].rkey, b # c
        PROVE  FALSE
    <3>1. \A d \in Request : d # a /\ pc'[d] # "idle" => job'[d].rkey # records + 1
      <4> SUFFICES ASSUME NEW d \in Request, d # a, pc'[d] # "idle" PROVE job'[d].rkey # records + 1
        OBVIOUS
      <4>1. job[d].rkey \in 1..records
        BY <1>0, <1>7 DEF SavesKeyed
      <4> QED BY <1>2, <1>7, <4>1
    <3>2. job'[a].rkey = records + 1
      BY <1>7
    <3>3. b # a /\ c # a
      BY <2>3, <3>1, <3>2
    <3> QED BY <1>0, <1>7, <2>3, <3>3 DEF SavesKeyed
  <2>4. \A k : Unseen(k)' <=> Unseen(k)
    BY <1>1 DEF Unseen, Rows_
  <2> QED BY <1>1, <2>1, <2>2, <2>3, <2>4 DEF SavesKeyed
<1>11. ASSUME NEW b \in Request, b # a, pc'[b] \in {"put", "insert", "done"}, calm'[b] PROVE SaveHolds(b)'
  <2>1. SaveHolds(b)
    BY <1>0, <1>1, <1>7, <1>11 DEF SavesHold
  <2>2. clock' \in Nat /\ clock <= clock' /\ job'[b] = job[b] /\ panel'[b] = panel[b]
    BY <1>1, <1>2, <1>7, <1>11
  <2>3. \A k \in 1..Len(log') : log'[k].rkey = job[b].rkey =>
          log'[k].performed = job[b].performed /\ Range(log'[k].ops) = SaveOps(b)
    BY <1>1, <2>1 DEF SaveHolds, Logged
  <2> QED BY <1>0, <1>1, <2>1, <2>2, <2>3, SaveUntouched
<1>12. SaveHolds(a)'
  <2>1. job'[a].rkey = records + 1 /\ job'[a].performed = clock /\ job'[a].ops = ops
    BY <1>7
  <2>2. \A i \in Rows_ : ~OwnRow(a, i)'
    BY <1>1, <1>9, <2>1 DEF OwnRow, Unseen
  <2>3. Rows_' = Rows_ /\ \A i, j : Before(i, j)' <=> Before(i, j)
    BY <1>1 DEF Rows_, Before, SortAt
  <2>4. OwnRowsLast(a)'
    <3>1. job'[a].performed <= clock
      BY <1>2, <2>1
    <3>2. \A i \in Rows_ : table'[i].indexed <= job'[a].performed
      BY <1>1, <1>2, <2>1
    <3> QED BY <1>1, <2>2, <2>3, <3>1, <3>2 DEF OwnRowsLast
  <2>5. Logged(a)'
    BY <1>1, <1>9, <2>1 DEF Logged, Unseen
  <2>6. SaveOps(a)' = Range(ops)
    BY <2>1, <2>2, <2>3 DEF SaveOps
  <2>7. \A l \in Label, v \in Value : v \in Stood(a)'[l] <=> StoodBefore(a, l, v)'
    BY DEF Stood
  <2>8. \A l, v : StoodBefore(a, l, v)' <=> \E i \in Rows_ : Stands(i, l, v)
    BY <1>1, <2>2, <2>3 DEF StoodBefore, Stands
  <2>9. \A l \in Label \cap known, v \in Value : v \in Stood(a)'[l] <=> v \in s[l]
    BY <1>4, <2>7, <2>8
  <2>10. known' = known
    BY <1>1 DEF known
  <2>11. DiffGood(known, Stood(a)', want, Range(ops))
    <3> DEFINE R == Range(ops)
               t == Stood(a)'
    <3>1. DiffGood(known, s, want, R) /\ \A l \in Label \cap known, v \in Value : v \in t[l] <=> v \in s[l]
      BY <1>5, <2>9
    <3> HIDE DEF R, t
    <3>2. DiffGood(known, t, want, R)
      BY <3>1 DEF DiffGood
    <3> QED BY <3>2 DEF R, t
  <2>12. DiffGood(defs \cap subscribed, Stood(a), panel[a], SaveOps(a))'
    BY <1>1, <1>7, <2>6, <2>11 DEF DiffGood, known
  <2> QED BY <2>4, <2>5, <2>12 DEF SaveHolds
<1>13. SavesHold'
  BY <1>11, <1>12 DEF SavesHold
<1> QED BY <1>8, <1>10, <1>13 DEF LabelsInv

(* A save that ends or gives up.                                           *)
LEMMA IdleKeeps ==
  ASSUME LabelsInv, NEW a \in Request, Goto(a, "idle"),
         UNCHANGED <<clock, content, log, pos, records>>
  PROVE  LabelsInv'
<1> USE DEF content
<1>0. LabelShape /\ SavesKeyed /\ SavesHold
  BY DEF LabelsInv
<1>1. /\ table' = table /\ log' = log /\ clock' = clock /\ records' = records
      /\ defs' = defs /\ subscribed' = subscribed /\ pos' = pos
  OBVIOUS
<1>2. /\ pc' = [pc EXCEPT ![a] = "idle"] /\ job' = [job EXCEPT ![a] = Rest]
      /\ panel' = [panel EXCEPT ![a] = Empty] /\ calm' = [calm EXCEPT ![a] = TRUE]
  BY DEF Goto
<1>3. /\ pc \in [Request -> {"idle", "put", "insert", "undo", "done"}]
      /\ job \in [Request -> Entry] /\ panel \in [Request -> State] /\ calm \in [Request -> BOOLEAN]
      /\ clock \in Nat
  BY <1>0 DEF LabelShape
<1>4. Rest \in Entry /\ Empty \in State
  <2>1. << >> \in Seq(Op)
    OBVIOUS
  <2> QED BY <2>1 DEF Rest, Entry, Empty, State
<1>5. /\ \A b \in Request : b # a => /\ job'[b] = job[b] /\ panel'[b] = panel[b]
                                     /\ pc'[b] = pc[b] /\ calm'[b] = calm[b]
      /\ pc'[a] = "idle"
  BY <1>2, <1>3
<1>6. LabelShape'
  <2>1. job' \in [Request -> Entry] /\ panel' \in [Request -> State] /\ calm' \in [Request -> BOOLEAN]
        /\ pc' \in [Request -> {"idle", "put", "insert", "undo", "done"}]
    BY <1>2, <1>3, <1>4
  <2> QED BY <1>0, <1>1, <2>1 DEF LabelShape, Rows_
<1>7. SavesKeyed'
  <2>1. \A k : Unseen(k)' <=> Unseen(k)
    BY <1>1 DEF Unseen, Rows_
  <2>2. \A b \in Request : pc'[b] # "idle" => pc'[b] = pc[b] /\ job'[b] = job[b]
    BY <1>5
  <2>3. \A b \in Request : pc'[b] \in {"put", "insert", "done"} => pc'[b] # "idle"
    OBVIOUS
  <2> QED BY <1>0, <1>1, <2>1, <2>2, <2>3 DEF SavesKeyed
<1>8. SavesHold'
  <2> SUFFICES ASSUME NEW b \in Request, pc'[b] \in {"put", "insert", "done"}, calm'[b] PROVE SaveHolds(b)'
    BY DEF SavesHold
  <2>0. b # a
    BY <1>5
  <2>1. SaveHolds(b)
    BY <1>0, <1>5, <2>0 DEF SavesHold
  <2>2. clock' \in Nat /\ clock <= clock' /\ job'[b] = job[b] /\ panel'[b] = panel[b]
    BY <1>1, <1>3, <1>5, <2>0
  <2>3. \A k \in 1..Len(log') : log'[k].rkey = job[b].rkey =>
          log'[k].performed = job[b].performed /\ Range(log'[k].ops) = SaveOps(b)
    BY <1>1, <2>1 DEF SaveHolds, Logged
  <2> QED BY <1>0, <1>1, <2>1, <2>2, <2>3, SaveUntouched
<1> QED BY <1>6, <1>7, <1>8 DEF LabelsInv

(* A new record in the log.                                                *)
LEMMA LogGrows ==
  ASSUME LabelShape, NEW e \in Entry, log' = Append(log, e)
  PROVE  /\ log' \in Seq(Entry)
         /\ \A k \in 1..Len(log') : log'[k] = e \/ (k \in 1..Len(log) /\ log'[k] = log[k])
<1>1. log \in Seq(Entry)
  BY DEF LabelShape
<1> DEFINE m == log'
<1>2. m = Append(log, e)
  OBVIOUS
<1> HIDE DEF m
<1>3. m \in Seq(Entry) /\ \A k \in 1..Len(m) : m[k] = e \/ (k \in 1..Len(log) /\ m[k] = log[k])
  BY ONLY <1>1, <1>2, e \in Entry
<1> QED BY <1>3 DEF m

LEMMA PutKeeps ==
  ASSUME LabelsInv, NEW a \in Request, RepoPutRecord(a)
  PROVE  LabelsInv'
<1> USE DEF content, bounds
<1>0. LabelShape /\ SavesKeyed /\ SavesHold
  BY DEF LabelsInv
<1>1. CASE Upset /\ Goto(a, "idle") /\ UNCHANGED log
  <2>1. UNCHANGED <<clock, content, log, pos, records>>
    BY <1>1 DEF RepoPutRecord, Upset
  <2> QED BY <1>1, <2>1, IdleKeeps
<1>2. CASE /\ log' = Append(log, AsRecord(job[a]))
           /\ Goto(a, "insert")
           /\ UNCHANGED <<job, calm, bounds>>
  <2> DEFINE e == AsRecord(job[a])
  <2>1. /\ table' = table /\ clock' = clock /\ records' = records /\ job' = job /\ calm' = calm
        /\ defs' = defs /\ subscribed' = subscribed /\ pos' = pos /\ panel' = panel
        /\ pc' = [pc EXCEPT ![a] = "insert"] /\ pc[a] = "put"
    BY <1>2 DEF RepoPutRecord, Goto
  <2>2. /\ pc \in [Request -> {"idle", "put", "insert", "undo", "done"}] /\ job[a] \in Entry
        /\ clock \in Nat
    BY <1>0 DEF LabelShape
  <2>3. /\ e \in Entry /\ e.rkey = job[a].rkey /\ e.performed = job[a].performed
        /\ Range(e.ops) = Range(job[a].ops)
    BY <2>2, RecordHas
  <2>l. log' = Append(log, e)
    BY <1>2
  <2> HIDE DEF e
  <2>4. /\ log' \in Seq(Entry)
        /\ \A k \in 1..Len(log') : log'[k] = e \/ (k \in 1..Len(log) /\ log'[k] = log[k])
    BY <1>0, <2>3, <2>l, LogGrows
  <2>5. job[a].rkey \in 1..records /\ records \in Nat /\ Unseen(job[a].rkey)
    BY <1>0, <2>1 DEF SavesKeyed, LabelShape
  <2>6. pc'[a] = "insert" /\ \A b \in Request : b # a => pc'[b] = pc[b]
    BY <2>1, <2>2
  <2>7. \A b \in Request : b # a /\ pc[b] # "idle" => job[b].rkey # e.rkey
    BY <1>0, <2>1, <2>3 DEF SavesKeyed
  <2>8. LabelShape'
    <3>1. pc' \in [Request -> {"idle", "put", "insert", "undo", "done"}]
      BY <2>1, <2>2
    <3>2. \A k \in 1..Len(log') : log'[k].rkey <= records
      <4>1. e.rkey <= records
        BY <2>3, <2>5
      <4> QED BY <1>0, <2>4, <4>1 DEF LabelShape
    <3> QED BY <1>0, <2>1, <2>4, <3>1, <3>2 DEF LabelShape, Rows_
  <2>9. SavesKeyed'
    <3>1. ASSUME NEW b \in Request, pc'[b] = "put" PROVE Unseen(job[b].rkey)'
      <4>1. b # a /\ pc[b] = "put"
        BY <2>6, <3>1
      <4>2. Unseen(job[b].rkey)
        BY <1>0, <4>1 DEF SavesKeyed
      <4>3. job[b].rkey # e.rkey
        BY <2>7, <4>1
      <4> QED BY <2>1, <2>4, <4>2, <4>3 DEF Unseen, Rows_
    <3>2. ASSUME NEW b \in Request
          PROVE  /\ pc'[b] # "idle" => job[b].rkey \in 1..records
                 /\ pc'[b] \in {"put", "insert"} => job[b].ops # << >>
                 /\ pc'[b] = "done" => job[b].ops = << >>
      <4>1. CASE b = a
        BY <1>0, <2>1, <2>5, <2>6, <4>1 DEF SavesKeyed
      <4>2. CASE b # a
        BY <1>0, <2>6, <4>2 DEF SavesKeyed
      <4> QED BY <4>1, <4>2
    <3>3. \A b \in Request : pc'[b] # "idle" => pc[b] # "idle"
      BY <2>1, <2>6
    <3>4. \A b, c \in Request : pc'[b] # "idle" /\ pc'[c] # "idle" /\ job[b].rkey = job[c].rkey => b = c
      BY <1>0, <3>3 DEF SavesKeyed
    <3> QED BY <2>1, <3>1, <3>2, <3>4 DEF SavesKeyed
  <2>10. SavesHold'
    <3> SUFFICES ASSUME NEW b \in Request, pc'[b] \in {"put", "insert", "done"}, calm[b] PROVE SaveHolds(b)'
      BY <2>1 DEF SavesHold
    <3>1. SaveHolds(b)
      BY <1>0, <2>1, <2>6 DEF SavesHold
    <3>2. clock' \in Nat /\ clock <= clock' /\ job'[b] = job[b] /\ panel'[b] = panel[b]
      BY <2>1, <2>2
    <3>3. e.rkey = job[b].rkey => e.performed = job[b].performed /\ Range(e.ops) = SaveOps(b)
      <4>1. CASE b = a
        <5>1. \A i \in Rows_ : ~OwnRow(a, i)
          BY <2>5 DEF Unseen, OwnRow
        <5>2. SaveOps(a) = Range(job[a].ops)
          BY <5>1 DEF SaveOps
        <5> QED BY <2>3, <4>1, <5>2
      <4>2. CASE b # a
        BY <2>6, <2>7, <4>2
      <4> QED BY <4>1, <4>2
    <3>4. \A k \in 1..Len(log') : log'[k].rkey = job[b].rkey =>
            log'[k].performed = job[b].performed /\ Range(log'[k].ops) = SaveOps(b)
      BY <2>4, <3>1, <3>3 DEF SaveHolds, Logged
    <3> QED BY <1>0, <2>1, <3>1, <3>2, <3>4, SaveUntouched
  <2> QED BY <2>8, <2>9, <2>10 DEF LabelsInv
<1> QED BY <1>1, <1>2 DEF RepoPutRecord

LEMMA OtherClientKeeps ==
  ASSUME LabelsInv, NEW o \in Op, NEW t \in clock..(clock + 1), OtherClient(o, t)
  PROVE  LabelsInv'
<1> USE DEF content, bounds
<1> DEFINE e == [rkey |-> records + 1, ops |-> <<o>>, performed |-> t]
<1>0. LabelShape /\ SavesKeyed /\ SavesHold
  BY DEF LabelsInv
<1>1. /\ table' = table /\ clock' = clock /\ records' = records + 1 /\ job' = job /\ calm' = calm
      /\ defs' = defs /\ subscribed' = subscribed /\ pos' = pos /\ panel' = panel /\ pc' = pc
      /\ log' = Append(log, e)
  BY DEF OtherClient
<1>2. /\ clock \in Nat /\ records \in Nat /\ log \in Seq(Entry)
      /\ \A i \in Rows_ : table[i] \in RowShape /\ table[i].rkey <= records
      /\ \A k \in 1..Len(log) : log[k] \in Entry /\ log[k].rkey <= records
  BY <1>0 DEF LabelShape, Rows_
<1>n. /\ \A i \in Rows_ : table[i].rkey \in Nat
      /\ \A k \in 1..Len(log) : log[k].rkey \in Nat
  BY <1>2 DEF RowShape, Entry
<1>3. e \in Entry /\ e.rkey = records + 1
  <2>1. <<o>> \in Seq(Op) /\ t \in Nat
    BY <1>2
  <2> QED BY <1>2, <2>1 DEF Entry
<1> HIDE DEF e
<1>4. /\ log' \in Seq(Entry)
      /\ \A k \in 1..Len(log') : log'[k] = e \/ (k \in 1..Len(log) /\ log'[k] = log[k])
  BY <1>0, <1>1, <1>3, LogGrows
<1>5. \A b \in Request : pc[b] # "idle" => job[b].rkey # e.rkey /\ job[b].rkey \in 1..(records + 1)
  <2> SUFFICES ASSUME NEW b \in Request, pc[b] # "idle"
               PROVE  job[b].rkey # e.rkey /\ job[b].rkey \in 1..(records + 1)
    OBVIOUS
  <2>1. job[b].rkey \in 1..records
    BY <1>0 DEF SavesKeyed
  <2> QED BY <1>2, <1>3, <2>1
<1>6. LabelShape'
  <2>1. \A i \in Rows_ : table[i].rkey <= records + 1
    BY <1>2, <1>n
  <2>2. \A k \in 1..Len(log') : log'[k].rkey <= records + 1
    <3>1. e.rkey <= records + 1
      BY <1>2, <1>3
    <3>2. \A k \in 1..Len(log) : log[k].rkey <= records + 1
      BY <1>2, <1>n
    <3> QED BY <1>4, <3>1, <3>2
  <2> QED BY <1>0, <1>1, <1>2, <1>4, <2>1, <2>2 DEF LabelShape, Rows_
<1>7. SavesKeyed'
  <2>1. ASSUME NEW b \in Request, pc[b] = "put" PROVE Unseen(job[b].rkey)'
    <3>1. Unseen(job[b].rkey) /\ job[b].rkey # e.rkey
      BY <1>0, <1>5, <2>1 DEF SavesKeyed
    <3> QED BY <1>1, <1>4, <3>1 DEF Unseen, Rows_
  <2> QED BY <1>0, <1>1, <1>5, <2>1 DEF SavesKeyed
<1>8. SavesHold'
  <2> SUFFICES ASSUME NEW b \in Request, pc[b] \in {"put", "insert", "done"}, calm[b] PROVE SaveHolds(b)'
    BY <1>1 DEF SavesHold
  <2>1. SaveHolds(b)
    BY <1>0 DEF SavesHold
  <2>2. clock' \in Nat /\ clock <= clock' /\ job'[b] = job[b] /\ panel'[b] = panel[b]
    BY <1>1, <1>2
  <2>3. \A k \in 1..Len(log') : log'[k].rkey = job[b].rkey =>
          log'[k].performed = job[b].performed /\ Range(log'[k].ops) = SaveOps(b)
    <3>1. job[b].rkey # e.rkey
      BY <1>5
    <3> QED BY <1>4, <2>1, <3>1 DEF SaveHolds, Logged
  <2> QED BY <1>0, <1>1, <2>1, <2>2, <2>3, SaveUntouched
<1> QED BY <1>6, <1>7, <1>8 DEF LabelsInv

(* Nobody works on what he has read any more.                              *)
LEMMA EditKeeps ==
  ASSUME LabelsInv, Edited, table' \in Seq(RowShape), defs' \subseteq Label,
         \A i \in 1..Len(table') : \E j \in 1..Len(table) : table'[i] = table[j]
  PROVE  LabelsInv'
<1>0. LabelShape /\ SavesKeyed
  BY DEF LabelsInv
<1>1. /\ clock' = clock /\ log' = log /\ pos' = pos /\ pc' = pc /\ job' = job /\ panel' = panel
      /\ records' = records
      /\ calm' = [b \in Request |-> calm[b] /\ (b \notin Request \/ pc[b] = "idle")]
  BY DEF Edited, Upset, Disturb
<1>2. \A i \in 1..Len(table') : table'[i].rkey <= records /\ table'[i].indexed <= clock
  BY <1>0 DEF LabelShape, Rows_
<1>3. calm' \in [Request -> BOOLEAN] /\ \A b \in Request : calm'[b] => pc[b] = "idle"
  BY <1>0, <1>1 DEF LabelShape
<1>4. LabelShape'
  BY <1>0, <1>1, <1>2, <1>3 DEF LabelShape, Rows_
<1>5. \A k : Unseen(k) => Unseen(k)'
  BY <1>1 DEF Unseen, Rows_
<1>6. SavesKeyed'
  BY <1>0, <1>1, <1>5 DEF SavesKeyed
<1>7. SavesHold'
  BY <1>1, <1>3 DEF SavesHold
<1> QED BY <1>4, <1>6, <1>7 DEF LabelsInv

LEMMA DefinitionsKeep ==
  ASSUME LabelsInv, NEW l,
         \/ DeleteLabelDef(l) \/ SubscribeLabel(l) \/ UnsubscribeLabel(l)
         \/ l \in Label /\ AddLabelDef(l)
  PROVE  LabelsInv'
<1>0. table \in Seq(RowShape) /\ defs \subseteq Label
  BY DEF LabelsInv, LabelShape
<1>1. CASE DeleteLabelDef(l)
  <2> DEFINE K == {i \in 1..Len(table) : table[i].op.key # l}
  <2>1. Edited /\ defs' \subseteq Label /\ table' = Keep(table, K)
    BY <1>0, <1>1 DEF DeleteLabelDef
  <2> HIDE DEF K
  <2>2. Keep(table, K) \in Seq(RowShape)
    BY <1>0, KeepHas
  <2>3. \A x : x \in Range(Keep(table, K)) <=> \E k \in 1..Len(table) : k \in K /\ table[k] = x
    BY <1>0, KeepHas
  <2>4. \A i \in 1..Len(table') : table'[i] \in Range(table')
    BY <2>1, <2>2 DEF Range
  <2>5. \A i \in 1..Len(table') : \E j \in 1..Len(table) : table'[i] = table[j]
    BY <2>1, <2>3, <2>4
  <2> QED BY <2>1, <2>2, <2>5, EditKeeps
<1>2. CASE (l \in Label /\ AddLabelDef(l)) \/ SubscribeLabel(l) \/ UnsubscribeLabel(l)
  <2>1. Edited /\ table' = table /\ defs' \subseteq Label
    BY <1>0, <1>2 DEF AddLabelDef, SubscribeLabel, UnsubscribeLabel
  <2> QED BY <1>0, <2>1, EditKeeps
<1> QED BY <1>1, <1>2

LEMMA ReplayKeeps ==
  ASSUME LabelsInv, NEW from \in 1..(pos - 1), Replay(from)
  PROVE  LabelsInv'
<1> USE DEF content
<1>0. LabelShape
  BY DEF LabelsInv
<1>1. /\ clock' = clock /\ log' = log /\ table' = table /\ defs' = defs /\ records' = records
      /\ pos' = from
      /\ pc' = [a \in Request |-> "idle"] /\ job' = [a \in Request |-> Rest]
      /\ panel' = [a \in Request |-> Empty] /\ calm' = [a \in Request |-> TRUE]
  BY DEF Replay, Upset
<1>2. Rest \in Entry /\ Empty \in State
  <2>1. << >> \in Seq(Op)
    OBVIOUS
  <2> QED BY <2>1 DEF Rest, Entry, Empty, State
<1>3. from \in Nat \ {0}
  BY <1>0 DEF LabelShape
<1>4. LabelShape'
  BY <1>0, <1>1, <1>2, <1>3 DEF LabelShape, Rows_
<1>5. \A a \in Request : pc'[a] = "idle"
  BY <1>1
<1> QED BY <1>4, <1>5 DEF LabelsInv, SavesKeyed, SavesHold

LEMMA StoredShape ==
  ASSUME LabelShape, NEW k, k <= records, NEW O, NEW p, StoredIn(table, table', k, O, p),
         clock' = clock, records' = records, log' = log
  PROVE  /\ table' \in Seq(RowShape)
         /\ \A i \in Rows_' : table'[i].rkey <= records /\ table'[i].indexed <= clock
         /\ \A key : key # k /\ Unseen(key) => Unseen(key)'
<1>1. table' \in Seq(RowShape) /\ Rows_' = 1..Len(table') /\ Len(table) \in Nat /\ clock \in Nat
      /\ Rows_ = 1..Len(table)
  BY DEF StoredIn, LabelShape, Rows_
<1>2. \A i \in Rows_' : \/ i \in Rows_ /\ table'[i] = table[i]
                        \/ table'[i].rkey = k /\ table'[i].indexed = clock
  BY <1>1 DEF StoredIn
<1>3. \A i \in Rows_' : table'[i].rkey <= records /\ table'[i].indexed <= clock
  BY <1>1, <1>2 DEF LabelShape
<1>4. \A key : key # k /\ Unseen(key) => Unseen(key)'
  BY <1>2 DEF Unseen
<1> QED BY <1>1, <1>3, <1>4

LEMMA InsertStores ==
  ASSUME LabelsInv, NEW a \in Request, pc[a] = "insert",
         table' = AddLabelOp(table, job[a].rkey, Head(job[a].ops), job[a].performed),
         job' = [job EXCEPT ![a].ops = Tail(@)],
         Goto(a, IF Len(job[a].ops) = 1 THEN "done" ELSE "insert"),
         Disturb(Request \ {a}),
         UNCHANGED <<records, clock, defs, subscribed, log, pos>>
  PROVE  LabelsInv'
<1> DEFINE k == job[a].rkey
           p == job[a].performed
           ops == job[a].ops
           o == Head(ops)
           at == IF Len(ops) = 1 THEN "done" ELSE "insert"
<1>0. LabelShape /\ SavesKeyed /\ SavesHold
  BY DEF LabelsInv
<1>1. /\ pc' = [pc EXCEPT ![a] = at] /\ panel' = panel
      /\ calm' = [b \in Request |-> calm[b] /\ (b \notin Request \ {a} \/ pc[b] = "idle")]
  BY DEF Goto, Disturb
<1>2. /\ pc \in [Request -> {"idle", "put", "insert", "undo", "done"}]
      /\ job \in [Request -> Entry] /\ job[a] \in Entry /\ calm \in [Request -> BOOLEAN]
      /\ clock \in Nat /\ table \in Seq(RowShape) /\ records \in Nat
  BY <1>0 DEF LabelShape
<1>3. /\ k \in Nat /\ p \in Nat /\ ops \in Seq(Op) /\ ops # << >>
      /\ k \in 1..records
  BY <1>0, <1>2 DEF Entry, SavesKeyed
<1> HIDE DEF ops
<1>4. /\ o = ops[1] /\ o \in Op /\ Len(ops) \in Nat \ {0} /\ Tail(ops) \in Seq(Op)
      /\ Len(Tail(ops)) = Len(ops) - 1
      /\ \A i \in 1..(Len(ops) - 1) : Tail(ops)[i] = ops[i + 1]
  BY <1>3
<1>5. \A x : x \in Range(ops) <=> x = o \/ x \in Range(Tail(ops))
  <2>0. /\ \A x : x \in Range(ops) <=> \E i \in 1..Len(ops) : ops[i] = x
        /\ \A x : x \in Range(Tail(ops)) <=> \E i \in 1..(Len(ops) - 1) : Tail(ops)[i] = x
    BY <1>3, <1>4 DEF Range
  <2>1. ASSUME NEW x \in Range(ops) PROVE x = o \/ x \in Range(Tail(ops))
    <3>1. PICK i \in 1..Len(ops) : ops[i] = x
      BY <2>0
    <3>2. CASE i = 1
      BY <1>4, <3>1, <3>2
    <3>3. CASE i # 1
      <4>1. i - 1 \in 1..(Len(ops) - 1) /\ (i - 1) + 1 = i
        BY <1>4, <3>3
      <4>2. Tail(ops)[i - 1] = x
        BY <1>4, <3>1, <4>1
      <4> QED BY <2>0, <4>1, <4>2
    <3> QED BY <3>2, <3>3
  <2>2. o \in Range(ops)
    <3>1. 1 \in 1..Len(ops)
      BY <1>4
    <3> QED BY <1>4, <2>0, <3>1
  <2>3. ASSUME NEW x \in Range(Tail(ops)) PROVE x \in Range(ops)
    <3>1. PICK i \in 1..(Len(ops) - 1) : Tail(ops)[i] = x
      BY <2>0
    <3>2. i + 1 \in 1..Len(ops) /\ ops[i + 1] = x
      BY <1>4, <3>1
    <3> QED BY <2>0, <3>2
  <2> QED BY <2>1, <2>2, <2>3
<1>6. \A O : o \in O => StoredIn(table, table', k, O, p)
  <2> SUFFICES ASSUME NEW O, o \in O PROVE StoredIn(table, table', k, O, p)
    OBVIOUS
  <2>1. StoredIn(table, table, k, O, p)
    BY <1>2 DEF StoredIn
  <2>2. table' = AddLabelOp(table, k, o, p)
    BY DEF ops
  <2> HIDE DEF k, o, p
  <2>3. StoredIn(table, AddLabelOp(table, k, o, p), k, O, p)
    BY <1>2, <1>3, <1>4, <2>1, StoresMore
  <2> QED BY <2>2, <2>3
<1>7. \E i \in 1..Len(table') : table'[i].rkey = k /\ table'[i].op = o
  <2>1. table' = AddLabelOp(table, k, o, p)
    BY DEF ops
  <2> HIDE DEF k, o, p
  <2>2. \E i \in 1..Len(AddLabelOp(table, k, o, p)) :
          AddLabelOp(table, k, o, p)[i] = [rkey |-> k, op |-> o, performed |-> p, indexed |-> clock]
    <3>1. clock \in Nat /\ table \in Seq(RowShape) /\ k \in Nat /\ o \in Op /\ p \in Nat
      BY <1>2, <1>3, <1>4
    <3> QED BY ONLY <3>1, AddStores
  <2> DEFINE u == AddLabelOp(table, k, o, p)
  <2> HIDE DEF u
  <2>3. PICK i \in 1..Len(u) : u[i] = [rkey |-> k, op |-> o, performed |-> p, indexed |-> clock]
    BY <2>2 DEF u
  <2>4. u[i].rkey = k /\ u[i].op = o
    BY <2>3
  <2> QED BY <2>1, <2>3, <2>4 DEF u
<1>8. /\ job'[a] = [job[a] EXCEPT !.ops = Tail(ops)]
      /\ \A b \in Request : b # a => job'[b] = job[b] /\ pc'[b] = pc[b]
      /\ pc'[a] = at
  BY <1>1, <1>2 DEF ops
<1>9. /\ job'[a].rkey = k /\ job'[a].performed = p /\ job'[a].ops = Tail(ops) /\ job'[a] \in Entry
  <2> DEFINE e == job[a]
  <2>1. e \in Entry /\ k = e.rkey /\ p = e.performed /\ job'[a] = [e EXCEPT !.ops = Tail(ops)]
    BY <1>2, <1>8
  <2> DEFINE rest == Tail(ops)
  <2>2. rest \in Seq(Op) /\ job'[a] = [e EXCEPT !.ops = rest]
    BY <1>4, <2>1
  <2> HIDE DEF e, k, p, rest
  <2>3. job'[a].rkey = k /\ job'[a].performed = p /\ job'[a].ops = rest /\ job'[a] \in Entry
    BY <2>1, <2>2 DEF Entry
  <2> QED BY <2>3 DEF rest
<1>c. /\ calm' \in [Request -> BOOLEAN]
      /\ \A b \in Request : calm'[b] => calm[b] /\ (b = a \/ pc[b] = "idle")
  BY <1>1, <1>2
<1>10. StoredIn(table, table', k, {o}, p) /\ k <= records
  BY <1>2, <1>3, <1>6
<1>11. /\ table' \in Seq(RowShape)
       /\ \A i \in Rows_' : table'[i].rkey <= records /\ table'[i].indexed <= clock
       /\ \A key : key # k /\ Unseen(key) => Unseen(key)'
  <2> HIDE DEF k, o, p
  <2>1. clock' = clock /\ records' = records /\ log' = log
    OBVIOUS
  <2> QED BY <1>0, <1>10, <2>1, StoredShape
<1> HIDE DEF o
<1>12. LabelShape'
  <2>1. job' \in [Request -> Entry] /\ pc' \in [Request -> {"idle", "put", "insert", "undo", "done"}]
    <3>1. \A b \in Request : job'[b] \in Entry
      BY <1>2, <1>8, <1>9
    <3> QED BY <1>1, <1>2, <3>1
  <2> QED BY <1>0, <1>1, <1>11, <1>c, <2>1 DEF LabelShape
<1>13. SavesKeyed'
  <2>1. ASSUME NEW b \in Request
        PROVE  /\ pc'[b] # "idle" => job'[b].rkey \in 1..records
               /\ pc'[b] \in {"put", "insert"} => job'[b].ops # << >>
               /\ pc'[b] = "put" => /\ \A i \in Rows_' : table'[i].rkey # job'[b].rkey
                                    /\ \A m \in 1..Len(log') : log'[m].rkey # job'[b].rkey
               /\ pc'[b] = "done" => job'[b].ops = << >>
    <3>1. CASE b = a
      <4>0. Tail(ops) = << >> <=> Len(Tail(ops)) = 0
        BY <1>4, EmptySeq
      <4>1. Len(ops) = 1 => Tail(ops) = << >>
        BY <1>4, <4>0
      <4>2. Len(ops) # 1 => Tail(ops) # << >>
        BY <1>4, <4>0
      <4> QED BY <1>3, <1>8, <1>9, <3>1, <4>1, <4>2
    <3>2. CASE b # a
      <4>1. pc[b] # "idle" => job[b].rkey # k
        BY <1>0, <3>2 DEF SavesKeyed
      <4>2. /\ pc[b] # "idle" => job[b].rkey \in 1..records
            /\ pc[b] \in {"put", "insert"} => job[b].ops # << >>
            /\ pc[b] = "put" => Unseen(job[b].rkey)
            /\ pc[b] = "done" => job[b].ops = << >>
        BY <1>0 DEF SavesKeyed
      <4>3. ASSUME pc[b] = "put"
            PROVE  /\ \A i \in Rows_' : table'[i].rkey # job[b].rkey
                   /\ \A m \in 1..Len(log') : log'[m].rkey # job[b].rkey
        <5> DEFINE key == job[b].rkey
        <5>1. key # k /\ Unseen(key)
          BY <4>1, <4>2, <4>3
        <5> HIDE DEF key
        <5>2. /\ \A i \in Rows_' : table'[i].rkey # key
              /\ \A m \in 1..Len(log') : log'[m].rkey # key
          BY <1>11, <5>1 DEF Unseen
        <5> QED BY <5>2 DEF key
      <4>4. job'[b] = job[b] /\ pc'[b] = pc[b]
        BY <1>8, <3>2
      <4> QED BY <4>2, <4>3, <4>4
    <3> QED BY <3>1, <3>2
  <2>2. \A b \in Request : job'[b].rkey = job[b].rkey /\ (pc'[b] # "idle" => pc[b] # "idle")
    BY <1>8, <1>9
  <2>3. \A b, c \in Request : pc'[b] # "idle" /\ pc'[c] # "idle" /\ job'[b].rkey = job'[c].rkey => b = c
    BY <1>0, <2>2 DEF SavesKeyed
  <2> QED BY <2>1, <2>3 DEF SavesKeyed, Unseen
<1>14. SavesHold'
  <2> SUFFICES ASSUME NEW b \in Request, pc'[b] \in {"put", "insert", "done"}, calm'[b] PROVE SaveHolds(b)'
    BY DEF SavesHold
  <2>1. b = a /\ calm[a]
    BY <1>8, <1>c
  <2>2. SaveHolds(a)
    BY <1>0, <2>1 DEF SavesHold
  <2>3. o \in SaveOps(a) /\ Range(Tail(ops)) \subseteq SaveOps(a)
    BY <1>5 DEF SaveOps, ops
  <2>4. StoredIn(table, table', job[a].rkey, SaveOps(a), job[a].performed)
    BY <1>6, <2>3
  <2>5. \A x \in Range(job[a].ops) :
          \/ x \in Range(job'[a].ops)
          \/ \E i \in 1..Len(table') : table'[i].rkey = job[a].rkey /\ table'[i].op = x
    BY <1>5, <1>7, <1>9 DEF ops
  <2>6. Range(job'[a].ops) \subseteq SaveOps(a)
    BY <1>9, <2>3
  <2>7. SaveHolds(a)'
    BY <1>0, <1>1, <1>9, <2>2, <2>4, <2>5, <2>6, SaveStored
  <2> QED BY <2>1, <2>7
<1> QED BY <1>12, <1>13, <1>14 DEF LabelsInv

LEMMA InsertKeeps ==
  ASSUME LabelsInv, NEW a \in Request, InsertOp(a)
  PROVE  LabelsInv'
<1> USE DEF bounds
<1>0. LabelShape /\ SavesKeyed /\ SavesHold
  BY DEF LabelsInv
<1>1. CASE table' = AddLabelOp(table, job[a].rkey, Head(job[a].ops), job[a].performed)
           /\ job' = [job EXCEPT ![a].ops = Tail(@)]
           /\ Goto(a, IF Len(job[a].ops) = 1 THEN "done" ELSE "insert")
           /\ Disturb(Request \ {a})
           /\ UNCHANGED <<plain, bounds>>
  <2>1. pc[a] = "insert" /\ UNCHANGED <<records, clock, defs, subscribed, log, pos>>
    BY <1>1 DEF InsertOp
  <2> QED BY <1>1, <2>1, InsertStores
<1>2. CASE Goto(a, "undo") /\ UNCHANGED <<table, job, calm, plain, records>>
  <2>1. /\ pc' = [pc EXCEPT ![a] = "undo"] /\ panel' = panel
        /\ table' = table /\ job' = job /\ calm' = calm /\ records' = records
        /\ clock' = clock /\ defs' = defs /\ subscribed' = subscribed /\ log' = log /\ pos' = pos
        /\ pc[a] = "insert"
    BY <1>2 DEF InsertOp, Goto
  <2>2. pc \in [Request -> {"idle", "put", "insert", "undo", "done"}] /\ clock \in Nat
    BY <1>0 DEF LabelShape
  <2>3. pc'[a] = "undo" /\ \A b \in Request : b # a => pc'[b] = pc[b]
    BY <2>1, <2>2
  <2>4. LabelShape'
    <3>1. pc' \in [Request -> {"idle", "put", "insert", "undo", "done"}]
      BY <2>1, <2>2
    <3> QED BY <1>0, <2>1, <3>1 DEF LabelShape, Rows_
  <2>5. SavesKeyed'
    <3>1. \A key : Unseen(key)' <=> Unseen(key)
      BY <2>1 DEF Unseen, Rows_
    <3>2. \A b \in Request : /\ pc'[b] # "idle" => pc[b] # "idle"
                             /\ pc'[b] \in {"put", "insert", "done"} => pc'[b] = pc[b]
      BY <2>1, <2>3
    <3>3. \A b \in Request :
            /\ pc'[b] # "idle" => job[b].rkey \in 1..records
            /\ pc'[b] \in {"put", "insert"} => job[b].ops # << >>
            /\ pc'[b] = "put" => Unseen(job[b].rkey)
            /\ pc'[b] = "done" => job[b].ops = << >>
      BY <1>0, <3>2 DEF SavesKeyed
    <3>4. \A b, c \in Request : pc'[b] # "idle" /\ pc'[c] # "idle" /\ job[b].rkey = job[c].rkey => b = c
      BY <1>0, <3>2 DEF SavesKeyed
    <3> QED BY <2>1, <3>1, <3>3, <3>4 DEF SavesKeyed
  <2>6. SavesHold'
    <3> SUFFICES ASSUME NEW b \in Request, pc'[b] \in {"put", "insert", "done"}, calm[b] PROVE SaveHolds(b)'
      BY <2>1 DEF SavesHold
    <3>1. SaveHolds(b)
      BY <1>0, <2>3 DEF SavesHold
    <3>2. clock' \in Nat /\ clock <= clock' /\ job'[b] = job[b] /\ panel'[b] = panel[b]
      BY <2>1, <2>2
    <3>3. \A k \in 1..Len(log') : log'[k].rkey = job[b].rkey =>
            log'[k].performed = job[b].performed /\ Range(log'[k].ops) = SaveOps(b)
      BY <2>1, <3>1 DEF SaveHolds, Logged
    <3> QED BY <1>0, <2>1, <3>1, <3>2, <3>3, SaveUntouched
  <2> QED BY <2>4, <2>5, <2>6 DEF LabelsInv
<1> QED BY <1>1, <1>2 DEF InsertOp, Upset

LEMMA IngestKeeps == LabelsInv /\ ingestLabelOp => LabelsInv'
<1> SUFFICES ASSUME LabelsInv, ingestLabelOp PROVE LabelsInv'
  OBVIOUS
<1> USE DEF bounds
<1> DEFINE e == log[pos]
<1>0. LabelShape /\ SavesKeyed /\ SavesHold
  BY DEF LabelsInv
<1>1. /\ pos' = pos + 1 /\ pos <= Len(log)
      /\ clock' = clock /\ defs' = defs /\ subscribed' = subscribed /\ log' = log
      /\ pc' = pc /\ job' = job /\ panel' = panel /\ records' = records
  BY DEF ingestLabelOp, Upset
<1>2. /\ clock \in Nat /\ pos \in 1..Len(log) /\ pos' \in Nat \ {0} /\ e \in Entry /\ e.rkey <= records
      /\ table \in Seq(RowShape) /\ calm \in [Request -> BOOLEAN]
  <2>1. pos \in Nat \ {0} /\ log \in Seq(Entry) /\ Len(log) \in Nat
    BY <1>0 DEF LabelShape
  <2>2. pos \in 1..Len(log) /\ pos' \in Nat \ {0}
    BY <1>1, <2>1
  <2> QED BY <1>0, <2>1, <2>2 DEF LabelShape
<1>3. CASE table' = table /\ calm' = calm
  <2>1. LabelShape'
    BY <1>0, <1>1, <1>2, <1>3 DEF LabelShape, Rows_
  <2>2. SavesKeyed'
    BY <1>0, <1>1, <1>3 DEF SavesKeyed, Unseen, Rows_
  <2>3. SavesHold'
    <3> SUFFICES ASSUME NEW b \in Request, pc[b] \in {"put", "insert", "done"}, calm[b] PROVE SaveHolds(b)'
      BY <1>1, <1>3 DEF SavesHold
    <3>1. SaveHolds(b)
      BY <1>0 DEF SavesHold
    <3>2. clock' \in Nat /\ clock <= clock' /\ job'[b] = job[b] /\ panel'[b] = panel[b]
      BY <1>1, <1>2
    <3>3. \A k \in 1..Len(log') : log'[k].rkey = job[b].rkey =>
            log'[k].performed = job[b].performed /\ Range(log'[k].ops) = SaveOps(b)
      BY <1>1, <3>1 DEF SaveHolds, Logged
    <3> QED BY <1>0, <1>1, <1>3, <3>1, <3>2, <3>3, SaveUntouched
  <2> QED BY <2>1, <2>2, <2>3 DEF LabelsInv
<1>4. CASE /\ table' = StoredRun(e)[Len(e.ops)]
           /\ Disturb({b \in Request : job[b].rkey # e.rkey})
  <2>1. StoredIn(table, table', e.rkey, Range(e.ops), e.performed)
    <3> HIDE DEF e
    <3> QED BY <1>2, <1>4, IngestStores
  <2>2. /\ table' \in Seq(RowShape)
        /\ \A i \in Rows_' : table'[i].rkey <= records /\ table'[i].indexed <= clock
        /\ \A key : key # e.rkey /\ Unseen(key) => Unseen(key)'
    <3> DEFINE k == e.rkey
               O == Range(e.ops)
               p == e.performed
    <3>1. k <= records /\ StoredIn(table, table', k, O, p)
      BY <1>2, <2>1
    <3> HIDE DEF k, O, p
    <3>2. /\ table' \in Seq(RowShape)
          /\ \A i \in Rows_' : table'[i].rkey <= records /\ table'[i].indexed <= clock
          /\ \A key : key # k /\ Unseen(key) => Unseen(key)'
      BY <1>0, <1>1, <3>1, StoredShape
    <3> QED BY <3>2 DEF k
  <2>3. /\ calm' \in [Request -> BOOLEAN]
        /\ \A b \in Request : calm'[b] => calm[b] /\ (job[b].rkey = e.rkey \/ pc[b] = "idle")
    <3> HIDE DEF e
    <3>1. calm' = [b \in Request |-> calm[b] /\ (b \notin {c \in Request : job[c].rkey # e.rkey} \/ pc[b] = "idle")]
      BY <1>4 DEF Disturb
    <3> QED BY <1>2, <3>1
  <2>4. LabelShape'
    BY <1>0, <1>1, <1>2, <2>2, <2>3 DEF LabelShape
  <2>5. SavesKeyed'
    <3>1. \A key : Unseen(key) => Unseen(key)'
      <4>1. \A key : Unseen(key) => key # e.rkey
        BY <1>2 DEF Unseen
      <4> QED BY <2>2, <4>1
    <3> QED BY <1>0, <1>1, <3>1 DEF SavesKeyed
  <2>6. SavesHold'
    <3> SUFFICES ASSUME NEW b \in Request, pc[b] \in {"put", "insert", "done"}, calm'[b] PROVE SaveHolds(b)'
      BY <1>1 DEF SavesHold
    <3>1. calm[b] /\ job[b].rkey = e.rkey
      BY <2>3
    <3>2. SaveHolds(b)
      BY <1>0, <3>1 DEF SavesHold
    <3>3. e.performed = job[b].performed /\ Range(e.ops) = SaveOps(b)
      BY <1>2, <3>1, <3>2 DEF SaveHolds, Logged
    <3>4. StoredIn(table, table', job[b].rkey, SaveOps(b), job[b].performed)
      BY <2>1, <3>1, <3>3
    <3>5. Range(job'[b].ops) \subseteq SaveOps(b) /\ job'[b] = job[b] /\ panel'[b] = panel[b]
      BY <1>1 DEF SaveOps
    <3> QED BY <1>0, <1>1, <3>2, <3>4, <3>5, SaveStored
  <2> QED BY <2>4, <2>5, <2>6 DEF LabelsInv
<1> QED BY <1>3, <1>4 DEF ingestLabelOp, StoredRun

LEMMA LabelsInductive == LabelsInv /\ [LabelsNext]_labelsVars => LabelsInv'
<1> SUFFICES ASSUME LabelsInv, [LabelsNext]_labelsVars PROVE LabelsInv'
  OBVIOUS
<1>1. CASE UNCHANGED labelsVars
  <2>1. /\ clock' = clock /\ defs' = defs /\ subscribed' = subscribed /\ table' = table
        /\ log' = log /\ pos' = pos /\ pc' = pc /\ job' = job /\ panel' = panel
        /\ calm' = calm /\ records' = records
    BY <1>1 DEF labelsVars, content, bounds
  <2>2. LabelShape'
    BY <2>1 DEF LabelsInv, LabelShape, Rows_
  <2>3. SavesKeyed'
    BY <2>1 DEF LabelsInv, SavesKeyed, Unseen, Rows_
  <2>4. SavesHold'
    <3> SUFFICES ASSUME NEW b \in Request, pc[b] \in {"put", "insert", "done"}, calm[b] PROVE SaveHolds(b)'
      BY <2>1 DEF SavesHold
    <3>1. SaveHolds(b) /\ LabelShape
      BY DEF SavesHold, LabelsInv
    <3>2. clock' \in Nat /\ clock <= clock' /\ job'[b] = job[b] /\ panel'[b] = panel[b]
      BY <2>1, <3>1 DEF LabelShape
    <3>3. \A k \in 1..Len(log') : log'[k].rkey = job[b].rkey =>
            log'[k].performed = job[b].performed /\ Range(log'[k].ops) = SaveOps(b)
      BY <2>1, <3>1 DEF SaveHolds, Logged
    <3> QED BY <2>1, <3>1, <3>2, <3>3, SaveUntouched
  <2> QED BY <2>2, <2>3, <2>4 DEF LabelsInv
<1>2. CASE Tick
  BY <1>2, TickKeeps
<1>3. CASE \E a \in Request : \E want \in Panels : PerformLabelOp(a, want)
  BY <1>3, PerformKeeps
<1>4. CASE \E a \in Request : RepoPutRecord(a)
  BY <1>4, PutKeeps
<1>5. CASE \E a \in Request : InsertOp(a)
  BY <1>5, InsertKeeps
<1>6. CASE \E a \in Request : rollbackRecord(a) \/ HxRefresh(a)
  <2>1. PICK a \in Request : Goto(a, "idle") /\ UNCHANGED <<clock, content, log, pos, records>>
    BY <1>6 DEF rollbackRecord, HxRefresh, bounds
  <2> QED BY <2>1, IdleKeeps
<1>7. CASE ingestLabelOp
  BY <1>7, IngestKeeps
<1>8. CASE \E from \in 1..(pos - 1) : Replay(from)
  BY <1>8, ReplayKeeps
<1>9. CASE \E o \in {p \in Op : p.key \in defs}, t \in clock..(clock + 1) : OtherClient(o, t)
  BY <1>9, OtherClientKeeps
<1>10. CASE \/ \E l \in defs : DeleteLabelDef(l)
            \/ \E l \in Label \ defs : AddLabelDef(l)
            \/ \E l \in defs \ subscribed : SubscribeLabel(l)
            \/ \E l \in subscribed : UnsubscribeLabel(l)
  BY <1>10, DefinitionsKeep
<1> QED
  BY <1>1, <1>2, <1>3, <1>4, <1>5, <1>6, <1>7, <1>8, <1>9, <1>10 DEF LabelsNext

(* When the handler of a save is done and nobody else touched the labels   *)
(* since it read them, the issue shows what was asked for (labels.go,      *)
(* PerformLabelOp), wherever seconds, ingestion and reduction fall: for any *)
(* labels, values and requests.                                            *)
THEOREM SavesAreShown == LabelsSpec => []SaveIsShown
  BY InitLabels, LabelsInductive, InvShows, PTL DEF LabelsSpec

(***************************************************************************)
(* The labels are the records in the order of their times.                 *)
(***************************************************************************)

(* No operation undoes another one.                                        *)
Clean(O) ==
  /\ Agree(O)
  /\ \A l \in Label, v \in Value : Add(l, v) \in O => \A o \in O : ~Kills(o, l, v)

RecordsClean ==
  /\ \A m \in 1..Len(log) : Clean(Range(log[m].ops))
  /\ \A m, n \in 1..Len(log) : log[m].rkey = log[n].rkey => m = n
  /\ pos <= Len(log) + 1

InRecord(k, p, O) ==
  \E m \in 1..Len(log) : log[m].rkey = k /\ log[m].performed = p /\ O \subseteq Range(log[m].ops)

JobsLogged ==
  \A a \in Request :
    /\ pc[a] = "put" => Clean(Range(job[a].ops))
    /\ pc[a] = "insert" => InRecord(job[a].rkey, job[a].performed, Range(job[a].ops))

RowsLogged == \A i \in Rows_ : InRecord(table[i].rkey, table[i].performed, {table[i].op})

StoredOf(k, o) == \E i \in Rows_ : table[i].rkey = k /\ table[i].op = o

RecordsStored ==
  plain => \A m \in 1..Len(log) : m < pos => \A o \in Range(log[m].ops) : StoredOf(log[m].rkey, o)

RecordsInv == RecordsClean /\ JobsLogged /\ RowsLogged /\ RecordsStored

(* A record whose operations do not undo each other is applied in any order. *)
LEMMA ApplyClean ==
  ASSUME NEW known, NEW s \in States, NEW ops \in Seq(Op), Clean(Range(ops))
  PROVE  LET t == ApplyAll(known, s, ops)
         IN  /\ t \in States
             /\ \A l \in Label \cap known, v \in Value :
                  v \in t[l] <=> \/ Add(l, v) \in Range(ops)
                                 \/ v \in s[l] /\ \A o \in Range(ops) : ~Kills(o, l, v)
             /\ \A l \in Label \ known, v \in Value : v \in t[l] <=> v \in s[l]
<1> DEFINE t == ApplyAll(known, s, ops)
<1>1. /\ t \in States
      /\ \A l \in Label \cap known, v \in Value : v \in t[l] <=> Lasts(s, ops, l, v)
      /\ \A l \in Label \ known, v \in Value : v \in t[l] <=> v \in s[l]
  BY ApplyAllHolds
<1> HIDE DEF t
<1>2. /\ Len(ops) \in Nat /\ \A i \in 1..Len(ops) : ops[i] \in Range(ops)
      /\ \A o \in Range(ops) : \E i \in 1..Len(ops) : ops[i] = o
  BY DEF Range
<1>3. ASSUME NEW l \in Label, NEW v \in Value
      PROVE  Lasts(s, ops, l, v) <=> \/ Add(l, v) \in Range(ops)
                                     \/ v \in s[l] /\ \A o \in Range(ops) : ~Kills(o, l, v)
  <2>1. (\A j \in 1..Len(ops) : ~Kills(ops[j], l, v)) <=> \A o \in Range(ops) : ~Kills(o, l, v)
    BY <1>2
  <2>2. ASSUME Add(l, v) \in Range(ops) PROVE Lasts(s, ops, l, v)
    <3>1. PICK i \in 1..Len(ops) : ops[i] = Add(l, v)
      BY <1>2, <2>2
    <3>2. \A o \in Range(ops) : ~Kills(o, l, v)
      BY <2>2 DEF Clean
    <3>3. \A j \in (i + 1)..Len(ops) : j \in 1..Len(ops)
      BY <1>2
    <3> QED BY <1>2, <3>1, <3>2, <3>3 DEF Lasts
  <2>3. ASSUME NEW i \in 1..Len(ops), ops[i] = Add(l, v) PROVE Add(l, v) \in Range(ops)
    BY <1>2, <2>3
  <2> QED BY <2>1, <2>2, <2>3 DEF Lasts
<1> QED BY <1>1, <1>3 DEF t

(* The place of a record in the order of their times.                      *)
Earlier_(i) == Cardinality({j \in 1..Len(log) : log[j].performed < log[i].performed})

TimesDiffer == \A i, j \in 1..Len(log) : log[i].performed = log[j].performed => i = j

LEMMA TimesOrder ==
  ASSUME log \in Seq(Entry), TimesDiffer
  PROVE  /\ \A i \in 1..Len(log) : Earlier_(i) + 1 \in 1..Len(log)
         /\ \A i, j \in 1..Len(log) :
              log[i].performed < log[j].performed <=> Earlier_(i) + 1 < Earlier_(j) + 1
         /\ \A k \in 1..Len(log) : \E i \in 1..Len(log) : Earlier_(i) + 1 = k
<1> DEFINE n == Len(log)
           R == {p \in (1..n) \X (1..n) : log[p[1]].performed < log[p[2]].performed}
           Place(i) == Cardinality({j \in 1..n : <<j, i>> \in R}) + 1
<1>1. n \in Nat /\ \A i \in 1..n : log[i].performed \in Nat
  <2>1. n \in Nat /\ \A i \in 1..n : log[i] \in Entry
    OBVIOUS
  <2> QED BY <2>1 DEF Entry
<1>2. \A i, j \in 1..n : <<i, j>> \in R <=> log[i].performed < log[j].performed
  OBVIOUS
<1>t. \A i, j \in 1..n : log[i].performed = log[j].performed => i = j
  BY DEF TimesDiffer
<1> HIDE DEF R, n
<1>3. /\ \A i \in 1..n : <<i, i>> \notin R
      /\ \A i, j, k \in 1..n : <<i, j>> \in R /\ <<j, k>> \in R => <<i, k>> \in R
      /\ \A i, j \in 1..n : i = j \/ <<i, j>> \in R \/ <<j, i>> \in R
  <2> DEFINE T(i) == log[i].performed
  <2>1. /\ \A i \in 1..n : T(i) \in Nat
        /\ \A i, j \in 1..n : <<i, j>> \in R <=> T(i) < T(j)
        /\ \A i, j \in 1..n : T(i) = T(j) => i = j
    BY <1>1, <1>2, <1>t
  <2> HIDE DEF T
  <2>2. \A i \in 1..n : <<i, i>> \notin R
    BY <2>1
  <2>3. \A i, j, k \in 1..n : <<i, j>> \in R /\ <<j, k>> \in R => <<i, k>> \in R
    BY ONLY <2>1
  <2>4. ASSUME NEW i \in 1..n, NEW j \in 1..n PROVE i = j \/ <<i, j>> \in R \/ <<j, i>> \in R
    <3>1. T(i) \in Nat /\ T(j) \in Nat
      BY <2>1
    <3>2. T(i) < T(j) \/ T(j) < T(i) \/ T(i) = T(j)
      BY ONLY <3>1
    <3> QED BY <2>1, <3>2
  <2> QED BY <2>2, <2>3, <2>4
<1>4. /\ \A i \in 1..n : Place(i) \in 1..n
      /\ \A i, j \in 1..n : <<i, j>> \in R <=> Place(i) < Place(j)
      /\ \A k \in 1..n : \E i \in 1..n : Place(i) = k
  BY <1>1, <1>3, RanksNumber
<1>5. \A i \in 1..n : Place(i) = Earlier_(i) + 1
  <2> SUFFICES ASSUME NEW i \in 1..n PROVE Place(i) = Earlier_(i) + 1
    OBVIOUS
  <2>1. {j \in 1..n : <<j, i>> \in R} = {j \in 1..n : log[j].performed < log[i].performed}
    BY <1>2
  <2> QED BY <2>1 DEF Earlier_, n
<1> HIDE DEF Place
<1> QED BY <1>2, <1>4, <1>5 DEF n

(* The choice of Reference.                                                *)
NthRecord(k) == CHOOSE i \in 1..Len(log) : Earlier_(i) + 1 = k

ReferenceRun ==
  CHOOSE at : at = [k \in 0..Len(log) |->
        IF k = 0 THEN Empty ELSE ApplyAll(defs, at[k - 1], log[NthRecord(k)].ops)]

(* The reference goes through a sequence of states.                        *)
LEMMA ReferenceSteps ==
  ASSUME log \in Seq(Entry), TimesDiffer
  PROVE  \E g \in [0..Len(log) -> States] :
           /\ g[0] = Empty
           /\ \A k \in 1..Len(log) : g[k] = ApplyAll(defs, g[k - 1], log[NthRecord(k)].ops)
           /\ Reference = g[Len(log)]
<1> DEFINE n == Len(log)
           q(k) == log[NthRecord(k)].ops
           G == [k \in 1..n |-> [x \in States |-> ApplyAll(defs, x, q(k))]]
           c == ReferenceRun
           e == Empty
<1>1. n \in Nat /\ e \in States
  BY EmptyIsState
<1>q. \A k \in 1..n : q(k) \in Seq(Op)
  <2> SUFFICES ASSUME NEW k \in 1..n PROVE q(k) \in Seq(Op)
    OBVIOUS
  <2>1. \E i \in 1..Len(log) : Earlier_(i) + 1 = k
    BY TimesOrder
  <2>2. NthRecord(k) \in 1..Len(log)
    BY <2>1 DEF NthRecord
  <2>3. log[NthRecord(k)] \in Entry
    BY <2>2
  <2> QED BY <2>3 DEF Entry
<1>9. Reference = c[n]
  BY DEF Reference, ReferenceRun, NthRecord, Earlier_
<1>c. c = CHOOSE at : at = [k \in 0..n |-> IF k = 0 THEN e ELSE ApplyAll(defs, at[k - 1], q(k))]
  BY DEF ReferenceRun
<1> HIDE DEF q, n, c, e
<1>2. G \in [1..n -> [States -> States]]
  <2>1. ASSUME NEW k \in 1..n, NEW x \in States PROVE ApplyAll(defs, x, q(k)) \in States
    BY <1>q, ApplyAllHolds
  <2> QED BY <2>1
<1>3. \A k \in 1..n, x \in States : G[k][x] = ApplyAll(defs, x, q(k))
  OBVIOUS
<1> HIDE DEF G
<1>4. PICK g \in [0..n -> States] : FoldsAlong(g, e, G, n)
  BY <1>1, <1>2, FoldExists
<1>f. g[0] = e /\ \A k \in 1..n : g[k] = G[k][g[k - 1]]
  BY <1>4 DEF FoldsAlong
<1>5. \A k \in 1..n : g[k] = ApplyAll(defs, g[k - 1], q(k))
  <2> SUFFICES ASSUME NEW k \in 1..n PROVE g[k] = ApplyAll(defs, g[k - 1], q(k))
    OBVIOUS
  <2>1. k - 1 \in 0..n
    BY <1>1
  <2> QED BY <2>1, <1>3, <1>f
<1>6. g = [k \in 0..n |-> IF k = 0 THEN e ELSE ApplyAll(defs, g[k - 1], q(k))]
  <2>1. \A k \in 0..n : g[k] = IF k = 0 THEN e ELSE ApplyAll(defs, g[k - 1], q(k))
    BY <1>1, <1>f, <1>5
  <2> QED BY <2>1, <1>4
<1>7. c = [k \in 0..n |-> IF k = 0 THEN e ELSE ApplyAll(defs, c[k - 1], q(k))]
  BY <1>6, <1>c
<1>8. 0..n \subseteq {k \in 0..n : c[k] = g[k]}
  <2> DEFINE S == {k \in 0..n : c[k] = g[k]}
  <2>1. 0 \in S
    BY <1>1, <1>f, <1>7
  <2>2. ASSUME NEW k \in 0..n, k \in S, k < n PROVE k + 1 \in S
    <3>1. k + 1 \in 1..n /\ k + 1 \in 0..n /\ k + 1 # 0 /\ (k + 1) - 1 = k
      BY <1>1, <2>2
    <3>2. c[k + 1] = ApplyAll(defs, c[k], q(k + 1))
      BY <1>7, <3>1
    <3>3. g[k + 1] = ApplyAll(defs, g[k], q(k + 1))
      BY <1>5, <3>1
    <3> QED BY <2>2, <3>1, <3>2, <3>3
  <2> HIDE DEF S
  <2>3. 0..n \subseteq S
    BY <1>1, <2>1, <2>2, UpToInduction
  <2> QED BY <2>3 DEF S
<1>10. Reference = g[n]
  <2>1. n \in 0..n
    BY <1>1
  <2> QED BY <2>1, <1>8, <1>9
<1>11. \E h \in [0..n -> States] :
         /\ h[0] = e
         /\ \A k \in 1..n : h[k] = ApplyAll(defs, h[k - 1], q(k))
         /\ Reference = h[n]
  BY <1>f, <1>5, <1>10
<1> QED BY <1>11 DEF n, q, e

(* Label l has v by record m, and no later record undoes it.               *)
Remains(m, l, v) ==
  /\ Add(l, v) \in Range(log[m].ops)
  /\ \A n \in 1..Len(log) : log[m].performed < log[n].performed =>
       \A o \in Range(log[n].ops) : ~Kills(o, l, v)

LEMMA ReferenceHolds ==
  ASSUME log \in Seq(Entry), TimesDiffer, \A m \in 1..Len(log) : Clean(Range(log[m].ops))
  PROVE  /\ Reference \in States
         /\ \A l \in Label \cap defs, v \in Value :
              v \in Reference[l] <=> \E m \in 1..Len(log) : Remains(m, l, v)
         /\ \A l \in Label \ defs, v \in Value : v \notin Reference[l]
<1> DEFINE n == Len(log)
           P(i) == Earlier_(i) + 1
           Q(k) == Range(log[NthRecord(k)].ops)
           Holds(k, l, v) ==
             \E i \in 1..k : /\ Add(l, v) \in Q(i)
                             /\ \A j \in (i + 1)..k : \A o \in Q(j) : ~Kills(o, l, v)
<1>1. n \in Nat /\ \A i \in 1..n : log[i] \in Entry /\ log[i].ops \in Seq(Op)
  <2>1. n \in Nat /\ \A i \in 1..n : log[i] \in Entry
    OBVIOUS
  <2> QED BY <2>1 DEF Entry
<1>2. /\ \A i \in 1..n : P(i) \in 1..n
      /\ \A i, j \in 1..n : log[i].performed < log[j].performed <=> P(i) < P(j)
      /\ \A k \in 1..n : \E i \in 1..n : P(i) = k
  BY TimesOrder
<1>3. \A k \in 1..n : NthRecord(k) \in 1..n /\ P(NthRecord(k)) = k
  BY <1>2 DEF NthRecord
<1>4. \A i, j \in 1..n : P(i) = P(j) => i = j
  <2> SUFFICES ASSUME NEW i \in 1..n, NEW j \in 1..n, P(i) = P(j) PROVE i = j
    OBVIOUS
  <2>1. P(i) \in Nat /\ ~(P(i) < P(j)) /\ ~(P(j) < P(i))
    BY <1>2
  <2>2. log[i].performed \in Nat /\ log[j].performed \in Nat
    BY <1>1 DEF Entry
  <2>3. ~(log[i].performed < log[j].performed) /\ ~(log[j].performed < log[i].performed)
    BY <1>2, <2>1
  <2>4. log[i].performed = log[j].performed
    BY ONLY <2>2, <2>3
  <2> QED BY <2>4 DEF TimesDiffer
<1> HIDE DEF P
<1>5. \A i \in 1..n : NthRecord(P(i)) = i
  BY <1>2, <1>3, <1>4
<1>6. PICK g \in [0..n -> States] :
        /\ g[0] = Empty
        /\ \A k \in 1..n : g[k] = ApplyAll(defs, g[k - 1], log[NthRecord(k)].ops)
        /\ Reference = g[n]
  BY ReferenceSteps
<1>7. \A k \in 1..n : log[NthRecord(k)].ops \in Seq(Op) /\ Clean(Q(k))
  BY <1>1, <1>3
<1>8. ASSUME NEW k \in 1..n
      PROVE  /\ \A l \in Label \cap defs, v \in Value :
                  v \in g[k][l] <=> \/ Add(l, v) \in Q(k)
                                    \/ v \in g[k - 1][l] /\ \A o \in Q(k) : ~Kills(o, l, v)
             /\ \A l \in Label \ defs, v \in Value : v \in g[k][l] <=> v \in g[k - 1][l]
  <2> DEFINE x == g[k - 1]
             ops == log[NthRecord(k)].ops
  <2>0. k - 1 \in 0..n
    BY <1>1
  <2>1. x \in States /\ ops \in Seq(Op) /\ Clean(Range(ops)) /\ g[k] = ApplyAll(defs, x, ops)
    BY <1>6, <1>7, <2>0
  <2> HIDE DEF x, ops
  <2>2. /\ \A l \in Label \cap defs, v \in Value :
             v \in g[k][l] <=> \/ Add(l, v) \in Range(ops)
                               \/ v \in x[l] /\ \A o \in Range(ops) : ~Kills(o, l, v)
        /\ \A l \in Label \ defs, v \in Value : v \in g[k][l] <=> v \in x[l]
    BY <2>1, ApplyClean
  <2> QED BY <2>2 DEF x, ops
<1> HIDE DEF n, Q
<1> DEFINE S == {k \in 0..n : /\ \A l \in Label \cap defs, v \in Value : v \in g[k][l] <=> Holds(k, l, v)
                              /\ \A l \in Label \ defs, v \in Value : v \notin g[k][l]}
<1>9. 0 \in S
  <2>1. \A l \in Label, v \in Value : v \notin g[0][l]
    BY <1>6 DEF Empty
  <2>2. \A l, v : ~Holds(0, l, v)
    OBVIOUS
  <2> HIDE DEF Holds
  <2> QED BY <1>1, <2>1, <2>2
<1>10. ASSUME NEW k \in 0..n, k \in S, k < n PROVE k + 1 \in S
  <2>1. k + 1 \in 1..n /\ k + 1 \in 0..n /\ (k + 1) - 1 = k
    BY <1>1, <1>10
  <2>2. /\ \A l \in Label \cap defs, v \in Value :
             v \in g[k + 1][l] <=> \/ Add(l, v) \in Q(k + 1)
                                   \/ v \in g[k][l] /\ \A o \in Q(k + 1) : ~Kills(o, l, v)
        /\ \A l \in Label \ defs, v \in Value : v \in g[k + 1][l] <=> v \in g[k][l]
    BY <1>8, <2>1
  <2>3. /\ \A l \in Label \cap defs, v \in Value : v \in g[k][l] <=> Holds(k, l, v)
        /\ \A l \in Label \ defs, v \in Value : v \notin g[k][l]
    <3> HIDE DEF Holds
    <3> QED BY <1>10
  <2>4. ASSUME NEW l, NEW v
        PROVE  Holds(k + 1, l, v) <=> \/ Add(l, v) \in Q(k + 1)
                                      \/ Holds(k, l, v) /\ \A o \in Q(k + 1) : ~Kills(o, l, v)
    <3> DEFINE A(i) == Add(l, v) \in Q(i)
               B(j) == \A o \in Q(j) : ~Kills(o, l, v)
    <3>1. /\ Holds(k + 1, l, v) <=> \E i \in 1..(k + 1) : A(i) /\ \A j \in (i + 1)..(k + 1) : B(j)
          /\ Holds(k, l, v) <=> \E i \in 1..k : A(i) /\ \A j \in (i + 1)..k : B(j)
      OBVIOUS
    <3>2. 1..(k + 1) = (1..k) \cup {k + 1} /\ ((k + 1) + 1)..(k + 1) = {}
          /\ \A i \in 1..k : (i + 1)..(k + 1) = ((i + 1)..k) \cup {k + 1}
      OBVIOUS
    <3> HIDE DEF A, B, Holds
    <3>3. \A i \in 1..k : (\A j \in (i + 1)..(k + 1) : B(j)) <=> (\A j \in (i + 1)..k : B(j)) /\ B(k + 1)
      BY <3>2
    <3>4. \A j \in ((k + 1) + 1)..(k + 1) : B(j)
      BY <3>2
    <3>5. Holds(k + 1, l, v) <=> A(k + 1) \/ (Holds(k, l, v) /\ B(k + 1))
      BY <3>1, <3>2, <3>3, <3>4
    <3> QED BY <3>5 DEF A, B
  <2> HIDE DEF Holds
  <2>5. \A l \in Label \cap defs, v \in Value : v \in g[k + 1][l] <=> Holds(k + 1, l, v)
    BY <2>2, <2>3, <2>4
  <2> QED BY <2>1, <2>2, <2>3, <2>5
<1>11. n \in S
  <2> HIDE DEF S
  <2>1. 0..n \subseteq S
    BY <1>1, <1>9, <1>10, UpToInduction
  <2> QED BY <1>1, <2>1
<1>12. /\ Reference \in States
       /\ \A l \in Label \cap defs, v \in Value : v \in Reference[l] <=> Holds(n, l, v)
       /\ \A l \in Label \ defs, v \in Value : v \notin Reference[l]
  <2> HIDE DEF Holds
  <2>1. n \in 0..n
    BY <1>1
  <2> QED BY <1>6, <1>11, <2>1
<1>13. ASSUME NEW l, NEW v PROVE Holds(n, l, v) <=> \E m \in 1..n : Remains(m, l, v)
  <2>1. ASSUME NEW i \in 1..n, Add(l, v) \in Q(i), \A j \in (i + 1)..n : \A o \in Q(j) : ~Kills(o, l, v)
        PROVE  Remains(NthRecord(i), l, v)
    <3> DEFINE m == NthRecord(i)
    <3>1. m \in 1..n /\ P(m) = i /\ Add(l, v) \in Range(log[m].ops)
      BY <1>3, <2>1 DEF Q
    <3> HIDE DEF m
    <3>2. ASSUME NEW j \in 1..n, log[m].performed < log[j].performed
          PROVE  \A o \in Range(log[j].ops) : ~Kills(o, l, v)
      <4>1. i < P(j) /\ P(j) \in 1..n
        BY <1>2, <3>1, <3>2
      <4>2. P(j) \in (i + 1)..n
        BY <1>1, <4>1
      <4>3. Q(P(j)) = Range(log[j].ops)
        BY <1>5 DEF Q
      <4> QED BY <2>1, <4>2, <4>3
    <3> QED BY <3>1, <3>2 DEF Remains, m, n
  <2>2. ASSUME NEW m \in 1..n, Remains(m, l, v)
        PROVE  /\ P(m) \in 1..n /\ Add(l, v) \in Q(P(m))
               /\ \A j \in (P(m) + 1)..n : \A o \in Q(j) : ~Kills(o, l, v)
    <3>1. P(m) \in 1..n /\ Add(l, v) \in Q(P(m))
      BY <1>2, <1>5, <2>2 DEF Remains, Q
    <3>2. ASSUME NEW j \in (P(m) + 1)..n PROVE \A o \in Q(j) : ~Kills(o, l, v)
      <4>1. j \in 1..n /\ P(m) < j
        BY <1>1, <3>1
      <4>2. NthRecord(j) \in 1..n /\ P(NthRecord(j)) = j
        BY <1>3, <4>1
      <4>3. log[m].performed < log[NthRecord(j)].performed
        BY <1>2, <4>1, <4>2
      <4> QED BY <2>2, <4>2, <4>3 DEF Remains, Q, n
    <3> QED BY <3>1, <3>2
  <2>3. \A i \in 1..n : NthRecord(i) \in 1..n
    BY <1>3
  <2> QED BY <2>1, <2>2, <2>3
<1> QED BY <1>12, <1>13 DEF n

(* Rows in the order in which they were performed.                         *)
LEMMA RowsOrder ==
  ASSUME table \in Seq(RowShape), \A i \in Rows_ : table[i].performed <= table[i].indexed,
         NEW i \in Rows_, NEW j \in Rows_
  PROVE  /\ table[i].performed < table[j].performed => Before(i, j)
         /\ Before(i, j) => table[i].performed <= table[j].performed
<1>1. table[i] \in RowShape /\ table[j] \in RowShape
  BY DEF Rows_
<1>2. table[i].performed \in Nat /\ table[j].performed \in Nat
  BY <1>1 DEF RowShape
<1>3. SortAt(table[i]) = table[i].performed /\ SortAt(table[j]) = table[j].performed
  BY DEF SortAt
<1> QED BY <1>2, <1>3 DEF Before

(* The rows are the operations of the records, and the rest is order.      *)
LEMMA RecordsConverge ==
  ASSUME LabelsInv, RecordsInv
  PROVE  LabelsConverge
<1> SUFFICES ASSUME plain, pos = Len(log) + 1, TimesDiffer,
                    \A i \in Rows_ : table[i].performed <= table[i].indexed
             PROVE  Shown = Reference
  BY DEF LabelsConverge, TimesDiffer, Rows_
<1>0. LabelShape /\ RecordsClean /\ RowsLogged /\ RecordsStored
  BY DEF LabelsInv, RecordsInv
<1>1. /\ table \in Seq(RowShape) /\ log \in Seq(Entry) /\ Len(log) \in Nat
      /\ \A m \in 1..Len(log) : Clean(Range(log[m].ops))
      /\ \A m \in 1..Len(log) : log[m].performed \in Nat
  <2>1. table \in Seq(RowShape) /\ log \in Seq(Entry)
    BY <1>0 DEF LabelShape
  <2>2. \A m \in 1..Len(log) : log[m] \in Entry
    BY <2>1
  <2> QED BY <1>0, <2>1, <2>2 DEF RecordsClean, Entry
<1>2. \A i \in Rows_ : \E m \in 1..Len(log) :
        /\ log[m].rkey = table[i].rkey /\ log[m].performed = table[i].performed
        /\ table[i].op \in Range(log[m].ops)
  BY <1>0 DEF RowsLogged, InRecord
<1>3. ASSUME NEW m \in 1..Len(log), NEW o \in Range(log[m].ops)
      PROVE  \E i \in Rows_ : table[i].op = o /\ table[i].performed = log[m].performed
  <2>1. m < pos
    BY <1>1
  <2>2. PICK i \in Rows_ : table[i].rkey = log[m].rkey /\ table[i].op = o
    BY <1>0, <2>1 DEF RecordsStored, StoredOf
  <2>3. PICK n \in 1..Len(log) : log[n].rkey = table[i].rkey /\ log[n].performed = table[i].performed
    BY <1>2
  <2>4. n = m
    BY <1>0, <2>2, <2>3 DEF RecordsClean
  <2> QED BY <2>2, <2>3, <2>4
<1>4. \A i, j \in Rows_ : /\ table[i].performed < table[j].performed => Before(i, j)
                          /\ Before(i, j) => table[i].performed <= table[j].performed
  BY <1>1, RowsOrder
<1>5. ASSUME NEW l, NEW v, NEW i \in Rows_, Stands(i, l, v)
      PROVE  \E m \in 1..Len(log) : Remains(m, l, v)
  <2>1. PICK m \in 1..Len(log) : log[m].performed = table[i].performed /\ table[i].op \in Range(log[m].ops)
    BY <1>2
  <2>2. Add(l, v) \in Range(log[m].ops)
    BY <1>5, <2>1 DEF Stands
  <2>3. ASSUME NEW n \in 1..Len(log), log[m].performed < log[n].performed, NEW o \in Range(log[n].ops)
        PROVE  ~Kills(o, l, v)
    <3>1. PICK j \in Rows_ : table[j].op = o /\ table[j].performed = log[n].performed
      BY <1>3
    <3>2. Before(i, j)
      BY <1>4, <2>1, <2>3, <3>1
    <3> QED BY <1>5, <3>1, <3>2 DEF Stands
  <2> QED BY <2>2, <2>3 DEF Remains
<1>6. ASSUME NEW l \in Label, NEW v \in Value, NEW m \in 1..Len(log), Remains(m, l, v)
      PROVE  \E i \in Rows_ : Stands(i, l, v)
  <2>1. Add(l, v) \in Range(log[m].ops)
    BY <1>6 DEF Remains
  <2>2. PICK i \in Rows_ : table[i].op = Add(l, v) /\ table[i].performed = log[m].performed
    BY <1>3, <2>1
  <2>3. ASSUME NEW j \in Rows_, Before(i, j) PROVE ~Kills(table[j].op, l, v)
    <3>1. PICK n \in 1..Len(log) : log[n].performed = table[j].performed /\ table[j].op \in Range(log[n].ops)
      BY <1>2
    <3>2. log[m].performed <= log[n].performed
      BY <1>4, <2>2, <2>3, <3>1
    <3>3. CASE log[m].performed < log[n].performed
      BY <1>6, <3>1, <3>3 DEF Remains
    <3>4. CASE log[m].performed = log[n].performed
      <4>1. m = n
        BY <3>4 DEF TimesDiffer
      <4> QED BY <1>1, <2>1, <3>1, <4>1 DEF Clean
    <3>5. log[m].performed \in Nat /\ log[n].performed \in Nat
      BY <1>1
    <3> QED BY <3>2, <3>3, <3>4, <3>5
  <2> QED BY <2>2, <2>3 DEF Stands
<1>7. /\ Shown \in States
      /\ \A l \in Label \cap defs, v \in Value : v \in Shown[l] <=> \E i \in Rows_ : Stands(i, l, v)
      /\ \A l \in Label \ defs, v \in Value : v \notin Shown[l]
  BY <1>1, ShownHolds DEF Shown
<1>8. /\ Reference \in States
      /\ \A l \in Label \cap defs, v \in Value :
           v \in Reference[l] <=> \E m \in 1..Len(log) : Remains(m, l, v)
      /\ \A l \in Label \ defs, v \in Value : v \notin Reference[l]
  BY <1>1, ReferenceHolds
<1>9. \A l \in Label, v \in Value : v \in Shown[l] <=> v \in Reference[l]
  <2> SUFFICES ASSUME NEW l \in Label, NEW v \in Value PROVE v \in Shown[l] <=> v \in Reference[l]
    OBVIOUS
  <2>1. CASE l \in defs
    BY <1>5, <1>6, <1>7, <1>8, <2>1
  <2>2. CASE l \notin defs
    BY <1>7, <1>8, <2>2
  <2> QED BY <2>1, <2>2
<1> DEFINE x == Shown
           y == Reference
<1> HIDE DEF x, y
<1>10. x \in States /\ y \in States /\ \A l \in Label, v \in Value : v \in x[l] <=> v \in y[l]
  BY <1>7, <1>8, <1>9 DEF x, y
<1>11. x \in [Label -> SUBSET Value] /\ y \in [Label -> SUBSET Value]
  BY <1>10 DEF States, State
<1>12. \A l \in Label : x[l] = y[l]
  <2> SUFFICES ASSUME NEW l \in Label PROVE x[l] = y[l]
    OBVIOUS
  <2>1. x[l] \subseteq Value /\ y[l] \subseteq Value
    BY <1>11
  <2> QED BY <1>10, <2>1
<1>13. x = y
  BY <1>11, <1>12
<1> QED BY <1>13 DEF x, y

(* Steps that write no record and store no operation.                      *)
LEMMA SettledKeeps ==
  ASSUME RecordsInv, LabelShape, log' = log,
         \A i \in 1..Len(table') : \E j \in Rows_ : table'[i] = table[j],
         pos' \in Nat, pos' <= Len(log) + 1,
         plain' => plain /\ table' = table /\ pos' <= pos,
         \A a \in Request : pc'[a] \in {"put", "insert"} =>
           \/ pc'[a] = pc[a] /\ job'[a] = job[a]
           \/ pc'[a] = "put" /\ Clean(Range(job'[a].ops))
  PROVE  RecordsInv'
<1>1. RecordsClean /\ JobsLogged /\ RowsLogged /\ RecordsStored
  BY DEF RecordsInv
<1>2. RecordsClean'
  BY <1>1 DEF RecordsClean
<1>3. JobsLogged'
  <2> SUFFICES ASSUME NEW a \in Request
               PROVE  /\ pc'[a] = "put" => Clean(Range(job'[a].ops))
                      /\ pc'[a] = "insert" =>
                           \E m \in 1..Len(log) : /\ log[m].rkey = job'[a].rkey
                                                  /\ log[m].performed = job'[a].performed
                                                  /\ Range(job'[a].ops) \subseteq Range(log[m].ops)
    BY DEF JobsLogged, InRecord
  <2>1. CASE pc'[a] = "put"
    <3>1. (pc[a] = "put" /\ job'[a] = job[a]) \/ Clean(Range(job'[a].ops))
      BY <2>1
    <3> QED BY <1>1, <2>1, <3>1 DEF JobsLogged
  <2>2. CASE pc'[a] = "insert"
    <3>1. pc[a] = "insert" /\ job'[a] = job[a]
      BY <2>2
    <3>2. InRecord(job[a].rkey, job[a].performed, Range(job[a].ops))
      BY <1>1, <3>1 DEF JobsLogged
    <3> QED BY <2>2, <3>1, <3>2 DEF InRecord
  <2> QED BY <2>1, <2>2
<1>4. RowsLogged'
  <2> SUFFICES ASSUME NEW i \in 1..Len(table') PROVE InRecord(table'[i].rkey, table'[i].performed, {table'[i].op})
    BY DEF RowsLogged, Rows_, InRecord
  <2> QED BY <1>1 DEF RowsLogged
<1>5. RecordsStored'
  <2> SUFFICES ASSUME plain', NEW m \in 1..Len(log), m < pos', NEW o \in Range(log[m].ops)
               PROVE  StoredOf(log[m].rkey, o)'
    BY DEF RecordsStored
  <2>1. plain /\ table' = table /\ pos' <= pos /\ pos \in Nat
    BY DEF LabelShape
  <2>2. m < pos
    <3>1. m \in Int
      BY DEF LabelShape
    <3> QED BY <2>1, <3>1
  <2>3. StoredOf(log[m].rkey, o)
    BY <1>1, <2>1, <2>2 DEF RecordsStored
  <2> QED BY <2>1, <2>3 DEF StoredOf, Rows_
<1> QED BY <1>2, <1>3, <1>4, <1>5 DEF RecordsInv

LEMMA InitRecords == LabelsInit => RecordsInv
<1> SUFFICES ASSUME LabelsInit PROVE RecordsInv
  OBVIOUS
<1>1. /\ table = << >> /\ log = << >> /\ pos = 1 /\ Rows_ = {} /\ 1..Len(log) = {} /\ Len(log) = 0
      /\ \A a \in Request : pc[a] = "idle"
  BY DEF LabelsInit, Rows_
<1>2. pos <= Len(log) + 1
  BY <1>1
<1> QED BY <1>1, <1>2 DEF RecordsInv, RecordsClean, JobsLogged, RowsLogged, RecordsStored

(* Time, ends of saves, lost events, replays and definitions.              *)
LEMMA QuietSteps ==
  ASSUME LabelsInv, RecordsInv,
         \/ Tick \/ UNCHANGED labelsVars
         \/ \E a \in Request : rollbackRecord(a) \/ HxRefresh(a)
         \/ \E from \in 1..(pos - 1) : Replay(from)
         \/ \E l : AddLabelDef(l) \/ SubscribeLabel(l) \/ UnsubscribeLabel(l) \/ DeleteLabelDef(l)
  PROVE  RecordsInv'
<1>0. LabelShape /\ pos \in Nat /\ pos <= Len(log) + 1 /\ Len(log) \in Nat
      /\ pc \in [Request -> {"idle", "put", "insert", "undo", "done"}] /\ job \in [Request -> Entry]
      /\ table \in Seq(RowShape) /\ Rows_ = 1..Len(table)
  BY DEF LabelsInv, LabelShape, RecordsInv, RecordsClean, Rows_
<1> USE DEF content, bounds
<1>1. CASE Tick \/ UNCHANGED labelsVars
  <2>1. log' = log /\ table' = table /\ pos' = pos /\ plain' = plain /\ pc' = pc /\ job' = job
    BY <1>1 DEF Tick, labelsVars
  <2> QED BY <1>0, <2>1, SettledKeeps
<1>2. CASE \E a \in Request : rollbackRecord(a) \/ HxRefresh(a)
  <2>1. PICK a \in Request : Goto(a, "idle") /\ UNCHANGED <<content, log, pos, plain>>
    BY <1>2 DEF rollbackRecord, HxRefresh
  <2>2. \A b \in Request : pc'[b] # "idle" => pc'[b] = pc[b] /\ job'[b] = job[b]
    <3>1. pc' = [pc EXCEPT ![a] = "idle"] /\ job' = [job EXCEPT ![a] = Rest]
      BY <2>1 DEF Goto
    <3> QED BY <1>0, <3>1
  <2>3. log' = log /\ table' = table /\ pos' = pos /\ plain' = plain
    BY <2>1
  <2> QED BY <1>0, <2>2, <2>3, SettledKeeps
<1>3. CASE \E from \in 1..(pos - 1) : Replay(from)
  <2>1. PICK from \in 1..(pos - 1) : Replay(from)
    BY <1>3
  <2>2. /\ log' = log /\ table' = table /\ pos' = from /\ plain' = plain
        /\ pc' = [a \in Request |-> "idle"]
    BY <2>1 DEF Replay, Upset
  <2>3. pos' \in Nat /\ pos' <= pos /\ pos' <= Len(log) + 1
    BY <1>0, <2>2
  <2>4. \A a \in Request : pc'[a] = "idle"
    BY <2>2
  <2> QED BY <1>0, <2>2, <2>3, <2>4, SettledKeeps
<1>4. CASE \E l : AddLabelDef(l) \/ SubscribeLabel(l) \/ UnsubscribeLabel(l)
  <2>1. log' = log /\ table' = table /\ pos' = pos /\ plain' = plain /\ pc' = pc /\ job' = job
    BY <1>4 DEF AddLabelDef, SubscribeLabel, UnsubscribeLabel, Edited
  <2> QED BY <1>0, <2>1, SettledKeeps
<1>5. CASE \E l : DeleteLabelDef(l)
  <2>1. PICK l : DeleteLabelDef(l)
    BY <1>5
  <2> DEFINE K == {i \in 1..Len(table) : table[i].op.key # l}
  <2>2. log' = log /\ pos' = pos /\ pc' = pc /\ job' = job /\ plain' = FALSE /\ table' = Keep(table, K)
    BY <2>1 DEF DeleteLabelDef, Edited
  <2> HIDE DEF K
  <2>3. /\ Keep(table, K) \in Seq(RowShape)
        /\ \A x : x \in Range(Keep(table, K)) <=> \E k \in 1..Len(table) : k \in K /\ table[k] = x
    BY <1>0, KeepHas
  <2>4. \A i \in 1..Len(table') : table'[i] \in Range(table')
    BY <2>2, <2>3 DEF Range
  <2>5. \A i \in 1..Len(table') : \E j \in Rows_ : table'[i] = table[j]
    BY <1>0, <2>2, <2>3, <2>4
  <2> QED BY <1>0, <2>2, <2>5, SettledKeeps
<1> QED BY <1>1, <1>2, <1>3, <1>4, <1>5

(* A part of clean operations is clean.                                    *)
LEMMA CleanPart ==
  ASSUME NEW O, NEW P, Clean(O), P \subseteq O
  PROVE  Clean(P)
  BY DEF Clean, Agree

LEMMA ChangesClean ==
  ASSUME NEW s \in States, NEW want \in States
  PROVE  Clean(Changes(s, want))
<1>1. /\ Agree(Changes(s, want))
      /\ \A l \in Label, v \in Value :
           /\ v \in want[l] => \A o \in Changes(s, want) : ~Kills(o, l, v)
           /\ v \notin want[l] => Add(l, v) \notin Changes(s, want)
  BY ChangesFit
<1> QED BY <1>1 DEF Clean

LEMMA PerformRecords ==
  ASSUME LabelsInv, RecordsInv, NEW a \in Request, NEW want \in Panels, PerformLabelOp(a, want)
  PROVE  RecordsInv'
<1> USE DEF content
<1> DEFINE known == defs \cap subscribed
           s == ApplyLabelOps(known)
           ops == Diff(known, s, want)
           new == [rkey |-> records + 1, ops |-> ops, performed |-> clock]
<1>0. /\ LabelShape /\ pos \in Nat /\ pos <= Len(log) + 1 /\ table \in Seq(RowShape)
      /\ pc \in [Request -> {"idle", "put", "insert", "undo", "done"}]
      /\ job \in [Request -> Entry] /\ Rows_ = 1..Len(table)
  BY DEF LabelsInv, LabelShape, RecordsInv, RecordsClean, Rows_
<1>1. /\ table' = table /\ log' = log /\ pos' = pos /\ plain' = plain
      /\ job' = [job EXCEPT ![a] = new]
      /\ pc' = [pc EXCEPT ![a] = IF ops = << >> THEN "done" ELSE "put"]
  BY DEF PerformLabelOp
<1>2. s \in States /\ want \in States
  <2> HIDE DEF known
  <2>1. s \in States
    BY <1>0, ShownHolds
  <2> QED BY <2>1, PanelsAreStates
<1> HIDE DEF s, known
<1>3. Range(ops) \subseteq Changes(s, want)
  BY <1>2, DiffTurns
<1> HIDE DEF ops
<1>4. Clean(Range(ops))
  BY <1>2, <1>3, ChangesClean, CleanPart
<1>5. /\ \A b \in Request : b # a => job'[b] = job[b] /\ pc'[b] = pc[b]
      /\ job'[a].ops = ops /\ pc'[a] \in {"done", "put"}
  BY <1>0, <1>1
<1>6. \A b \in Request : pc'[b] \in {"put", "insert"} =>
        \/ pc'[b] = pc[b] /\ job'[b] = job[b]
        \/ pc'[b] = "put" /\ Clean(Range(job'[b].ops))
  BY <1>4, <1>5
<1> QED BY <1>0, <1>1, <1>6, SettledKeeps

(* A clean record with a key of its own.                                   *)
LEMMA RecordAppended ==
  ASSUME RecordsInv, LabelShape, NEW e \in Entry, log' = Append(log, e),
         Clean(Range(e.ops)), \A m \in 1..Len(log) : log[m].rkey # e.rkey,
         table' = table, pos' = pos, plain' = plain,
         \A a \in Request :
           /\ pc'[a] = "put" => pc[a] = "put" /\ job'[a] = job[a]
           /\ pc'[a] = "insert" =>
                /\ job'[a] = job[a]
                /\ \/ pc[a] = "insert"
                   \/ /\ job[a].rkey = e.rkey /\ job[a].performed = e.performed
                      /\ Range(job[a].ops) \subseteq Range(e.ops)
  PROVE  RecordsInv'
<1>0. RecordsClean /\ JobsLogged /\ RowsLogged /\ RecordsStored
  BY DEF RecordsInv
<1> DEFINE w == log'
<1>1. /\ Len(log) \in Nat /\ Len(w) = Len(log) + 1 /\ w[Len(log) + 1] = e
      /\ \A m \in 1..Len(log) : w[m] = log[m]
  <2>1. log \in Seq(Entry) /\ w = Append(log, e)
    BY DEF LabelShape
  <2> HIDE DEF w
  <2> QED BY ONLY <2>1, e \in Entry
<1> HIDE DEF w
<1>2. 1..Len(w) = (1..Len(log)) \cup {Len(log) + 1}
  BY <1>1
<1>3. RecordsClean'
  <2>1. \A m \in 1..Len(w) : Clean(Range(w[m].ops))
    BY <1>0, <1>1, <1>2 DEF RecordsClean
  <2>2. \A m, n \in 1..Len(w) : w[m].rkey = w[n].rkey => m = n
    BY <1>0, <1>1, <1>2 DEF RecordsClean
  <2>3. pos <= Len(w) + 1
    <3>1. pos \in Nat /\ pos <= Len(log) + 1
      BY <1>0 DEF RecordsClean, LabelShape
    <3> QED BY <1>1, <3>1
  <2> QED BY <2>1, <2>2, <2>3 DEF RecordsClean, w
<1>4. \A k, p, O : InRecord(k, p, O) =>
        \E m \in 1..Len(w) : w[m].rkey = k /\ w[m].performed = p /\ O \subseteq Range(w[m].ops)
  BY <1>1, <1>2 DEF InRecord
<1>5. JobsLogged'
  <2> SUFFICES ASSUME NEW a \in Request
               PROVE  /\ pc'[a] = "put" => Clean(Range(job'[a].ops))
                      /\ pc'[a] = "insert" =>
                           \E m \in 1..Len(w) : /\ w[m].rkey = job'[a].rkey
                                                /\ w[m].performed = job'[a].performed
                                                /\ Range(job'[a].ops) \subseteq Range(w[m].ops)
    BY DEF JobsLogged, InRecord, w
  <2>1. CASE pc'[a] = "put"
    BY <1>0, <2>1 DEF JobsLogged
  <2>2. CASE pc'[a] = "insert"
    <3>1. job'[a] = job[a]
      BY <2>2
    <3>2. CASE pc[a] = "insert"
      <4>1. InRecord(job[a].rkey, job[a].performed, Range(job[a].ops))
        BY <1>0, <3>2 DEF JobsLogged
      <4> QED BY <1>4, <2>2, <3>1, <4>1
    <3>3. CASE /\ job[a].rkey = e.rkey /\ job[a].performed = e.performed
               /\ Range(job[a].ops) \subseteq Range(e.ops)
      <4>1. Len(log) + 1 \in 1..Len(w)
        BY <1>2
      <4> QED BY <1>1, <2>2, <3>1, <3>3, <4>1
    <3> QED BY <2>2, <3>2, <3>3
  <2> QED BY <2>1, <2>2
<1>6. RowsLogged'
  <2> SUFFICES ASSUME NEW i \in Rows_
               PROVE  \E m \in 1..Len(w) : /\ w[m].rkey = table[i].rkey
                                           /\ w[m].performed = table[i].performed
                                           /\ {table[i].op} \subseteq Range(w[m].ops)
    BY DEF RowsLogged, Rows_, InRecord, w
  <2> DEFINE k == table[i].rkey
             p == table[i].performed
             O == {table[i].op}
  <2>1. InRecord(k, p, O)
    BY <1>0 DEF RowsLogged
  <2> HIDE DEF k, p, O
  <2>2. \E m \in 1..Len(w) : w[m].rkey = k /\ w[m].performed = p /\ O \subseteq Range(w[m].ops)
    BY <1>4, <2>1
  <2> QED BY <2>2 DEF k, p, O
<1>7. RecordsStored'
  <2> SUFFICES ASSUME plain, NEW m \in 1..Len(w), m < pos, NEW o \in Range(w[m].ops)
               PROVE  StoredOf(w[m].rkey, o)
    BY DEF RecordsStored, StoredOf, Rows_, w
  <2>1. m \in 1..Len(log)
    <3>1. pos \in Nat /\ pos <= Len(log) + 1
      BY <1>0 DEF RecordsClean, LabelShape
    <3> QED BY <1>1, <3>1
  <2> QED BY <1>0, <1>1, <2>1 DEF RecordsStored
<1> QED BY <1>3, <1>5, <1>6, <1>7 DEF RecordsInv

LEMMA PutRecords ==
  ASSUME LabelsInv, RecordsInv, NEW a \in Request, RepoPutRecord(a)
  PROVE  RecordsInv'
<1> USE DEF content, bounds
<1>0. /\ LabelShape /\ SavesKeyed /\ JobsLogged /\ pos \in Nat /\ pos <= Len(log) + 1
      /\ pc \in [Request -> {"idle", "put", "insert", "undo", "done"}]
      /\ job \in [Request -> Entry] /\ Rows_ = 1..Len(table) /\ job[a] \in Entry
  BY DEF LabelsInv, LabelShape, RecordsInv, RecordsClean, Rows_
<1>1. table' = table /\ pos' = pos /\ plain' = plain /\ pc[a] = "put"
  BY DEF RepoPutRecord
<1>2. CASE log' = Append(log, AsRecord(job[a])) /\ Goto(a, "insert") /\ job' = job
  <2> DEFINE e == AsRecord(job[a])
  <2>1. /\ e \in Entry /\ e.rkey = job[a].rkey /\ e.performed = job[a].performed
        /\ Range(e.ops) = Range(job[a].ops)
    BY <1>0, RecordHas
  <2>2. log' = Append(log, e)
    BY <1>2
  <2> HIDE DEF e
  <2>3. Clean(Range(e.ops))
    BY <1>0, <1>1, <2>1 DEF JobsLogged
  <2>4. \A m \in 1..Len(log) : log[m].rkey # e.rkey
    BY <1>0, <1>1, <2>1 DEF SavesKeyed, Unseen
  <2>5. pc'[a] = "insert" /\ \A b \in Request : b # a => pc'[b] = pc[b]
    <3>1. pc' = [pc EXCEPT ![a] = "insert"]
      BY <1>2 DEF Goto
    <3> QED BY <1>0, <3>1
  <2>6. \A b \in Request :
          /\ pc'[b] = "put" => pc[b] = "put" /\ job'[b] = job[b]
          /\ pc'[b] = "insert" =>
               /\ job'[b] = job[b]
               /\ \/ pc[b] = "insert"
                  \/ /\ job[b].rkey = e.rkey /\ job[b].performed = e.performed
                     /\ Range(job[b].ops) \subseteq Range(e.ops)
    BY <1>2, <2>1, <2>5
  <2> QED BY <1>0, <1>1, <2>1, <2>2, <2>3, <2>4, <2>6, RecordAppended
<1>3. CASE Goto(a, "idle") /\ log' = log
  <2>1. \A b \in Request : pc'[b] # "idle" => pc'[b] = pc[b] /\ job'[b] = job[b]
    <3>1. pc' = [pc EXCEPT ![a] = "idle"] /\ job' = [job EXCEPT ![a] = Rest]
      BY <1>3 DEF Goto
    <3> QED BY <1>0, <3>1
  <2> QED BY <1>0, <1>1, <1>3, <2>1, SettledKeeps
<1> QED BY <1>2, <1>3 DEF RepoPutRecord

LEMMA OtherClientRecords ==
  ASSUME LabelsInv, RecordsInv, NEW o \in Op, NEW t \in clock..(clock + 1), OtherClient(o, t)
  PROVE  RecordsInv'
<1> USE DEF content, bounds
<1> DEFINE e == [rkey |-> records + 1, ops |-> <<o>>, performed |-> t]
<1>0. LabelShape /\ clock \in Nat /\ records \in Nat /\ log \in Seq(Entry)
  BY DEF LabelsInv, LabelShape
<1>1. /\ table' = table /\ pos' = pos /\ plain' = plain /\ job' = job /\ pc' = pc
      /\ log' = Append(log, e)
  BY DEF OtherClient
<1>2. e \in Entry /\ e.rkey = records + 1
  <2>1. <<o>> \in Seq(Op) /\ t \in Nat
    BY <1>0
  <2> QED BY <1>0, <2>1 DEF Entry
<1>3. Range(e.ops) = {o}
  BY DEF Range
<1>4. Clean({o})
  <2>1. Agree({o})
    BY DEF Agree
  <2>2. \A l \in Label, v \in Value : ~Kills(Add(l, v), l, v)
    BY DEF Kills, Add
  <2>3. ASSUME NEW l \in Label, NEW v \in Value, Add(l, v) \in {o} PROVE \A p \in {o} : ~Kills(p, l, v)
    <3>1. o = Add(l, v)
      BY <2>3
    <3> QED BY <2>2, <3>1
  <2> QED BY <2>1, <2>3 DEF Clean
<1> HIDE DEF e
<1>5. \A m \in 1..Len(log) : log[m].rkey # e.rkey
  <2> SUFFICES ASSUME NEW m \in 1..Len(log) PROVE log[m].rkey # records + 1
    BY <1>2
  <2>1. log[m] \in Entry /\ log[m].rkey <= records
    BY <1>0 DEF LabelShape
  <2>2. log[m].rkey \in Nat
    BY <2>1 DEF Entry
  <2> QED BY <1>0, <2>1, <2>2
<1>6. Clean(Range(e.ops))
  BY <1>3, <1>4
<1> QED BY <1>0, <1>1, <1>2, <1>5, <1>6, RecordAppended

(* Storing operations of a record: what is stored of others stays, and of  *)
(* its own operations none replaces another one.                           *)
LEMMA StoredKeeps ==
  ASSUME RecordsInv, LabelShape, log' = log,
         NEW k, NEW O, NEW p, StoredIn(table, table', k, O, p), InRecord(k, p, O),
         pos' \in Nat, pos' <= Len(log) + 1,
         plain' => /\ plain
                   /\ \A m \in 1..Len(log) : m < pos' =>
                        \/ m < pos
                        \/ \A o \in Range(log[m].ops) :
                             \E i \in 1..Len(table') : table'[i].rkey = log[m].rkey /\ table'[i].op = o,
         \A a \in Request :
           /\ pc'[a] = "put" => pc[a] = "put" /\ job'[a] = job[a]
           /\ pc'[a] = "insert" =>
                /\ pc[a] = "insert" /\ job'[a].rkey = job[a].rkey
                /\ job'[a].performed = job[a].performed /\ Range(job'[a].ops) \subseteq Range(job[a].ops)
  PROVE  RecordsInv'
<1>0. RecordsClean /\ JobsLogged /\ RowsLogged /\ RecordsStored
  BY DEF RecordsInv
<1> DEFINE u == table'
<1>1. /\ Len(table) \in Nat /\ Len(u) \in Nat /\ Len(table) <= Len(u) /\ Rows_ = 1..Len(table)
      /\ \A i \in 1..Len(u) :
           \/ i \in Rows_ /\ u[i] = table[i]
           \/ /\ u[i].rkey = k /\ u[i].performed = p /\ u[i].op \in O
              /\ i \in Rows_ => Same(table[i], k, u[i].op)
  <2>1. u \in Seq(RowShape) /\ table \in Seq(RowShape)
    BY DEF StoredIn, LabelShape
  <2>2. Len(table) \in Nat /\ Len(u) \in Nat
    BY <2>1
  <2> QED BY <2>2 DEF StoredIn, Rows_
<1>p. ASSUME plain', NEW m \in 1..Len(log), m < pos', ~(m < pos), NEW o \in Range(log[m].ops)
      PROVE  \E i \in 1..Len(u) : u[i].rkey = log[m].rkey /\ u[i].op = o
  BY <1>p
<1> HIDE DEF u
<1>2. PICK m0 \in 1..Len(log) : log[m0].rkey = k /\ log[m0].performed = p /\ O \subseteq Range(log[m0].ops)
  BY DEF InRecord
<1>3. RecordsClean'
  BY <1>0 DEF RecordsClean
<1>4. JobsLogged'
  <2> SUFFICES ASSUME NEW a \in Request
               PROVE  /\ pc'[a] = "put" => Clean(Range(job'[a].ops))
                      /\ pc'[a] = "insert" =>
                           \E m \in 1..Len(log) : /\ log[m].rkey = job'[a].rkey
                                                  /\ log[m].performed = job'[a].performed
                                                  /\ Range(job'[a].ops) \subseteq Range(log[m].ops)
    BY DEF JobsLogged, InRecord
  <2>1. CASE pc'[a] = "put"
    BY <1>0, <2>1 DEF JobsLogged
  <2>2. CASE pc'[a] = "insert"
    <3>1. InRecord(job[a].rkey, job[a].performed, Range(job[a].ops))
      BY <1>0, <2>2 DEF JobsLogged
    <3>2. PICK m \in 1..Len(log) : /\ log[m].rkey = job[a].rkey /\ log[m].performed = job[a].performed
                                   /\ Range(job[a].ops) \subseteq Range(log[m].ops)
      BY <3>1 DEF InRecord
    <3> QED BY <2>2, <3>2
  <2> QED BY <2>1, <2>2
<1>5. RowsLogged'
  <2> SUFFICES ASSUME NEW i \in 1..Len(u)
               PROVE  \E m \in 1..Len(log) : /\ log[m].rkey = u[i].rkey
                                             /\ log[m].performed = u[i].performed
                                             /\ u[i].op \in Range(log[m].ops)
    BY DEF RowsLogged, Rows_, InRecord, u
  <2>1. CASE i \in Rows_ /\ u[i] = table[i]
    <3>1. InRecord(table[i].rkey, table[i].performed, {table[i].op})
      BY <1>0, <2>1 DEF RowsLogged
    <3>2. PICK m \in 1..Len(log) : /\ log[m].rkey = table[i].rkey /\ log[m].performed = table[i].performed
                                   /\ table[i].op \in Range(log[m].ops)
      BY <3>1 DEF InRecord
    <3> QED BY <2>1, <3>2
  <2>2. CASE u[i].rkey = k /\ u[i].performed = p /\ u[i].op \in O
    BY <1>2, <2>2
  <2> QED BY <1>1, <2>1, <2>2
<1>6. ASSUME NEW m \in 1..Len(log), NEW o \in Range(log[m].ops), StoredOf(log[m].rkey, o)
      PROVE  \E i \in 1..Len(u) : u[i].rkey = log[m].rkey /\ u[i].op = o
  <2>1. PICK i \in Rows_ : table[i].rkey = log[m].rkey /\ table[i].op = o
    BY <1>6 DEF StoredOf
  <2>2. i \in 1..Len(u)
    BY <1>1
  <2>3. CASE u[i].rkey = k /\ u[i].op \in O /\ Same(table[i], k, u[i].op)
    <3>1. m = m0
      BY <1>0, <1>2, <2>1, <2>3 DEF RecordsClean, Same
    <3>2. o \in Range(log[m].ops) /\ u[i].op \in Range(log[m].ops)
      BY <1>2, <2>3, <3>1
    <3>3. o.key = u[i].op.key /\ o.val = u[i].op.val
      BY <2>1, <2>3 DEF Same
    <3>4. Agree(Range(log[m].ops))
      BY <1>0 DEF RecordsClean, Clean
    <3>5. o = u[i].op
      BY <3>2, <3>3, <3>4 DEF Agree
    <3> QED BY <1>2, <2>2, <2>3, <3>1, <3>5
  <2> QED BY <1>1, <2>1, <2>2, <2>3
<1>7. RecordsStored'
  <2> SUFFICES ASSUME plain', NEW m \in 1..Len(log), m < pos', NEW o \in Range(log[m].ops)
               PROVE  StoredOf(log[m].rkey, o)'
    BY DEF RecordsStored
  <2>1. ASSUME m < pos
        PROVE  \E i \in 1..Len(u) : u[i].rkey = log[m].rkey /\ u[i].op = o
    <3>1. plain /\ StoredOf(log[m].rkey, o)
      BY <1>0, <2>1 DEF RecordsStored
    <3> QED BY <1>6, <3>1
  <2>2. \E i \in 1..Len(u) : u[i].rkey = log[m].rkey /\ u[i].op = o
    BY <1>p, <2>1
  <2> QED BY <2>2 DEF StoredOf, Rows_, u
<1> QED BY <1>3, <1>4, <1>5, <1>7 DEF RecordsInv

LEMMA HeadAndTail ==
  ASSUME NEW S, NEW q \in Seq(S), q # << >>
  PROVE  /\ Head(q) \in S /\ Head(q) \in Range(q) /\ Tail(q) \in Seq(S)
         /\ Range(Tail(q)) \subseteq Range(q)
<1>1. /\ Len(q) \in Nat \ {0} /\ Head(q) = q[1] /\ Tail(q) \in Seq(S)
      /\ Len(Tail(q)) = Len(q) - 1
      /\ \A i \in 1..(Len(q) - 1) : Tail(q)[i] = q[i + 1]
  OBVIOUS
<1>2. 1 \in 1..Len(q) /\ \A i \in 1..(Len(q) - 1) : i + 1 \in 1..Len(q)
  BY <1>1
<1>3. Head(q) \in S
  BY <1>1, <1>2
<1>4. Head(q) \in Range(q)
  BY <1>1, <1>2 DEF Range
<1>5. \A i \in 1..Len(Tail(q)) : Tail(q)[i] \in Range(q)
  BY <1>1, <1>2 DEF Range
<1>6. Range(Tail(q)) \subseteq Range(q)
  BY <1>1, <1>5 DEF Range
<1> QED BY <1>1, <1>3, <1>4, <1>6

LEMMA InsertRecords ==
  ASSUME LabelsInv, RecordsInv, NEW a \in Request, InsertOp(a)
  PROVE  RecordsInv'
<1> USE DEF bounds
<1>0. /\ LabelShape /\ SavesKeyed /\ JobsLogged /\ pos \in Nat /\ pos <= Len(log) + 1
      /\ clock \in Nat /\ table \in Seq(RowShape) /\ Rows_ = 1..Len(table)
      /\ pc \in [Request -> {"idle", "put", "insert", "undo", "done"}]
      /\ job \in [Request -> Entry] /\ job[a] \in Entry
  BY DEF LabelsInv, LabelShape, RecordsInv, RecordsClean, Rows_
<1>1. pc[a] = "insert" /\ log' = log /\ pos' = pos /\ plain' = plain
  BY DEF InsertOp
<1>2. CASE /\ table' = AddLabelOp(table, job[a].rkey, Head(job[a].ops), job[a].performed)
           /\ job' = [job EXCEPT ![a].ops = Tail(@)]
           /\ pc' = [pc EXCEPT ![a] = IF Len(job[a].ops) = 1 THEN "done" ELSE "insert"]
  <2> DEFINE k == job[a].rkey
             p == job[a].performed
             q == job[a].ops
             o == Head(q)
  <2>1. k \in Nat /\ p \in Nat /\ q \in Seq(Op) /\ q # << >>
    BY <1>0, <1>1 DEF Entry, SavesKeyed
  <2>2. table' = AddLabelOp(table, k, o, p)
    BY <1>2
  <2>3. InRecord(k, p, Range(q))
    BY <1>0, <1>1 DEF JobsLogged
  <2>4. /\ job'[a] = [job[a] EXCEPT !.ops = Tail(q)] /\ pc'[a] \in {"done", "insert"}
        /\ \A b \in Request : b # a => job'[b] = job[b] /\ pc'[b] = pc[b]
    BY <1>0, <1>2
  <2>5. job'[a].rkey = k /\ job'[a].performed = p /\ job'[a].ops = Tail(q)
    <3> DEFINE e == job[a]
               r == Tail(q)
    <3>1. e \in Entry /\ k = e.rkey /\ p = e.performed /\ job'[a] = [e EXCEPT !.ops = r]
      BY <1>0, <2>4
    <3> HIDE DEF e, k, p, q, r
    <3>2. job'[a].rkey = k /\ job'[a].performed = p /\ job'[a].ops = r
      BY <3>1 DEF Entry
    <3> QED BY <3>2 DEF r
  <2> HIDE DEF q
  <2>6. o \in Op /\ o \in Range(q) /\ Range(Tail(q)) \subseteq Range(q)
    BY <2>1, HeadAndTail
  <2>7. Range(job'[a].ops) \subseteq Range(job[a].ops)
    BY <2>5, <2>6 DEF q
  <2>8. \A b \in Request :
          /\ pc'[b] = "put" => pc[b] = "put" /\ job'[b] = job[b]
          /\ pc'[b] = "insert" =>
               /\ pc[b] = "insert" /\ job'[b].rkey = job[b].rkey
               /\ job'[b].performed = job[b].performed /\ Range(job'[b].ops) \subseteq Range(job[b].ops)
    <3> SUFFICES ASSUME NEW b \in Request
                 PROVE  /\ pc'[b] = "put" => pc[b] = "put" /\ job'[b] = job[b]
                        /\ pc'[b] = "insert" =>
                             /\ pc[b] = "insert" /\ job'[b].rkey = job[b].rkey
                             /\ job'[b].performed = job[b].performed
                             /\ Range(job'[b].ops) \subseteq Range(job[b].ops)
      OBVIOUS
    <3>1. CASE b = a
      BY <1>1, <2>4, <2>5, <2>7, <3>1
    <3>2. CASE b # a
      BY <2>4, <3>2
    <3> QED BY <3>1, <3>2
  <2> HIDE DEF k, p, o
  <2> DEFINE O == {o}
  <2>9. InRecord(k, p, O)
    BY <2>3, <2>6 DEF InRecord
  <2>10. StoredIn(table, table', k, O, p)
    <3>1. StoredIn(table, table, k, O, p)
      BY <1>0 DEF StoredIn
    <3>2. o \in O
      OBVIOUS
    <3> HIDE DEF O
    <3>3. StoredIn(table, AddLabelOp(table, k, o, p), k, O, p)
      BY <1>0, <2>1, <2>6, <3>1, <3>2, StoresMore
    <3> QED BY <2>2, <3>3
  <2> HIDE DEF O
  <2>11. \A m \in 1..Len(log) : m < pos' => m < pos
    BY <1>1
  <2> QED BY <1>0, <1>1, <2>8, <2>9, <2>10, <2>11, StoredKeeps
<1>3. CASE table' = table /\ job' = job /\ pc' = [pc EXCEPT ![a] = "undo"]
  <2>1. \A b \in Request : pc'[b] # "undo" => pc'[b] = pc[b] /\ job'[b] = job[b]
    BY <1>0, <1>3
  <2> QED BY <1>0, <1>1, <1>3, <2>1, SettledKeeps
<1> QED BY <1>2, <1>3 DEF InsertOp, Goto

(* The operations of a record are all stored: none takes the row of        *)
(* another one.                                                            *)
LEMMA IngestHas ==
  ASSUME clock \in Nat, table \in Seq(RowShape), NEW e \in Entry, Agree(Range(e.ops))
  PROVE  LET u == StoredRun(e)[Len(e.ops)]
         IN  \A o \in Range(e.ops) : \E i \in 1..Len(u) : u[i].rkey = e.rkey /\ u[i].op = o
<1> DEFINE n == Len(e.ops)
           c == StoredRun(e)
           rk == e.rkey
           p == e.performed
           q == e.ops
           Has(x, o) == \E i \in 1..Len(x) : x[i].rkey = rk /\ x[i].op = o
           T == {k \in 0..n : \A j \in 1..k : Has(c[k], q[j])}
<1>1. /\ n \in Nat /\ rk \in Nat /\ p \in Nat
      /\ \A k \in 1..n : q[k] \in Op /\ q[k] \in Range(q)
      /\ \A o \in Range(q) : \E k \in 1..n : q[k] = o
  <2>1. rk \in Nat /\ p \in Nat /\ q \in Seq(Op)
    BY DEF Entry
  <2> QED BY <2>1 DEF Range
<1>2. /\ \A k \in 0..n : c[k] \in Seq(RowShape)
      /\ \A k \in 1..n : c[k] = AddLabelOp(c[k - 1], rk, q[k], p)
  BY StoredSteps
<1>a. Agree(Range(q))
  OBVIOUS
<1> HIDE DEF n, c, rk, p, q
<1>3. 0 \in T
  BY <1>1
<1>4. ASSUME NEW k \in 0..n, k \in T, k < n PROVE k + 1 \in T
  <2>1. k + 1 \in 1..n /\ k + 1 \in 0..n /\ (k + 1) - 1 = k /\ k \in Nat
    BY <1>1, <1>4
  <2> DEFINE x == c[k]
             w == c[k + 1]
             o == q[k + 1]
             row == [rkey |-> rk, op |-> o, performed |-> p, indexed |-> clock]
  <2>2. x \in Seq(RowShape) /\ w = AddLabelOp(x, rk, o, p) /\ o \in Op /\ o \in Range(q)
    BY <1>1, <1>2, <2>1
  <2>h. \A j \in 1..k : Has(x, q[j])
    <3> HIDE DEF Has
    <3> QED BY <1>4
  <2> HIDE DEF x, o, T
  <2>3. /\ w \in Seq(RowShape) /\ Len(x) <= Len(w)
        /\ \A i \in 1..Len(w) : \/ i <= Len(x) /\ w[i] = x[i]
                                \/ w[i] = row /\ (i <= Len(x) => Same(x[i], rk, o))
        /\ \E i \in 1..Len(w) : w[i] = row
    <3> DEFINE y == AddLabelOp(x, rk, o, p)
    <3> HIDE DEF w
    <3>1. clock \in Nat /\ x \in Seq(RowShape) /\ rk \in Nat /\ o \in Op /\ p \in Nat
      BY <1>1, <2>2
    <3>2. /\ y \in Seq(RowShape) /\ Len(x) <= Len(y)
          /\ \A i \in 1..Len(y) : \/ i <= Len(x) /\ y[i] = x[i]
                                  \/ y[i] = row /\ (i <= Len(x) => Same(x[i], rk, o))
          /\ \E i \in 1..Len(y) : y[i] = row
      BY ONLY <3>1, AddStores
    <3>3. w = y
      BY <2>2
    <3> QED BY <3>2, <3>3
  <2> HIDE DEF w
  <2>4. row.rkey = rk /\ row.op = o
    OBVIOUS
  <2> HIDE DEF row
  <2>5. Has(w, o)
    BY <2>3, <2>4
  <2>6. ASSUME NEW j \in 1..k PROVE Has(w, q[j])
    <3>1. PICK i \in 1..Len(x) : x[i].rkey = rk /\ x[i].op = q[j]
      BY <2>h
    <3>2. i \in 1..Len(w) /\ i <= Len(x)
      <4>1. Len(x) \in Nat /\ Len(w) \in Nat
        BY <2>2, <2>3
      <4> QED BY <2>3, <4>1
    <3>3. CASE w[i] = x[i]
      BY <3>1, <3>2, <3>3
    <3>4. CASE w[i] = row /\ Same(x[i], rk, o)
      <4>1. q[j] \in Range(q)
        <5>1. j \in 1..n
          BY <1>1, <2>1, <2>6
        <5> QED BY <1>1, <5>1
      <4>2. q[j].key = o.key /\ q[j].val = o.val
        BY <3>1, <3>4 DEF Same
      <4>3. q[j] = o
        BY <1>a, <2>2, <4>1, <4>2 DEF Agree
      <4> QED BY <2>4, <3>2, <3>4, <4>3
    <3> QED BY <2>3, <3>2, <3>3, <3>4
  <2>7. 1..(k + 1) = (1..k) \cup {k + 1}
    BY <2>1
  <2> HIDE DEF Has
  <2>8. \A j \in 1..(k + 1) : Has(c[k + 1], q[j])
    BY <2>5, <2>6, <2>7 DEF o, w
  <2> QED BY <2>1, <2>8 DEF T
<1>5. n \in T
  <2> HIDE DEF T
  <2>1. 0..n \subseteq T
    BY <1>1, <1>3, <1>4, UpToInduction
  <2> QED BY <1>1, <2>1
<1>6. \A o \in Range(q) : Has(c[n], o)
  <2> HIDE DEF Has
  <2> QED BY <1>1, <1>5
<1> QED BY <1>6 DEF n, c, rk, q

LEMMA IngestRecords ==
  ASSUME LabelsInv, RecordsInv, ingestLabelOp
  PROVE  RecordsInv'
<1> USE DEF bounds
<1> DEFINE e == log[pos]
<1>0. /\ LabelShape /\ RecordsClean /\ clock \in Nat /\ table \in Seq(RowShape)
      /\ Rows_ = 1..Len(table) /\ log \in Seq(Entry) /\ pos \in Nat \ {0}
  BY DEF LabelsInv, LabelShape, RecordsInv, Rows_
<1>1. pos' = pos + 1 /\ pos <= Len(log) /\ log' = log /\ pc' = pc /\ job' = job
  BY DEF ingestLabelOp
<1>2. /\ pos \in 1..Len(log) /\ pos' \in Nat /\ pos' <= Len(log) + 1 /\ Len(log) \in Nat
      /\ e \in Entry /\ Agree(Range(e.ops))
  <2>1. Len(log) \in Nat
    BY <1>0
  <2>2. pos \in 1..Len(log) /\ pos' \in Nat /\ pos' <= Len(log) + 1
    BY <1>0, <1>1, <2>1
  <2> QED BY <1>0, <2>1, <2>2 DEF RecordsClean, Clean
<1>3. CASE table' = StoredRun(e)[Len(e.ops)] /\ plain' = plain
  <2> DEFINE k == e.rkey
             O == Range(e.ops)
             p == e.performed
  <2>1. StoredIn(table, table', k, O, p)
    <3> HIDE DEF e
    <3> QED BY <1>0, <1>2, <1>3, IngestStores
  <2>2. InRecord(k, p, O)
    BY <1>2 DEF InRecord
  <2>3. \A o \in Range(e.ops) : \E i \in 1..Len(table') : table'[i].rkey = e.rkey /\ table'[i].op = o
    <3> HIDE DEF e
    <3> QED BY <1>0, <1>2, <1>3, IngestHas
  <2>4. \A m \in 1..Len(log) : m < pos' =>
          \/ m < pos
          \/ \A o \in Range(log[m].ops) :
               \E i \in 1..Len(table') : table'[i].rkey = log[m].rkey /\ table'[i].op = o
    <3> SUFFICES ASSUME NEW m \in 1..Len(log), m < pos', ~(m < pos)
                 PROVE  \A o \in Range(log[m].ops) :
                          \E i \in 1..Len(table') : table'[i].rkey = log[m].rkey /\ table'[i].op = o
      OBVIOUS
    <3>1. m = pos
      BY <1>0, <1>1, <1>2
    <3> QED BY <2>3, <3>1
  <2> HIDE DEF k, O, p
  <2> QED BY <1>0, <1>1, <1>2, <1>3, <2>1, <2>2, <2>4, StoredKeeps
<1>4. CASE table' = table /\ plain' = FALSE
  BY <1>0, <1>1, <1>2, <1>4, SettledKeeps
<1> QED BY <1>3, <1>4 DEF ingestLabelOp, StoredRun

LEMMA RecordsInductive == LabelsInv /\ RecordsInv /\ [LabelsNext]_labelsVars => RecordsInv'
<1> SUFFICES ASSUME LabelsInv, RecordsInv, [LabelsNext]_labelsVars PROVE RecordsInv'
  OBVIOUS
<1>1. CASE \/ Tick \/ UNCHANGED labelsVars
           \/ \E a \in Request : rollbackRecord(a) \/ HxRefresh(a)
           \/ \E from \in 1..(pos - 1) : Replay(from)
           \/ \E l \in defs : DeleteLabelDef(l)
           \/ \E l \in Label \ defs : AddLabelDef(l)
           \/ \E l \in defs \ subscribed : SubscribeLabel(l)
           \/ \E l \in subscribed : UnsubscribeLabel(l)
  BY <1>1, QuietSteps
<1>2. CASE \E a \in Request : \E want \in Panels : PerformLabelOp(a, want)
  BY <1>2, PerformRecords
<1>3. CASE \E a \in Request : RepoPutRecord(a)
  BY <1>3, PutRecords
<1>4. CASE \E a \in Request : InsertOp(a)
  BY <1>4, InsertRecords
<1>5. CASE ingestLabelOp
  BY <1>5, IngestRecords
<1>6. CASE \E o \in {p \in Op : p.key \in defs}, t \in clock..(clock + 1) : OtherClient(o, t)
  BY <1>6, OtherClientRecords
<1> QED BY <1>1, <1>2, <1>3, <1>4, <1>5, <1>6 DEF LabelsNext

(* Once every record is ingested and no save is running, the labels of an  *)
(* issue are the fold of the records in the order of their times, whoever  *)
(* stored them, in whatever order and however often (models/label.go,      *)
(* ApplyLabelOps; labels.go, PerformLabelOp; ingester.go, ingestLabelOp).  *)
THEOREM LabelsConverged == LabelsSpec => []LabelsConverge
<1>1. LabelsInit => LabelsInv /\ RecordsInv
  BY InitLabels, InitRecords
<1>2. LabelsInv /\ RecordsInv /\ [LabelsNext]_labelsVars => (LabelsInv /\ RecordsInv)'
  BY LabelsInductive, RecordsInductive
<1>3. LabelsInv /\ RecordsInv => LabelsConverge
  BY RecordsConverge
<1> QED BY <1>1, <1>2, <1>3, PTL DEF LabelsSpec
=============================================================================
