------------------------- MODULE DiscussionsProofs -------------------------
(***************************************************************************)
(* Proofs, for any users, changes, channels, requests and faults, that the *)
(* dependency checks of a discussion keep what they promise, and that a    *)
(* discussion shown as merged was applied.                                 *)
(***************************************************************************)
EXTENDS Discussions, SequenceTheorems, TLAPS

(***************************************************************************)
(* The inductive invariant: what a request may still rely on.              *)
(***************************************************************************)

(* A check of the dependencies still holds until the discussion changes.   *)
CheckHolds(r) ==
  /\ r.pc = "insert" /\ ~r.stale =>
       ~\E i \in PatchesOf(r.d) : patches[i].removed /\ patches[i].hash \in Deps[r.hash]
  /\ r.pc = "mark" /\ ~r.stale =>
       patches[r.id].d = r.d /\ Dependents(r.d, r.id) = {}
  /\ r.pc \in {"remove", "readd", "mark"} => r.id \in 1..Len(patches)

(* A merge without a failed change has applied every active patch that is  *)
(* neither still to be applied nor newer than its snapshot.                *)
MergeHolds(r) ==
  /\ r.pc \in {"merge", "apply", "merged"} /\ ~r.failed =>
       \A i \in ActivePatches(r.d) \ r.later :
         i \in r.active \/ patches[i].hash \in channels[Current]
  /\ r.pc = "merged" => r.active = {} /\ ~r.failed

RequestsOK == \A q \in Request : CheckHolds(req[q]) /\ MergeHolds(req[q])

Bounded == Len(discussions) <= MaxDiscussions

IInv == TypeOK /\ Bounded /\ RequestsOK /\ DependenciesKept /\ MergedShowsApplied

----------------------------------------------------------------------------
(***************************************************************************)
(* Records of requests.                                                    *)
(***************************************************************************)
Pc == Op \cup {"verify", "insert", "mark", "apply", "merged"}

(* The rows of the two tables. *)
LEMMA Rows ==
  ASSUME TypeOK
  PROVE  /\ Len(patches) \in Nat /\ Len(discussions) \in Nat
         /\ \A i \in 1..Len(patches) :
              /\ patches[i].d \in Discussion /\ patches[i].hash \in Hash
              /\ patches[i].by \in User /\ patches[i].removed \in BOOLEAN
         /\ \A d \in Discussion : /\ discussions[d].did \in User
                                  /\ discussions[d].target \in Channel
                                  /\ discussions[d].state \in State
<1> DEFINE Patch == [d : Discussion, hash : Hash, by : User, removed : BOOLEAN]
           Row   == [did : User, target : Channel, state : State]
<1>1. patches \in Seq(Patch) /\ discussions \in Seq(Row)
  BY DEF TypeOK
<1> HIDE DEF Patch, Row
<1>2. Len(patches) \in Nat /\ Len(discussions) \in Nat
  BY <1>1
<1>3. \A i \in 1..Len(patches) : patches[i] \in Patch
  BY <1>1, ElementOfSeq
<1>4. \A d \in Discussion : discussions[d] \in Row
  BY <1>1, ElementOfSeq DEF Discussion
<1> QED
  BY <1>2, <1>3, <1>4 DEF Patch, Row

(* A request that has not ended is being served, and its fields have the   *)
(* types the tables give them.                                             *)
LEMMA ServingFields ==
  ASSUME TypeOK, NEW q \in Request, req[q].pc # "idle"
  PROVE  /\ req[q] \in Serving /\ req[q] # Idle
         /\ req[q].pc \in Pc /\ req[q].user \in User
         /\ req[q].d \in Discussion /\ req[q].hash \in Hash
         /\ req[q].failed \in BOOLEAN /\ req[q].stale \in BOOLEAN
<1>1. req[q] \in {Idle} \cup Serving
  BY DEF TypeOK
<1>2. req[q] # Idle
  BY DEF Idle
<1>3. req[q] \in Serving
  BY <1>1, <1>2
<1> QED
  BY <1>2, <1>3 DEF Serving, Pc

(* A step changes the record of one request. *)
LEMMA OneRequest ==
  ASSUME TypeOK, NEW q \in Request, NEW x \in {Idle} \cup Serving,
         req' = [req EXCEPT ![q] = x]
  PROVE  /\ req' \in [Request -> {Idle} \cup Serving]
         /\ req'[q] = x
         /\ \A r \in Request : r # q => req'[r] = req[r]
BY DEF TypeOK

(* A served request that moves on keeps what else it knows. *)
LEMMA MovesOn ==
  ASSUME TypeOK, NEW q \in Request, req[q].pc # "idle", NEW l \in Pc, Goto(q, l)
  PROVE  /\ req' \in [Request -> {Idle} \cup Serving]
         /\ req'[q].pc = l /\ req'[q].d = req[q].d /\ req'[q].hash = req[q].hash
         /\ req'[q].id = req[q].id /\ req'[q].active = req[q].active
         /\ req'[q].failed = req[q].failed /\ req'[q].later = req[q].later
         /\ req'[q].stale = req[q].stale
         /\ \A r \in Request : r # q => req'[r] = req[r]
<1> DEFINE x == [req[q] EXCEPT !.pc = l]
<1>1. req[q] \in Serving
  BY ServingFields
<1>2. x \in Serving
  BY <1>1 DEF Serving, Pc
<1>3. /\ x.pc = l /\ x.d = req[q].d /\ x.hash = req[q].hash
      /\ x.id = req[q].id /\ x.active = req[q].active /\ x.failed = req[q].failed
      /\ x.later = req[q].later /\ x.stale = req[q].stale
  BY <1>1 DEF Serving
<1>4. req' = [req EXCEPT ![q] = x]
  BY DEF Goto
<1>5. x \in {Idle} \cup Serving
  BY <1>2
<1> HIDE DEF x
<1>6. /\ req' \in [Request -> {Idle} \cup Serving]
      /\ req'[q] = x
      /\ \A r \in Request : r # q => req'[r] = req[r]
  BY <1>4, <1>5, OneRequest DEF TypeOK
<1> QED
  BY <1>3, <1>6

(* A request that ends relies on nothing. *)
LEMMA Ends ==
  ASSUME TypeOK, NEW q \in Request, Done(q)
  PROVE  /\ req' \in [Request -> {Idle} \cup Serving]
         /\ req'[q] = Idle
         /\ \A r \in Request : r # q => req'[r] = req[r]
BY DEF Done, TypeOK

(* An idle request relies on nothing. *)
LEMMA IdleHolds == CheckHolds(Idle) /\ MergeHolds(Idle)
BY DEF CheckHolds, MergeHolds, Idle

LEMMA IdleHoldsNext == CheckHolds(Idle)' /\ MergeHolds(Idle)'
BY DEF CheckHolds, MergeHolds, Idle

----------------------------------------------------------------------------
(***************************************************************************)
(* Steps that only move one request.                                       *)
(***************************************************************************)

(* Only the request's own claims have to be shown again. *)
LEMMA OnlyRequest ==
  ASSUME IInv, NEW q \in Request,
         UNCHANGED <<discussions, patches, channels, fresh, excused>>,
         calls' \in 0..MaxCalls, faults' \in 0..MaxFaults,
         req' \in [Request -> {Idle} \cup Serving],
         \A r \in Request : r # q => req'[r] = req[r],
         CheckHolds(req'[q]) /\ MergeHolds(req'[q])
  PROVE  IInv'
<1> USE DEF IInv
<1>1. TypeOK'
  BY DEF TypeOK, Serving, Discussion
<1>2. RequestsOK'
  <2>1. \A r \in Request : CheckHolds(req'[r]) /\ MergeHolds(req'[r])
    BY DEF RequestsOK
  <2> QED
    BY <2>1 DEF RequestsOK, CheckHolds, MergeHolds, PatchesOf, Dependents, ActivePatches
<1>3. DependenciesKept' /\ MergedShowsApplied' /\ Bounded'
  BY DEF DependenciesKept, MergedShowsApplied, Bounded, Discussion, PatchesOf,
         ActivePatches, HashesOf
<1> QED
  BY <1>1, <1>2, <1>3

(* Faults are counted up to their bound. *)
LEMMA FaultType == TypeOK /\ (UNCHANGED faults \/ Fault) => faults' \in 0..MaxFaults
BY DiscussionsAssumption DEF TypeOK, Fault

(* A request that ends, with nothing else changed. *)
LEMMA GiveUp ==
  ASSUME IInv, NEW q \in Request, Done(q), UNCHANGED faults \/ Fault,
         UNCHANGED <<discussions, patches, channels, fresh, excused, calls>>
  PROVE  IInv'
<1>1. calls' \in 0..MaxCalls
  BY DEF IInv, TypeOK
<1>2. faults' \in 0..MaxFaults
  BY FaultType DEF IInv
<1> QED
  BY <1>1, <1>2, Ends, IdleHolds, OnlyRequest DEF IInv

(* The middleware's snapshot has every active patch.                       *)
LEMMA ResolveIInv ==
  ASSUME IInv, NEW q \in Request, NEW op \in Op, NEW u \in User, NEW d \in Discussion,
         NEW a \in Arguments(op), ResolveDiscussion(q, op, u, d, a[1], a[2])
  PROVE  IInv'
<1> USE DiscussionsAssumption DEF IInv
<1> DEFINE x == [pc |-> op, user |-> u, d |-> d, hash |-> a[1], id |-> a[2],
                 state |-> discussions[d].state, active |-> ActivePatches(d),
                 failed |-> FALSE, later |-> {}, stale |-> FALSE]
<1>1. Len(patches) \in Nat /\ \A i \in 1..Len(patches) : patches[i].hash \in Hash
  BY Rows
<1>2. a[1] \in Hash /\ a[2] \in 0..Len(patches) /\ (op \in {"remove", "readd"} => a[2] \in 1..Len(patches))
  <2>1. CASE op = "add"
    BY <1>1, <2>1 DEF Arguments
  <2>2. CASE op \in {"remove", "readd"}
    BY <1>1, <2>2 DEF Arguments
  <2>3. CASE op \notin {"add", "remove", "readd"}
    <3>1. a = <<CHOOSE h \in Hash : TRUE, 0>>
      BY <2>3 DEF Arguments
    <3>2. (CHOOSE h \in Hash : TRUE) \in Hash
      OBVIOUS
    <3> QED
      BY <1>1, <2>3, <3>1, <3>2
  <2> QED
    BY <2>1, <2>2, <2>3
<1>3. discussions[d].state \in State /\ ActivePatches(d) \subseteq 1..Len(patches)
  BY Rows DEF ActivePatches, PatchesOf
<1>4. x \in Serving
  BY <1>2, <1>3 DEF Serving
<1>5. CheckHolds(x)
  BY <1>2 DEF CheckHolds, Op
<1>6. MergeHolds(x)
  BY DEF MergeHolds, Op
<1>7. x \in {Idle} \cup Serving /\ req' = [req EXCEPT ![q] = x]
  BY <1>4 DEF ResolveDiscussion
<1> HIDE DEF x
<1>8. req' \in [Request -> {Idle} \cup Serving] /\ req'[q] = x /\ \A r \in Request : r # q => req'[r] = req[r]
  BY <1>7, OneRequest
<1>9. calls' \in 0..MaxCalls /\ faults' \in 0..MaxFaults
      /\ UNCHANGED <<discussions, patches, channels, fresh, excused>>
  BY DEF ResolveDiscussion, TypeOK
<1> QED
  BY <1>5, <1>6, <1>8, <1>9, OnlyRequest

(* The snapshot says open and the change is new, or the request ends. *)
LEMMA AddPatchIInv ==
  ASSUME IInv, NEW q \in Request, AddPatch(q)
  PROVE  IInv'
<1> USE DEF IInv
<1>1. req[q].pc = "add" /\ UNCHANGED <<discussions, patches, channels, calls, faults, fresh, excused>>
  BY DEF AddPatch
<1>2. CASE Done(q)
  BY <1>1, <1>2, GiveUp
<1>3. CASE Goto(q, "verify")
  <2>1. "verify" \in Pc /\ calls' \in 0..MaxCalls /\ faults' \in 0..MaxFaults
    BY <1>1 DEF Pc, TypeOK
  <2>2. /\ req' \in [Request -> {Idle} \cup Serving]
        /\ req'[q].pc = "verify" /\ \A r \in Request : r # q => req'[r] = req[r]
    BY <1>1, <1>3, <2>1, MovesOn
  <2>3. CheckHolds(req'[q]) /\ MergeHolds(req'[q])
    BY <2>2 DEF CheckHolds, MergeHolds
  <2> QED
    BY <1>1, <2>1, <2>2, <2>3, OnlyRequest
<1> QED
  BY <1>2, <1>3 DEF AddPatch

(* A request that has made its check relies on it from now on. *)
LEMMA ChecksOn ==
  ASSUME TypeOK, NEW q \in Request, req[q].pc # "idle", NEW l \in Pc, NEW b \in BOOLEAN,
         req' = [req EXCEPT ![q].pc = l, ![q].stale = b]
  PROVE  /\ req' \in [Request -> {Idle} \cup Serving]
         /\ req'[q].pc = l /\ req'[q].d = req[q].d /\ req'[q].hash = req[q].hash
         /\ req'[q].id = req[q].id /\ req'[q].stale = b
         /\ \A r \in Request : r # q => req'[r] = req[r]
<1> DEFINE x == [req[q] EXCEPT !.pc = l, !.stale = b]
<1>1. req[q] \in Serving
  BY ServingFields
<1>2. x \in Serving
  BY <1>1 DEF Serving, Pc
<1>3. /\ x.pc = l /\ x.d = req[q].d /\ x.hash = req[q].hash
      /\ x.id = req[q].id /\ x.stale = b
  BY <1>1 DEF Serving
<1>4. req' = [req EXCEPT ![q] = x]
  BY DEF TypeOK
<1>5. x \in {Idle} \cup Serving
  BY <1>2
<1> HIDE DEF x
<1> QED
  BY <1>3, <1>4, <1>5, OneRequest

(* The check of AddPatch finds no removed dependency. *)
LEMMA CheckAddIInv ==
  ASSUME IInv, NEW q \in Request, canAddPatchWithChange(q)
  PROVE  IInv'
<1> USE DEF IInv
<1>1. /\ req[q].pc = "verify" /\ UNCHANGED <<discussions, patches, channels, calls, fresh, excused>>
      /\ UNCHANGED faults \/ Fault
  BY DEF canAddPatchWithChange
<1>2. CASE Done(q)
  BY <1>1, <1>2, GiveUp
<1>3. CASE /\ ~\E i \in PatchesOf(req[q].d) :
                 patches[i].removed /\ patches[i].hash \in Deps[req[q].hash]
           /\ req' = [req EXCEPT ![q].pc = "insert", ![q].stale = FALSE]
  <2>1. "insert" \in Pc /\ calls' \in 0..MaxCalls /\ faults' \in 0..MaxFaults
    BY <1>1, FaultType DEF Pc, TypeOK
  <2>2. /\ req' \in [Request -> {Idle} \cup Serving]
        /\ req'[q].pc = "insert" /\ req'[q].d = req[q].d /\ req'[q].hash = req[q].hash
        /\ \A r \in Request : r # q => req'[r] = req[r]
    BY <1>1, <1>3, <2>1, ChecksOn
  <2>3. CheckHolds(req'[q]) /\ MergeHolds(req'[q])
    BY <1>3, <2>2 DEF CheckHolds, MergeHolds
  <2> QED
    BY <1>1, <2>1, <2>2, <2>3, OnlyRequest
<1> QED
  BY <1>2, <1>3 DEF canAddPatchWithChange

(* The check of RemovePatch finds no dependent, or is skipped. *)
LEMMA CheckRemoveIInv ==
  ASSUME IInv, NEW q \in Request, canRemovePatch(q)
  PROVE  IInv'
<1> USE DEF IInv
<1> DEFINE i == req[q].id
<1>1. /\ req[q].pc = "remove" /\ UNCHANGED <<discussions, patches, channels, calls, fresh, excused>>
      /\ UNCHANGED faults \/ Fault
  BY DEF canRemovePatch
<1>2. CASE Done(q)
  BY <1>1, <1>2, GiveUp
<1>3. ASSUME NEW b \in BOOLEAN,
             ~b => patches[i].d = req[q].d /\ Dependents(req[q].d, i) = {},
             req' = [req EXCEPT ![q].pc = "mark", ![q].stale = b]
      PROVE  IInv'
  <2>1. "mark" \in Pc /\ calls' \in 0..MaxCalls /\ faults' \in 0..MaxFaults
    BY <1>1, FaultType DEF Pc, TypeOK
  <2>2. /\ req' \in [Request -> {Idle} \cup Serving]
        /\ req'[q].pc = "mark" /\ req'[q].d = req[q].d /\ req'[q].id = req[q].id
        /\ req'[q].stale = b
        /\ \A r \in Request : r # q => req'[r] = req[r]
    BY <1>1, <1>3, <2>1, ChecksOn
  <2>3. i \in 1..Len(patches)
    BY <1>1 DEF RequestsOK, CheckHolds
  <2>4. CheckHolds(req'[q]) /\ MergeHolds(req'[q])
    BY <1>3, <2>2, <2>3 DEF CheckHolds, MergeHolds
  <2> QED
    BY <1>1, <2>1, <2>2, <2>4, OnlyRequest
<1>4. CASE /\ Dependents(req[q].d, i) = {}
           /\ req' = [req EXCEPT ![q].pc = "mark", ![q].stale = patches[i].d # req[q].d]
  <2>1. PICK b \in BOOLEAN : b = (patches[i].d # req[q].d)
    OBVIOUS
  <2>2. req' = [req EXCEPT ![q].pc = "mark", ![q].stale = b]
    BY <1>4, <2>1
  <2> QED
    BY <1>3, <1>4, <2>1, <2>2
<1>5. CASE req' = [req EXCEPT ![q].pc = "mark", ![q].stale = TRUE]
  BY <1>3, <1>5
<1> QED
  BY <1>2, <1>4, <1>5 DEF canRemovePatch

(* A merge goes to the knot with the snapshot's active patches. *)
LEMMA MergeIInv ==
  ASSUME IInv, NEW q \in Request, MergeDiscussion(q)
  PROVE  IInv'
<1> USE DEF IInv
<1>1. /\ req[q].pc = "merge"
      /\ UNCHANGED <<discussions, patches, channels, calls, faults, fresh, excused>>
  BY DEF MergeDiscussion
<1>2. CASE Done(q)
  BY <1>1, <1>2, GiveUp
<1>3. CASE Goto(q, "apply")
  <2>1. "apply" \in Pc /\ calls' \in 0..MaxCalls /\ faults' \in 0..MaxFaults
    BY <1>1 DEF Pc, TypeOK
  <2>2. /\ req' \in [Request -> {Idle} \cup Serving]
        /\ req'[q].pc = "apply" /\ req'[q].d = req[q].d /\ req'[q].active = req[q].active
        /\ req'[q].failed = req[q].failed /\ req'[q].later = req[q].later
        /\ \A r \in Request : r # q => req'[r] = req[r]
    BY <1>1, <1>3, <2>1, MovesOn
  <2>3. MergeHolds(req[q])
    BY DEF RequestsOK
  <2>4. CheckHolds(req'[q]) /\ MergeHolds(req'[q])
    BY <1>1, <2>2, <2>3 DEF CheckHolds, MergeHolds
  <2> QED
    BY <1>1, <2>1, <2>2, <2>4, OnlyRequest
<1> QED
  BY <1>2, <1>3 DEF MergeDiscussion

(* Only a merge without a failed change is marked. *)
LEMMA EndApplyIInv ==
  ASSUME IInv, NEW q \in Request, EndApply(q)
  PROVE  IInv'
<1> USE DEF IInv
<1>1. /\ req[q].pc = "apply" /\ req[q].active = {}
      /\ UNCHANGED <<discussions, patches, channels, calls, fresh, excused>>
      /\ UNCHANGED faults \/ Fault
  BY DEF EndApply
<1>2. CASE Done(q)
  BY <1>1, <1>2, GiveUp
<1>3. CASE ~req[q].failed /\ Goto(q, "merged")
  <2>1. "merged" \in Pc /\ calls' \in 0..MaxCalls /\ faults' \in 0..MaxFaults
    BY <1>1, FaultType DEF Pc, TypeOK
  <2>2. /\ req' \in [Request -> {Idle} \cup Serving]
        /\ req'[q].pc = "merged" /\ req'[q].d = req[q].d /\ req'[q].active = req[q].active
        /\ req'[q].failed = req[q].failed /\ req'[q].later = req[q].later
        /\ \A r \in Request : r # q => req'[r] = req[r]
    BY <1>1, <1>3, <2>1, MovesOn
  <2>3. MergeHolds(req[q])
    BY DEF RequestsOK
  <2>4. CheckHolds(req'[q]) /\ MergeHolds(req'[q])
    BY <1>1, <1>3, <2>2, <2>3 DEF CheckHolds, MergeHolds
  <2> QED
    BY <1>1, <2>1, <2>2, <2>4, OnlyRequest
<1> QED
  BY <1>2, <1>3 DEF EndApply

----------------------------------------------------------------------------
(***************************************************************************)
(* Steps that change the tables or the channels.                           *)
(***************************************************************************)

(* A discussion is opened, without patches. *)
LEMMA NewDiscussionIInv ==
  ASSUME IInv, NEW u \in User, NEW c \in Channel, NewDiscussion(u, c)
  PROVE  IInv'
<1> USE DiscussionsAssumption DEF IInv
<1> DEFINE row == [did |-> u, target |-> c, state |-> "open"]
           n == Len(discussions)
<1>1. /\ discussions' = Append(discussions, row) /\ n < MaxDiscussions
      /\ UNCHANGED <<patches, channels, req, calls, faults, fresh, excused>>
  BY DEF NewDiscussion
<1>2. discussions \in Seq([did : User, target : Channel, state : State]) /\ n \in Nat
  BY DEF TypeOK
<1>3. row \in [did : User, target : Channel, state : State]
  BY DEF State
<1>4. /\ discussions' \in Seq([did : User, target : Channel, state : State])
      /\ Len(discussions') = n + 1 /\ discussions'[n + 1] = row
      /\ \A d \in 1..n : discussions'[d] = discussions[d]
  BY <1>1, <1>2, <1>3
<1>5. Discussion \subseteq Discussion' /\ \A d \in Discussion' : d \in Discussion \/ d = n + 1
  BY <1>2, <1>4 DEF Discussion
<1>6. TypeOK'
  <2>1. patches \in Seq([d : Discussion', hash : Hash, by : User, removed : BOOLEAN])
    <3> DEFINE Patch == [d : Discussion, hash : Hash, by : User, removed : BOOLEAN]
               Patch1 == [d : Discussion', hash : Hash, by : User, removed : BOOLEAN]
    <3>1. patches \in Seq(Patch)
      BY DEF TypeOK
    <3>2. Patch \subseteq Patch1
      BY <1>5
    <3> HIDE DEF Patch
    <3>3. patches \in Seq(Patch1)
      <4> HIDE DEF Patch1
      <4> QED
        BY <3>1, <3>2, SeqMonotonic
    <3> QED
      BY <3>3
  <2>2. req \in [Request -> {Idle} \cup Serving']
    <3>1. Serving \subseteq Serving'
      BY <1>1, <1>5 DEF Serving
    <3> QED
      BY <3>1 DEF TypeOK
  <2> QED
    BY <1>1, <1>4, <2>1, <2>2 DEF TypeOK
<1>7. Bounded'
  BY <1>1, <1>2, <1>4 DEF Bounded
<1>8. RequestsOK'
  BY <1>1 DEF RequestsOK, CheckHolds, MergeHolds, PatchesOf, Dependents, ActivePatches
<1>9. \A i \in 1..Len(patches) : patches[i].d # n + 1
  BY <1>2, Rows DEF Discussion
<1>10. DependenciesKept'
  <2> SUFFICES ASSUME NEW d \in Discussion' \ excused, NEW i \in ActivePatches(d), NEW j \in PatchesOf(d),
                      patches[j].hash \in Deps[patches[i].hash]
               PROVE  ~patches[j].removed
    BY <1>1 DEF DependenciesKept, ActivePatches, PatchesOf
  <2>1. d \in Discussion
    BY <1>5, <1>9 DEF PatchesOf
  <2> QED
    BY <2>1 DEF DependenciesKept
<1>11. MergedShowsApplied'
  <2>1. \A d \in Discussion' : discussions'[d].state = "merged" => d \in Discussion /\ discussions[d].state = "merged"
    BY <1>4, <1>5 DEF Discussion
  <2> SUFFICES ASSUME NEW d \in Discussion', discussions'[d].state = "merged"
               PROVE  HashesOf(ActivePatches(d) \ fresh[d]) \subseteq channels[Current]
    BY <1>1 DEF MergedShowsApplied, HashesOf, ActivePatches, PatchesOf
  <2> QED
    BY <2>1 DEF MergedShowsApplied
<1> QED
  BY <1>6, <1>7, <1>8, <1>10, <1>11

(* A discussion's state is set, and nothing else about it.                 *)
LEMMA NewState ==
  ASSUME TypeOK, NEW d0 \in Discussion, NEW s \in State,
         discussions' = [discussions EXCEPT ![d0].state = s]
  PROVE  /\ discussions' \in Seq([did : User, target : Channel, state : State])
         /\ Len(discussions') = Len(discussions)
         /\ discussions'[d0].state = s
         /\ \A d \in Discussion : d # d0 => discussions'[d] = discussions[d]
<1> DEFINE Row == [did : User, target : Channel, state : State]
           row == [discussions[d0] EXCEPT !.state = s]
<1>1. discussions \in Seq(Row)
  BY DEF TypeOK
<1>2. discussions[d0] \in Row
  <2> HIDE DEF Row
  <2> QED
    BY <1>1, ElementOfSeq DEF Discussion
<1>3. row \in Row /\ row.state = s
  BY <1>2
<1>4. discussions' = [discussions EXCEPT ![d0] = row]
  OBVIOUS
<1> HIDE DEF Row, row
<1>5. discussions' \in Seq(Row) /\ Len(discussions') = Len(discussions)
  BY <1>1, <1>3, <1>4 DEF Discussion
<1>6. discussions'[d0] = row /\ \A d \in Discussion : d # d0 => discussions'[d] = discussions[d]
  BY <1>1, <1>4 DEF Discussion
<1> QED
  BY <1>3, <1>5, <1>6 DEF Row

(* Closing or reopening shows no discussion as merged.                     *)
LEMMA SetStateIInv ==
  ASSUME IInv, NEW q \in Request, req[q].pc # "idle", NEW s \in {"closed", "open"},
         SetState(q, s)
  PROVE  IInv'
<1> USE DEF IInv
<1>1. /\ Done(q) /\ UNCHANGED <<patches, channels, calls, fresh, excused>>
      /\ UNCHANGED faults \/ Fault
  BY DEF SetState
<1>2. CASE UNCHANGED discussions
  BY <1>1, <1>2, GiveUp
<1>3. CASE discussions' = [discussions EXCEPT ![req[q].d].state = s]
  <2>1. PICK d0 \in Discussion : d0 = req[q].d
    BY ServingFields
  <2>2. s \in State
    BY DEF State
  <2>3. /\ discussions' \in Seq([did : User, target : Channel, state : State])
        /\ Len(discussions') = Len(discussions)
        /\ discussions'[d0].state = s
        /\ \A d \in Discussion : d # d0 => discussions'[d] = discussions[d]
    BY <1>3, <2>1, <2>2, NewState
  <2>4. Discussion' = Discussion
    BY <2>3 DEF Discussion
  <2>5. /\ req' \in [Request -> {Idle} \cup Serving] /\ req'[q] = Idle
        /\ \A r \in Request : r # q => req'[r] = req[r]
    BY <1>1, Ends
  <2>6. TypeOK'
    <3>1. Serving' = Serving
      BY <1>1, <2>4 DEF Serving
    <3>2. faults' \in 0..MaxFaults
      BY <1>1, FaultType
    <3> QED
      BY <1>1, <2>3, <2>4, <2>5, <3>1, <3>2 DEF TypeOK
  <2>7. RequestsOK'
    <3>1. \A r \in Request : CheckHolds(req'[r]) /\ MergeHolds(req'[r])
      BY <2>5, IdleHolds DEF RequestsOK
    <3> QED
      BY <1>1, <3>1 DEF RequestsOK, CheckHolds, MergeHolds, PatchesOf, Dependents, ActivePatches
  <2>8. Bounded' /\ DependenciesKept'
    BY <1>1, <2>3, <2>4 DEF Bounded, DependenciesKept, ActivePatches, PatchesOf
  <2>9. MergedShowsApplied'
    <3>1. \A d \in Discussion : discussions'[d].state = "merged" => discussions[d].state = "merged"
      BY <2>3
    <3> QED
      BY <1>1, <2>4, <3>1 DEF MergedShowsApplied, HashesOf, ActivePatches, PatchesOf
  <2> QED
    BY <2>6, <2>7, <2>8, <2>9
<1> QED
  BY <1>2, <1>3 DEF SetState

(* What is applied is a set of changes with the change asked for.          *)
LEMMA Applies ==
  ASSUME NEW h
  PROVE  WithDependencies(h) \subseteq Hash /\ (h \in Hash => h \in WithDependencies(h))
BY DEF WithDependencies

(* The knot's channels only grow, and no table changes: every other        *)
(* request keeps what it relies on, and every merge shown stays applied.   *)
LEMMA ChannelGrows ==
  ASSUME IInv, NEW q \in Request,
         UNCHANGED <<discussions, patches, calls, faults, fresh, excused>>,
         channels' \in [Channel -> SUBSET Hash], channels[Current] \subseteq channels'[Current],
         req' \in [Request -> {Idle} \cup Serving],
         \A r \in Request : r # q => req'[r] = req[r],
         (CheckHolds(req[q]) /\ MergeHolds(req[q]))'
  PROVE  IInv'
<1> USE DEF IInv
<1>1. TypeOK'
  BY DEF TypeOK, Serving, Discussion
<1>2. RequestsOK'
  <2>1. ASSUME NEW r \in Request, r # q
        PROVE  (CheckHolds(req[r]) /\ MergeHolds(req[r]))'
    <3>1. req'[r] = req[r] /\ CheckHolds(req[r]) /\ MergeHolds(req[r])
      BY <2>1 DEF RequestsOK
    <3> QED
      BY <3>1 DEF CheckHolds, MergeHolds, PatchesOf, Dependents, ActivePatches
  <2> QED
    BY <2>1 DEF RequestsOK
<1>3. DependenciesKept' /\ MergedShowsApplied' /\ Bounded'
  BY DEF DependenciesKept, MergedShowsApplied, Bounded, Discussion, PatchesOf,
         ActivePatches, HashesOf
<1> QED
  BY <1>1, <1>2, <1>3

(* A change that did not fail is on the channel before it leaves the list. *)
LEMMA ApplyIInv ==
  ASSUME IInv, NEW q \in Request, Apply(q)
  PROVE  IInv'
<1> USE DiscussionsAssumption DEF IInv
<1>1. PICK i : i = Min(req[q].active)
  OBVIOUS
<1>2. /\ req[q].pc = "apply"
      /\ UNCHANGED <<discussions, patches, calls, faults, fresh, excused>>
  BY DEF Apply
<1>3. req[q] \in Serving
  BY <1>2, ServingFields
<1>4. MergeHolds(req[q])
  BY DEF RequestsOK
<1>5. CASE /\ req' = [req EXCEPT ![q].active = @ \ {i}]
           /\ channels' = [channels EXCEPT ![Current] = @ \cup WithDependencies(patches[i].hash)]
  <2> DEFINE x == [req[q] EXCEPT !.active = @ \ {i}]
  <2>1. x \in Serving /\ x.pc = "apply" /\ x.d = req[q].d /\ x.later = req[q].later
        /\ x.failed = req[q].failed /\ x.active = req[q].active \ {i}
    BY <1>2, <1>3 DEF Serving
  <2>2. req' = [req EXCEPT ![q] = x]
    BY <1>5
  <2>3. x \in {Idle} \cup Serving
    BY <2>1
  <2> HIDE DEF x
  <2>4. /\ req' \in [Request -> {Idle} \cup Serving] /\ req'[q] = x
        /\ \A r \in Request : r # q => req'[r] = req[r]
    BY <2>2, <2>3 DEF TypeOK
  <2>5. /\ channels' \in [Channel -> SUBSET Hash] /\ channels[Current] \subseteq channels'[Current]
        /\ WithDependencies(patches[i].hash) \subseteq channels'[Current]
    <3>1. WithDependencies(patches[i].hash) \subseteq Hash
      BY Applies
    <3> QED
      BY <1>5, <3>1 DEF TypeOK
  <2>6. CheckHolds(req[q])'
    BY <2>1, <2>4 DEF CheckHolds
  <2>7. MergeHolds(req[q])'
    <3> SUFFICES ASSUME ~x.failed, NEW k \in ActivePatches(x.d) \ x.later
                 PROVE  k \in x.active \/ patches[k].hash \in channels'[Current]
      BY <1>2, <2>1, <2>4 DEF MergeHolds, ActivePatches, PatchesOf
    <3>1. k \in req[q].active \/ patches[k].hash \in channels[Current]
      BY <1>2, <1>4, <2>1 DEF MergeHolds
    <3>2. CASE k = i
      <4>1. patches[k].hash \in Hash
        BY Rows DEF ActivePatches, PatchesOf
      <4> QED
        BY <2>5, <3>2, <4>1, Applies
    <3> QED
      BY <2>1, <2>5, <3>1, <3>2
  <2> QED
    BY <1>2, <2>4, <2>5, <2>6, <2>7, ChannelGrows
<1>6. CASE req' = [req EXCEPT ![q].active = @ \ {i}, ![q].failed = TRUE] /\ UNCHANGED channels
  <2> DEFINE x == [req[q] EXCEPT !.active = @ \ {i}, !.failed = TRUE]
  <2>1. x \in Serving /\ x.pc = "apply" /\ x.failed
    BY <1>2, <1>3 DEF Serving
  <2>2. req' = [req EXCEPT ![q] = x]
    BY <1>6 DEF TypeOK
  <2>3. x \in {Idle} \cup Serving
    BY <2>1
  <2> HIDE DEF x
  <2>4. /\ req' \in [Request -> {Idle} \cup Serving] /\ req'[q] = x
        /\ \A r \in Request : r # q => req'[r] = req[r]
    BY <2>2, <2>3 DEF TypeOK
  <2>5. (CheckHolds(req[q]) /\ MergeHolds(req[q]))'
    BY <2>1, <2>4 DEF CheckHolds, MergeHolds
  <2>6. channels' \in [Channel -> SUBSET Hash]
    BY <1>6 DEF TypeOK
  <2> QED
    BY <1>2, <1>6, <2>4, <2>5, <2>6, ChannelGrows
<1> QED
  BY <1>1, <1>5, <1>6 DEF Apply

(* What the merge has applied is all that is active and not newer.         *)
LEMMA MarkMergedIInv ==
  ASSUME IInv, NEW q \in Request, MarkMerged(q)
  PROVE  IInv'
<1> USE DEF IInv
<1>1. /\ req[q].pc = "merged" /\ Done(q) /\ UNCHANGED <<patches, channels, calls, excused>>
      /\ UNCHANGED faults \/ Fault
  BY DEF MarkMerged
<1>2. CASE UNCHANGED <<discussions, fresh>>
  BY <1>1, <1>2, GiveUp
<1>3. CASE /\ discussions' = [discussions EXCEPT ![req[q].d].state = "merged"]
           /\ fresh' = [fresh EXCEPT ![req[q].d] = req[q].later]
  <2>1. PICK d0 \in Discussion : d0 = req[q].d
    BY <1>1, ServingFields
  <2>2. "merged" \in State
    BY DEF State
  <2>3. /\ discussions' \in Seq([did : User, target : Channel, state : State])
        /\ Len(discussions') = Len(discussions)
        /\ \A d \in Discussion : d # d0 => discussions'[d] = discussions[d]
    BY <1>3, <2>1, <2>2, NewState
  <2>4. Discussion' = Discussion
    BY <2>3 DEF Discussion
  <2>5. /\ req' \in [Request -> {Idle} \cup Serving] /\ req'[q] = Idle
        /\ \A r \in Request : r # q => req'[r] = req[r]
    BY <1>1, Ends
  <2>6. d0 \in 1..MaxDiscussions /\ req[q].later \subseteq 1..Len(patches)
    <3>1. d0 \in 1..MaxDiscussions
      BY Rows, DiscussionsAssumption DEF Bounded, Discussion
    <3>2. req[q] \in Serving
      BY <1>1, ServingFields
    <3> QED
      BY <3>1, <3>2 DEF Serving
  <2>7. /\ fresh' \in [1..MaxDiscussions -> SUBSET (1..Len(patches))]
        /\ fresh'[d0] = req[q].later
        /\ \A d \in Discussion : d # d0 => fresh'[d] = fresh[d]
    <3>1. Discussion \subseteq 1..MaxDiscussions
      BY Rows, DiscussionsAssumption DEF Bounded, Discussion
    <3> QED
      BY <1>3, <2>1, <2>6, <3>1 DEF TypeOK
  <2>8. TypeOK'
    <3>1. Serving' = Serving
      BY <1>1, <2>4 DEF Serving
    <3>2. faults' \in 0..MaxFaults
      BY <1>1, FaultType
    <3> QED
      BY <1>1, <2>3, <2>4, <2>5, <2>7, <3>1, <3>2 DEF TypeOK
  <2>9. RequestsOK'
    <3>1. \A r \in Request : CheckHolds(req'[r]) /\ MergeHolds(req'[r])
      BY <2>5, IdleHolds DEF RequestsOK
    <3> QED
      BY <1>1, <3>1 DEF RequestsOK, CheckHolds, MergeHolds, PatchesOf, Dependents, ActivePatches
  <2>10. Bounded' /\ DependenciesKept'
    BY <1>1, <2>3, <2>4 DEF Bounded, DependenciesKept, ActivePatches, PatchesOf
  <2>11. MergedShowsApplied'
    <3> SUFFICES ASSUME NEW d \in Discussion, discussions'[d].state = "merged",
                        NEW k \in ActivePatches(d) \ fresh'[d]
                 PROVE  patches[k].hash \in channels[Current]
      BY <1>1, <2>4 DEF MergedShowsApplied, HashesOf, ActivePatches, PatchesOf
    <3>1. CASE d = d0
      BY <1>1, <2>1, <2>7, <3>1 DEF RequestsOK, MergeHolds
    <3>2. CASE d # d0
      BY <2>3, <2>7, <3>2 DEF MergedShowsApplied, HashesOf
    <3> QED
      BY <3>1, <3>2
  <2> QED
    BY <2>8, <2>9, <2>10, <2>11
<1> QED
  BY <1>2, <1>3 DEF MarkMerged

----------------------------------------------------------------------------
(***************************************************************************)
(* Steps that write one patch.                                             *)
(***************************************************************************)

(* q wrote row i of the patches, of discussion d0, and no other row; it    *)
(* switched the patch on only where the histories say so.                  *)
Wrote(q, d0, i, on) ==
  /\ Touched(q, d0, i, on)
  /\ patches' \in Seq([d : Discussion, hash : Hash, by : User, removed : BOOLEAN])
  /\ Len(patches) <= Len(patches')
  /\ \A k \in 1..Len(patches') : k # i => k \in 1..Len(patches) /\ patches'[k] = patches[k]
  /\ i \in 1..Len(patches') /\ patches'[i].d = d0
  /\ i \in 1..Len(patches) => patches[i].d = d0 /\ patches'[i].hash = patches[i].hash
  /\ ~patches'[i].removed => on \/ (i \in 1..Len(patches) /\ ~patches[i].removed)
  /\ UNCHANGED <<discussions, channels, calls>>

(* What the write leaves of every discussion's patches. *)
LEMMA PatchesWritten ==
  ASSUME TypeOK, NEW q \in Request, NEW d0 \in Discussion, NEW i \in Nat, NEW on \in BOOLEAN,
         Wrote(q, d0, i, on)
  PROVE  /\ Len(patches) \in Nat /\ Len(patches') \in Nat
         /\ 1..Len(patches) \subseteq 1..Len(patches')
         /\ \A d : d # d0 => /\ PatchesOf(d)' = PatchesOf(d)
                             /\ ActivePatches(d)' = ActivePatches(d)
                             /\ \A k \in PatchesOf(d) : patches'[k] = patches[k]
         /\ \A k \in PatchesOf(d0) : k \in PatchesOf(d0)' /\ patches'[k].hash = patches[k].hash
         /\ \A k \in ActivePatches(d0)' : k \in ActivePatches(d0) \/ (on /\ k = i)
<1>1. Len(patches) \in Nat /\ Len(patches') \in Nat
  <2> DEFINE Patch == [d : Discussion, hash : Hash, by : User, removed : BOOLEAN]
  <2>1. patches \in Seq(Patch) /\ patches' \in Seq(Patch)
    BY DEF TypeOK, Wrote
  <2> HIDE DEF Patch
  <2> QED
    BY <2>1
<1>2. 1..Len(patches) \subseteq 1..Len(patches')
  BY <1>1 DEF Wrote
<1>3. ASSUME NEW d, d # d0
      PROVE  /\ PatchesOf(d)' = PatchesOf(d)
             /\ ActivePatches(d)' = ActivePatches(d)
             /\ \A k \in PatchesOf(d) : patches'[k] = patches[k]
  <2>1. \A k \in PatchesOf(d) : k # i
    BY <1>3 DEF PatchesOf, Wrote
  <2>2. \A k \in PatchesOf(d)' : k # i
    BY <1>3 DEF PatchesOf, Wrote
  <2> QED
    BY <1>2, <2>1, <2>2 DEF PatchesOf, ActivePatches, Wrote
<1>4. \A k \in PatchesOf(d0) : k \in PatchesOf(d0)' /\ patches'[k].hash = patches[k].hash
  BY <1>2 DEF PatchesOf, Wrote
<1>5. \A k \in ActivePatches(d0)' : k \in ActivePatches(d0) \/ (on /\ k = i)
  BY <1>2 DEF PatchesOf, ActivePatches, Wrote
<1> QED
  BY <1>1, <1>2, <1>3, <1>4, <1>5

(* The requests after the write keep their types, ... *)
LEMMA TouchedTypes ==
  ASSUME TypeOK, Bounded, NEW q \in Request, NEW d0 \in Discussion, NEW i \in Nat, NEW on \in BOOLEAN,
         Wrote(q, d0, i, on)
  PROVE  /\ req' \in [Request -> {Idle} \cup Serving']
         /\ fresh' \in [1..MaxDiscussions -> SUBSET (1..Len(patches'))]
<1>1. /\ 1..Len(patches) \subseteq 1..Len(patches') /\ Discussion' = Discussion
      /\ Len(patches) \in Nat /\ Len(patches') \in Nat /\ i \in 1..Len(patches')
  BY PatchesWritten DEF Wrote, Discussion
<1>2. Serving \subseteq Serving'
  BY <1>1 DEF Serving
<1>3. req' \in [Request -> {Idle} \cup Serving']
  <2> SUFFICES ASSUME NEW r \in Request, r # q, req[r] # Idle, req[r].d = d0
               PROVE  [req[r] EXCEPT !.stale = TRUE,
                                     !.later = IF on THEN @ \cup {i} ELSE @] \in Serving'
    BY <1>2 DEF Wrote, Touched, TypeOK
  <2>1. req[r] \in Serving'
    BY <1>2 DEF TypeOK
  <2>2. req[r].later \cup {i} \in SUBSET (1..Len(patches'))
    BY <1>1, <2>1 DEF Serving
  <2> QED
    BY <2>1, <2>2 DEF Serving
<1>4. fresh' \in [1..MaxDiscussions -> SUBSET (1..Len(patches'))]
  <2>1. fresh \in [1..MaxDiscussions -> SUBSET (1..Len(patches'))]
    BY <1>1 DEF TypeOK
  <2>2. fresh[d0] \cup {i} \in SUBSET (1..Len(patches'))
    <3>1. d0 \in 1..MaxDiscussions
      BY Rows, DiscussionsAssumption DEF Bounded, Discussion
    <3> QED
      BY <1>1, <2>1, <3>1
  <2> QED
    BY <2>1, <2>2 DEF Wrote, Touched
<1> QED
  BY <1>3, <1>4

(* ... and rely on nothing the write took away: those on the discussion    *)
(* know that it changed, and the merges know of the patch switched on.     *)
LEMMA TouchedHolds ==
  ASSUME IInv, NEW q \in Request, NEW d0 \in Discussion, NEW i \in Nat, NEW on \in BOOLEAN,
         Wrote(q, d0, i, on)
  PROVE  RequestsOK'
<1> USE DEF IInv
<1>1. /\ Len(patches) \in Nat /\ Len(patches') \in Nat
      /\ 1..Len(patches) \subseteq 1..Len(patches')
      /\ \A d : d # d0 => /\ PatchesOf(d)' = PatchesOf(d)
                          /\ ActivePatches(d)' = ActivePatches(d)
                          /\ \A k \in PatchesOf(d) : patches'[k] = patches[k]
      /\ \A k \in PatchesOf(d0) : k \in PatchesOf(d0)' /\ patches'[k].hash = patches[k].hash
      /\ \A k \in ActivePatches(d0)' : k \in ActivePatches(d0) \/ (on /\ k = i)
  BY PatchesWritten
<1>2. channels' = channels
  BY DEF Wrote
<1> SUFFICES ASSUME NEW r \in Request
             PROVE  (CheckHolds(req[r]) /\ MergeHolds(req[r]))'
  BY DEF RequestsOK
<1>3. CheckHolds(req[r]) /\ MergeHolds(req[r])
  BY DEF RequestsOK
<1>4. CASE r = q \/ req[r] = Idle
  <2>1. req'[r] = Idle
    BY <1>4 DEF Wrote, Touched
  <2> QED
    BY <2>1 DEF CheckHolds, MergeHolds, Idle
<1>5. CASE r # q /\ req[r] # Idle /\ req[r].d = d0
  <2>1. req[r] \in Serving
    BY <1>5 DEF TypeOK
  <2>2. req'[r] = [req[r] EXCEPT !.stale = TRUE, !.later = IF on THEN @ \cup {i} ELSE @]
    BY <1>5 DEF Wrote, Touched
  <2>3. /\ req'[r].pc = req[r].pc /\ req'[r].d = d0 /\ req'[r].id = req[r].id
        /\ req'[r].active = req[r].active /\ req'[r].failed = req[r].failed
        /\ req'[r].stale /\ req[r].later \subseteq req'[r].later /\ (on => i \in req'[r].later)
    BY <1>5, <2>1, <2>2 DEF Serving
  <2>4. CheckHolds(req[r])'
    BY <1>1, <1>3, <2>3 DEF CheckHolds
  <2>5. MergeHolds(req[r])'
    <3>1. \A k \in ActivePatches(d0)' \ req'[r].later :
            k \in ActivePatches(d0) \ req[r].later /\ patches'[k].hash = patches[k].hash
      BY <1>1, <2>3 DEF ActivePatches
    <3> QED
      BY <1>2, <1>3, <1>5, <2>3, <3>1 DEF MergeHolds
  <2> QED
    BY <2>4, <2>5
<1>6. CASE r # q /\ req[r] # Idle /\ req[r].d # d0
  <2>1. req'[r] = req[r]
    BY <1>6 DEF Wrote, Touched
  <2>2. MergeHolds(req[r])'
    BY <1>1, <1>2, <1>3, <1>6, <2>1 DEF MergeHolds, ActivePatches
  <2>3. CheckHolds(req[r])'
    <3>1. req[r].pc = "insert" /\ ~req[r].stale =>
            ~\E k \in PatchesOf(req[r].d)' : patches'[k].removed /\ patches'[k].hash \in Deps[req[r].hash]
      <4>1. PICK n : n = req[r].d
        OBVIOUS
      <4>2. PatchesOf(n)' = PatchesOf(n) /\ \A k \in PatchesOf(n) : patches'[k] = patches[k]
        BY <1>1, <1>6, <4>1
      <4> QED
        BY <1>3, <2>1, <4>1, <4>2 DEF CheckHolds
    <3>2. ASSUME req[r].pc = "mark", ~req[r].stale
          PROVE  patches'[req[r].id].d = req[r].d /\ Dependents(req[r].d, req[r].id)' = {}
      <4>1. PICK m, n : m = req[r].id /\ n = req[r].d
        OBVIOUS
      <4>2. m \in PatchesOf(n) /\ Dependents(n, m) = {} /\ n # d0
        BY <1>3, <1>6, <3>2, <4>1 DEF CheckHolds, PatchesOf
      <4>3. /\ patches'[m] = patches[m] /\ ActivePatches(n)' = ActivePatches(n)
            /\ \A k \in ActivePatches(n) : patches'[k] = patches[k]
        BY <1>1, <4>2 DEF ActivePatches
      <4>4. Dependents(n, m)' = {}
        BY <4>2, <4>3 DEF Dependents
      <4> QED
        BY <2>1, <4>1, <4>2, <4>3, <4>4 DEF PatchesOf
    <3>3. req[r].pc \in {"remove", "readd", "mark"} => req[r].id \in 1..Len(patches')
      BY <1>1, <1>3 DEF CheckHolds
    <3> QED
      BY <2>1, <3>1, <3>2, <3>3 DEF CheckHolds
  <2> QED
    BY <2>2, <2>3
<1> QED
  BY <1>4, <1>5, <1>6

(* A merge shown stays applied: a patch switched on is newer than it.      *)
LEMMA TouchedMerged ==
  ASSUME IInv, NEW q \in Request, NEW d0 \in Discussion, NEW i \in Nat, NEW on \in BOOLEAN,
         Wrote(q, d0, i, on)
  PROVE  MergedShowsApplied'
<1> USE DEF IInv
<1>1. /\ \A d : d # d0 => /\ ActivePatches(d)' = ActivePatches(d)
                          /\ \A k \in PatchesOf(d) : patches'[k] = patches[k]
      /\ \A k \in PatchesOf(d0) : k \in PatchesOf(d0)' /\ patches'[k].hash = patches[k].hash
      /\ \A k \in ActivePatches(d0)' : k \in ActivePatches(d0) \/ (on /\ k = i)
  BY PatchesWritten
<1>2. channels' = channels /\ discussions' = discussions /\ Discussion' = Discussion
  BY DEF Wrote, Discussion
<1> SUFFICES ASSUME NEW d \in Discussion, discussions[d].state = "merged",
                    NEW k \in ActivePatches(d)' \ fresh'[d]
             PROVE  patches'[k].hash \in channels[Current]
  BY <1>2 DEF MergedShowsApplied, HashesOf
<1>3. d \in 1..MaxDiscussions /\ d0 \in 1..MaxDiscussions
  BY Rows, DiscussionsAssumption DEF Bounded, Discussion
<1>4. \A x \in ActivePatches(d) \ fresh[d] : patches[x].hash \in channels[Current]
  BY DEF MergedShowsApplied, HashesOf
<1>5. fresh[d] \subseteq fresh'[d] /\ (on /\ d = d0 => i \in fresh'[d])
  BY <1>3 DEF Wrote, Touched, TypeOK
<1>6. k \in ActivePatches(d) \ fresh[d] /\ patches'[k].hash = patches[k].hash
  BY <1>1, <1>5 DEF ActivePatches
<1> QED
  BY <1>4, <1>6

(* What remains for each writer: no second row of the same change, and the *)
(* dependencies within the discussion it wrote.                            *)
LEMMA WroteIInv ==
  ASSUME IInv, NEW q \in Request, NEW d0 \in Discussion, NEW i \in Nat, NEW on \in BOOLEAN,
         Wrote(q, d0, i, on), UNCHANGED faults \/ Fault,
         \A k, l \in 1..Len(patches') :
           patches'[k].d = patches'[l].d /\ patches'[k].hash = patches'[l].hash => k = l,
         excused' = excused \/ excused' = excused \cup {d0},
         d0 \notin excused' =>
           \A k \in ActivePatches(d0)', l \in PatchesOf(d0)' :
             patches'[l].hash \in Deps[patches'[k].hash] => ~patches'[l].removed
  PROVE  IInv'
<1> USE DEF IInv
<1>1. TypeOK'
  <2>1. /\ req' \in [Request -> {Idle} \cup Serving']
        /\ fresh' \in [1..MaxDiscussions -> SUBSET (1..Len(patches'))]
    BY TouchedTypes
  <2>2. faults' \in 0..MaxFaults
    BY FaultType
  <2>3. excused' \subseteq 1..MaxDiscussions
    <3>1. d0 \in 1..MaxDiscussions
      BY Rows, DiscussionsAssumption DEF Bounded, Discussion
    <3>2. excused \subseteq 1..MaxDiscussions
      BY DEF TypeOK
    <3> QED
      BY <3>1, <3>2
  <2>4. patches' \in Seq([d : Discussion', hash : Hash, by : User, removed : BOOLEAN])
    BY DEF Wrote, Discussion
  <2>5. UNCHANGED <<discussions, channels, calls>>
    BY DEF Wrote
  <2> QED
    BY <2>1, <2>2, <2>3, <2>4, <2>5 DEF TypeOK
<1>2. Bounded'
  BY DEF Wrote, Bounded
<1>3. DependenciesKept'
  <2>1. \A d : d # d0 => /\ PatchesOf(d)' = PatchesOf(d)
                         /\ ActivePatches(d)' = ActivePatches(d)
                         /\ \A k \in PatchesOf(d) : patches'[k] = patches[k]
    BY PatchesWritten
  <2> SUFFICES ASSUME NEW d \in Discussion, d \notin excused',
                      NEW k \in ActivePatches(d)', NEW l \in PatchesOf(d)',
                      patches'[l].hash \in Deps[patches'[k].hash]
               PROVE  ~patches'[l].removed
    BY DEF DependenciesKept, Wrote, Discussion
  <2>2. CASE d # d0
    BY <2>1, <2>2 DEF DependenciesKept, ActivePatches
  <2> QED
    BY <2>2
<1> QED
  BY <1>1, <1>2, <1>3, TouchedHolds, TouchedMerged

(* The insert: the change is not yet in the discussion, and its check      *)
(* found no removed dependency, or is known to be stale.                   *)
LEMMA AddIInv ==
  ASSUME IInv, NEW q \in Request, AddDiscussionPatch(q)
  PROVE  IInv'
<1> USE DEF IInv
<1>1. req[q].pc = "insert" /\ UNCHANGED <<discussions, channels, calls>>
  BY DEF AddDiscussionPatch
<1>2. CASE Done(q) /\ UNCHANGED <<patches, fresh, excused>> /\ (UNCHANGED faults \/ Fault)
  BY <1>1, <1>2, GiveUp
<1>3. CASE /\ req[q].hash \notin HashesOf(PatchesOf(req[q].d))
           /\ patches' = Append(patches, [d |-> req[q].d, hash |-> req[q].hash,
                                          by |-> req[q].user, removed |-> FALSE])
           /\ Touched(q, req[q].d, Len(patches) + 1, TRUE)
           /\ excused' = IF req[q].stale THEN excused \cup {req[q].d} ELSE excused
           /\ UNCHANGED faults
  <2>1. PICK d0 \in Discussion, h \in Hash, u \in User, i \in Nat :
          d0 = req[q].d /\ h = req[q].hash /\ u = req[q].user /\ i = Len(patches) + 1
    BY <1>1, Rows, ServingFields
  <2> DEFINE Patch == [d : Discussion, hash : Hash, by : User, removed : BOOLEAN]
             row == [d |-> d0, hash |-> h, by |-> u, removed |-> FALSE]
  <2>2. row \in Patch /\ row.d = d0 /\ row.hash = h /\ row.removed = FALSE
    OBVIOUS
  <2>3. patches \in Seq(Patch) /\ patches' = Append(patches, row)
    BY <1>3, <2>1 DEF TypeOK
  <2>4. Touched(q, d0, i, TRUE)
    BY <1>3, <2>1
  <2> HIDE DEF Patch, row
  <2>5. /\ patches' \in Seq(Patch) /\ Len(patches) \in Nat /\ Len(patches') = i
        /\ patches'[i] = row /\ \A k \in 1..Len(patches) : patches'[k] = patches[k]
    BY <2>1, <2>2, <2>3
  <2>6. /\ i \notin 1..Len(patches) /\ i \in 1..Len(patches')
        /\ \A k \in 1..Len(patches') : k # i => k \in 1..Len(patches) /\ patches'[k] = patches[k]
    BY <2>1, <2>5
  <2>7. Wrote(q, d0, i, TRUE)
    <3>1. Len(patches) <= Len(patches')
      BY <2>1, <2>5
    <3>2. /\ patches' \in Seq([d : Discussion, hash : Hash, by : User, removed : BOOLEAN])
          /\ patches'[i].d = d0
      BY <2>2, <2>5 DEF Patch
    <3> QED
      BY <1>1, <2>4, <2>6, <3>1, <3>2 DEF Wrote
  <2>8. \A k \in 1..Len(patches) : ~(patches[k].d = d0 /\ patches[k].hash = h)
    BY <1>3, <2>1 DEF HashesOf, PatchesOf
  <2>9. \A k, l \in 1..Len(patches') :
          patches'[k].d = patches'[l].d /\ patches'[k].hash = patches'[l].hash => k = l
    <3> SUFFICES ASSUME NEW k \in 1..Len(patches'), NEW l \in 1..Len(patches'),
                        patches'[k].d = patches'[l].d, patches'[k].hash = patches'[l].hash
                 PROVE  k = l
      OBVIOUS
    <3>1. CASE k = i \/ l = i
      BY <2>2, <2>5, <2>6, <2>8, <3>1
    <3>2. CASE k # i /\ l # i
      BY <2>6, <3>2 DEF TypeOK
    <3> QED
      BY <3>1, <3>2
  <2>10. excused' = excused \/ excused' = excused \cup {d0}
    BY <1>3, <2>1
  <2>11. ASSUME d0 \notin excused', NEW k \in ActivePatches(d0)', NEW l \in PatchesOf(d0)',
                patches'[l].hash \in Deps[patches'[k].hash]
         PROVE  ~patches'[l].removed
    <3>1. ~req[q].stale /\ d0 \notin excused
      BY <1>3, <2>1, <2>11
    <3>2. \A j \in PatchesOf(d0) : ~(patches[j].removed /\ patches[j].hash \in Deps[h])
      BY <1>1, <2>1, <3>1 DEF RequestsOK, CheckHolds
    <3>3. \A a \in ActivePatches(d0), b \in PatchesOf(d0) :
            patches[b].hash \in Deps[patches[a].hash] => ~patches[b].removed
      BY <3>1 DEF DependenciesKept
    <3>4. /\ k = i \/ (k \in ActivePatches(d0) /\ patches'[k] = patches[k])
          /\ l = i \/ (l \in PatchesOf(d0) /\ patches'[l] = patches[l])
      BY <2>6 DEF ActivePatches, PatchesOf
    <3> QED
      BY <2>2, <2>5, <2>11, <3>2, <3>3, <3>4
  <2> QED
    BY <1>3, <2>7, <2>9, <2>10, <2>11, WroteIInv
<1> QED
  BY <1>2, <1>3 DEF AddDiscussionPatch

(* A patch is marked removed or not, and nothing else about it changes.    *)
LEMMA NewMark ==
  ASSUME TypeOK, NEW i \in 1..Len(patches), NEW b \in BOOLEAN,
         patches' = [patches EXCEPT ![i].removed = b]
  PROVE  /\ patches' \in Seq([d : Discussion, hash : Hash, by : User, removed : BOOLEAN])
         /\ Len(patches') = Len(patches)
         /\ patches'[i].d = patches[i].d /\ patches'[i].hash = patches[i].hash
         /\ patches'[i].removed = b
         /\ \A k \in 1..Len(patches) : k # i => patches'[k] = patches[k]
         /\ \A k, l \in 1..Len(patches') :
              patches'[k].d = patches'[l].d /\ patches'[k].hash = patches'[l].hash => k = l
<1> DEFINE Patch == [d : Discussion, hash : Hash, by : User, removed : BOOLEAN]
           row == [patches[i] EXCEPT !.removed = b]
<1>1. patches \in Seq(Patch)
  BY DEF TypeOK
<1>2. patches[i] \in Patch
  <2> HIDE DEF Patch
  <2> QED
    BY <1>1, ElementOfSeq
<1>3. row \in Patch /\ row.removed = b /\ row.d = patches[i].d /\ row.hash = patches[i].hash
  BY <1>2
<1>4. patches' = [patches EXCEPT ![i] = row]
  OBVIOUS
<1> HIDE DEF Patch, row
<1>5. patches' \in Seq(Patch) /\ Len(patches') = Len(patches)
  BY <1>1, <1>3, <1>4
<1>6. patches'[i] = row /\ \A k \in 1..Len(patches) : k # i => patches'[k] = patches[k]
  BY <1>1, <1>4
<1>7. \A k \in 1..Len(patches) : patches'[k].d = patches[k].d /\ patches'[k].hash = patches[k].hash
  BY <1>3, <1>6
<1>8. \A k, l \in 1..Len(patches') :
        patches'[k].d = patches'[l].d /\ patches'[k].hash = patches'[l].hash => k = l
  BY <1>5, <1>7 DEF TypeOK
<1> QED
  BY <1>3, <1>5, <1>6, <1>8 DEF Patch

(* The mark: no active patch depends on the one it removes, unless the     *)
(* check was skipped, is stale or was of another discussion.               *)
LEMMA RemoveIInv ==
  ASSUME IInv, NEW q \in Request, RemovePatch(q)
  PROVE  IInv'
<1> USE DEF IInv
<1>1. req[q].pc = "mark" /\ UNCHANGED <<discussions, channels, calls>>
  BY DEF RemovePatch
<1>2. CASE Fault /\ Done(q) /\ UNCHANGED <<patches, fresh, excused>>
  BY <1>1, <1>2, GiveUp
<1>3. CASE /\ patches' = [patches EXCEPT ![req[q].id].removed = TRUE]
           /\ Touched(q, patches[req[q].id].d, req[q].id, FALSE)
           /\ excused' = IF req[q].stale THEN excused \cup {patches[req[q].id].d} ELSE excused
           /\ UNCHANGED faults
  <2>1. PICK i \in 1..Len(patches) : i = req[q].id
    BY <1>1 DEF RequestsOK, CheckHolds
  <2>2. PICK d0 \in Discussion : d0 = patches[i].d
    BY Rows
  <2>3. /\ patches' \in Seq([d : Discussion, hash : Hash, by : User, removed : BOOLEAN])
        /\ Len(patches') = Len(patches)
        /\ patches'[i].d = patches[i].d /\ patches'[i].hash = patches[i].hash
        /\ patches'[i].removed = TRUE
        /\ \A k \in 1..Len(patches) : k # i => patches'[k] = patches[k]
        /\ \A k, l \in 1..Len(patches') :
             patches'[k].d = patches'[l].d /\ patches'[k].hash = patches'[l].hash => k = l
    BY <1>3, <2>1, NewMark
  <2>4. Touched(q, d0, i, FALSE)
    BY <1>3, <2>1, <2>2
  <2>5. Len(patches) \in Nat /\ i \in Nat
    BY Rows
  <2>8. Wrote(q, d0, i, FALSE)
    <3>1. Len(patches) <= Len(patches') /\ i \in 1..Len(patches')
      BY <2>3, <2>5
    <3>2. \A k \in 1..Len(patches') : k # i => k \in 1..Len(patches) /\ patches'[k] = patches[k]
      BY <2>3
    <3>3. patches[i].d = d0 /\ patches'[i].d = d0 /\ patches'[i].hash = patches[i].hash
      BY <2>2, <2>3
    <3>4. ~patches'[i].removed => FALSE \/ (i \in 1..Len(patches) /\ ~patches[i].removed)
      BY <2>2, <2>3
    <3> HIDE DEF IInv
    <3> QED
      BY <1>1, <2>3, <2>4, <3>1, <3>2, <3>3, <3>4 DEF Wrote
  <2>6. excused' = excused \/ excused' = excused \cup {d0}
    BY <1>3, <2>1, <2>2
  <2>7. ASSUME d0 \notin excused', NEW k \in ActivePatches(d0)', NEW l \in PatchesOf(d0)',
               patches'[l].hash \in Deps[patches'[k].hash]
        PROVE  ~patches'[l].removed
    <3>1. ~req[q].stale /\ d0 \notin excused
      BY <1>3, <2>1, <2>2, <2>7
    <3>2. Dependents(d0, i) = {}
      BY <1>1, <2>1, <2>2, <3>1 DEF RequestsOK, CheckHolds
    <3>3. \A a \in ActivePatches(d0), b \in PatchesOf(d0) :
            patches[b].hash \in Deps[patches[a].hash] => ~patches[b].removed
      BY <3>1 DEF DependenciesKept
    <3>4. /\ k # i /\ k \in ActivePatches(d0) /\ patches'[k] = patches[k]
          /\ l \in PatchesOf(d0) /\ patches'[l].hash = patches[l].hash
      BY <2>2, <2>3 DEF ActivePatches, PatchesOf
    <3>5. CASE l = i
      <4>1. patches[k].hash # patches[i].hash
        BY <2>2, <3>4 DEF TypeOK, ActivePatches, PatchesOf
      <4>2. k \in Dependents(d0, i)
        BY <2>7, <3>4, <3>5, <4>1 DEF Dependents
      <4> QED
        BY <3>2, <4>2
    <3>6. CASE l # i
      BY <2>3, <2>7, <3>3, <3>4, <3>6 DEF PatchesOf
    <3> QED
      BY <3>5, <3>6
  <2> QED
    BY <1>3, <2>3, <2>5, <2>6, <2>7, <2>8, WroteIInv
<1> QED
  BY <1>2, <1>3 DEF RemovePatch

(* The patch is shown again, whether or not what it depends on is.         *)
LEMMA ReaddIInv ==
  ASSUME IInv, NEW q \in Request, ReaddPatch(q)
  PROVE  IInv'
<1> USE DEF IInv
<1>1. req[q].pc = "readd" /\ UNCHANGED <<discussions, channels, calls>>
  BY DEF ReaddPatch
<1>2. CASE Done(q) /\ UNCHANGED <<patches, fresh, excused>> /\ (UNCHANGED faults \/ Fault)
  BY <1>1, <1>2, GiveUp
<1>3. CASE /\ patches' = [patches EXCEPT ![req[q].id].removed = FALSE]
           /\ Touched(q, patches[req[q].id].d, req[q].id, patches[req[q].id].removed)
           /\ excused' = IF \E j \in PatchesOf(patches[req[q].id].d) :
                              patches[j].removed /\ patches[j].hash \in Deps[patches[req[q].id].hash]
                           THEN excused \cup {patches[req[q].id].d} ELSE excused
           /\ UNCHANGED faults
  <2>1. PICK i \in 1..Len(patches) : i = req[q].id
    BY <1>1 DEF RequestsOK, CheckHolds
  <2>2. PICK d0 \in Discussion, on \in BOOLEAN : d0 = patches[i].d /\ on = patches[i].removed
    BY Rows
  <2>3. /\ patches' \in Seq([d : Discussion, hash : Hash, by : User, removed : BOOLEAN])
        /\ Len(patches') = Len(patches)
        /\ patches'[i].d = patches[i].d /\ patches'[i].hash = patches[i].hash
        /\ patches'[i].removed = FALSE
        /\ \A k \in 1..Len(patches) : k # i => patches'[k] = patches[k]
        /\ \A k, l \in 1..Len(patches') :
             patches'[k].d = patches'[l].d /\ patches'[k].hash = patches'[l].hash => k = l
    BY <1>3, <2>1, NewMark
  <2>4. Touched(q, d0, i, on)
    BY <1>3, <2>1, <2>2
  <2>5. Len(patches) \in Nat /\ i \in Nat
    BY Rows
  <2>8. Wrote(q, d0, i, on)
    <3>1. Len(patches) <= Len(patches') /\ i \in 1..Len(patches')
      BY <2>3, <2>5
    <3>2. \A k \in 1..Len(patches') : k # i => k \in 1..Len(patches) /\ patches'[k] = patches[k]
      BY <2>3
    <3>3. patches[i].d = d0 /\ patches'[i].d = d0 /\ patches'[i].hash = patches[i].hash
      BY <2>2, <2>3
    <3>4. ~patches'[i].removed => on \/ (i \in 1..Len(patches) /\ ~patches[i].removed)
      BY <2>2, <2>3
    <3> HIDE DEF IInv
    <3> QED
      BY <1>1, <2>3, <2>4, <3>1, <3>2, <3>3, <3>4 DEF Wrote
  <2>6. excused' = excused \/ excused' = excused \cup {d0}
    BY <1>3, <2>1, <2>2
  <2>7. ASSUME d0 \notin excused', NEW k \in ActivePatches(d0)', NEW l \in PatchesOf(d0)',
               patches'[l].hash \in Deps[patches'[k].hash]
        PROVE  ~patches'[l].removed
    <3>1. /\ d0 \notin excused
          /\ \A j \in PatchesOf(d0) : ~(patches[j].removed /\ patches[j].hash \in Deps[patches[i].hash])
      BY <1>3, <2>1, <2>2, <2>7
    <3>2. \A a \in ActivePatches(d0), b \in PatchesOf(d0) :
            patches[b].hash \in Deps[patches[a].hash] => ~patches[b].removed
      BY <3>1 DEF DependenciesKept
    <3>3. /\ k = i \/ (k \in ActivePatches(d0) /\ patches'[k] = patches[k])
          /\ l = i \/ (l \in PatchesOf(d0) /\ patches'[l] = patches[l])
      BY <2>3 DEF ActivePatches, PatchesOf
    <3> QED
      BY <2>3, <2>7, <3>1, <3>2, <3>3
  <2>9. \A k, l \in 1..Len(patches') :
          patches'[k].d = patches'[l].d /\ patches'[k].hash = patches'[l].hash => k = l
    BY <2>3
  <2> HIDE DEF IInv
  <2>10. CASE on
    <3>1. Wrote(q, d0, i, TRUE)
      BY <2>8, <2>10 DEF Wrote, Touched
    <3> QED
      BY <1>3, <2>5, <2>6, <2>7, <2>9, <3>1, WroteIInv
  <2>11. CASE ~on
    <3>1. Wrote(q, d0, i, FALSE)
      BY <2>8, <2>11 DEF Wrote, Touched
    <3> QED
      BY <1>3, <2>5, <2>6, <2>7, <2>9, <3>1, WroteIInv
  <2> QED
    BY <2>10, <2>11
<1> QED
  BY <1>2, <1>3 DEF ReaddPatch

----------------------------------------------------------------------------
(***************************************************************************)
(* The theorems.                                                           *)
(***************************************************************************)

(* Nothing is opened, patched or merged at first. *)
LEMMA InitIInv == Init => IInv
<1> SUFFICES ASSUME Init PROVE IInv
  OBVIOUS
<1> USE DiscussionsAssumption DEF Init
<1>1. discussions = << >> /\ patches = << >>
  OBVIOUS
<1>2. Len(discussions) = 0 /\ Len(patches) = 0
  BY <1>1
<1>3. Discussion = {} /\ 1..Len(patches) = {}
  BY <1>2 DEF Discussion
<1>4. TypeOK
  BY <1>1, <1>3 DEF TypeOK
<1>5. RequestsOK
  <2>1. \A q \in Request : req[q] = Idle
    OBVIOUS
  <2> QED
    BY <2>1, IdleHolds DEF RequestsOK
<1>6. Bounded /\ DependenciesKept /\ MergedShowsApplied
  BY <1>2, <1>3 DEF Bounded, DependenciesKept, MergedShowsApplied
<1> QED
  BY <1>4, <1>5, <1>6 DEF IInv

LEMMA NextIInv == IInv /\ [Next]_vars => IInv'
<1> SUFFICES ASSUME IInv, [Next]_vars PROVE IInv'
  OBVIOUS
<1>1. CASE UNCHANGED vars
  <2>1. UNCHANGED <<discussions, patches, channels, req, calls, faults, fresh, excused>>
    BY <1>1 DEF vars
  <2> QED
    BY <2>1 DEF IInv, TypeOK, Bounded, RequestsOK, CheckHolds, MergeHolds, DependenciesKept,
                MergedShowsApplied, Serving, Discussion, PatchesOf, ActivePatches, HashesOf,
                Dependents
<1>2. ASSUME NEW u \in User, NEW c \in Channel, NewDiscussion(u, c) PROVE IInv'
  BY <1>2, NewDiscussionIInv
<1>3. ASSUME NEW q \in Request, NEW op \in Op, NEW u \in User, NEW d \in Discussion,
             NEW a \in Arguments(op), ResolveDiscussion(q, op, u, d, a[1], a[2])
      PROVE  IInv'
  BY <1>3, ResolveIInv
<1>4. ASSUME NEW q \in Request, Serve(q) PROVE IInv'
  <2>1. CASE AddPatch(q)              BY <2>1, AddPatchIInv
  <2>2. CASE canAddPatchWithChange(q) BY <2>2, CheckAddIInv
  <2>3. CASE AddDiscussionPatch(q)    BY <2>3, AddIInv
  <2>4. CASE canRemovePatch(q)        BY <2>4, CheckRemoveIInv
  <2>5. CASE RemovePatch(q)           BY <2>5, RemoveIInv
  <2>6. CASE ReaddPatch(q)            BY <2>6, ReaddIInv
  <2>7. CASE CloseDiscussion(q)
    <3>1. req[q].pc # "idle" /\ SetState(q, "closed")
      BY <2>7 DEF CloseDiscussion
    <3> QED
      BY <3>1, SetStateIInv
  <2>8. CASE ReopenDiscussion(q)
    <3>1. req[q].pc # "idle" /\ SetState(q, "open")
      BY <2>8 DEF ReopenDiscussion
    <3> QED
      BY <3>1, SetStateIInv
  <2>9. CASE MergeDiscussion(q)       BY <2>9, MergeIInv
  <2>10. CASE Apply(q)                BY <2>10, ApplyIInv
  <2>11. CASE EndApply(q)             BY <2>11, EndApplyIInv
  <2>12. CASE MarkMerged(q)           BY <2>12, MarkMergedIInv
  <2> QED
    BY <1>4, <2>1, <2>2, <2>3, <2>4, <2>5, <2>6, <2>7, <2>8, <2>9, <2>10, <2>11, <2>12
       DEF Serve
<1> QED
  BY <1>1, <1>2, <1>3, <1>4 DEF Next

LEMMA InvariantHolds == Spec => []IInv
BY InitIInv, NextIInv, PTL DEF Spec

(* The tables, the requests and the histories keep their types, and no     *)
(* change is in a discussion twice (unique(discussion_at, patch_hash)).    *)
THEOREM DiscussionTypeCorrect == Spec => []TypeOK
<1>1. IInv => TypeOK
  BY DEF IInv
<1> QED
  BY <1>1, InvariantHolds, PTL

(* The dependency checks of AddPatch and RemovePatch keep every active     *)
(* patch's dependencies active, whatever other requests do, in every       *)
(* discussion none of whose checks was skipped or overtaken.               *)
THEOREM DependencyChecksHold == Spec => []DependenciesKept
<1>1. IInv => DependenciesKept
  BY DEF IInv
<1> QED
  BY <1>1, InvariantHolds, PTL

(* MergeDiscussion marks a discussion merged only when the knot has        *)
(* applied every patch that was active and is not newer than its snapshot. *)
THEOREM MergedWasApplied == Spec => []MergedShowsApplied
<1>1. IInv => MergedShowsApplied
  BY DEF IInv
<1> QED
  BY <1>1, InvariantHolds, PTL
=============================================================================
