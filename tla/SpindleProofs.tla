--------------------------- MODULE SpindleProofs ---------------------------
(***************************************************************************)
(* Proofs, for any deliveries, workflows, queue size, workers, cancel      *)
(* requests and faults, that the spindle forgets no docker resource and    *)
(* that a workflow that is over says so.                                   *)
(***************************************************************************)
EXTENDS Spindle, TLAPS

(***************************************************************************)
(* The inductive invariant, in three parts besides the types.              *)
(***************************************************************************)
RunKey(r) == KeyOf(WidOf(r))

Queued(d) == \E i \in 1..Len(queue) : queue[i] = d

(* A delivery is queued once, and is in the queue or with a worker. *)
QueueOK ==
  /\ \A i \in 1..Len(queue) : dpc[queue[i]] = "queued" /\ queue[i] \notin running
  /\ \A i, j \in 1..Len(queue) : queue[i] = queue[j] => i = j
  /\ \A d \in running : dpc[d] = "queued"

(* A goroutine exists only for a built workflow of a delivery that a       *)
(* worker has taken, and has ended when the delivery is done.              *)
RunsOK ==
  /\ \A r \in Run : rpc[r] # "off" =>
       dpc[r[1]] \in {"queued", "done"} /\ ~ Queued(r[1]) /\ r[2] \in built[r[1]]
  /\ \A r \in Run : r[2] \in built[r[1]] =>
       dpc[r[1]] # "new" /\ (dpc[r[1]] = "done" => rpc[r] = "done")

(* The key whose resources an actor destroys, and when it does. *)
ActorKey(a) == IF a \in Run THEN RunKey(a) ELSE KeyOf(cwid[a])

Destroying(a) ==
  IF a \in Run THEN rpc[a] \in {"unwinding", "destroying"} ELSE cpc[a] = "destroying"

Belongs(fn, k) == IF fn[1] = "network" THEN fn[2] = k ELSE RunKey(fn[2]) = k

(* Cleanup functions concern the key they are registered under, and only   *)
(* an actor inside DestroyWorkflow has some left to call.                  *)
RegistryOK ==
  /\ \A k \in Key : \A i \in 1..Len(cleanup[k]) : Belongs(cleanup[k][i], k)
  /\ \A a \in Actor : \A i \in 1..Len(draining[a]) :
       Destroying(a) /\ Belongs(draining[a][i], ActorKey(a))

(* A goroutine between its first registration and its drain. *)
WillDrain(r) ==
  rpc[r] \in {"image", "regctr", "boot", "mkdir", "unwind", "step", "exec", "report"}

(* Registered cleanups have a goroutine of their key that will drain them. *)
DrainComes ==
  \A k \in Key : cleanup[k] # << >> => \E r \in Run : RunKey(r) = k /\ WillDrain(r)

(* A cleanup function is registered, drained and not called yet, or has    *)
(* failed.                                                                 *)
Pending(fn, k) ==
  \/ \E i \in 1..Len(cleanup[k]) : cleanup[k][i] = fn
  \/ \E a \in Actor : \E i \in 1..Len(draining[a]) : draining[a][i] = fn
  \/ fn \in failed

(* Every network and every container has a pending cleanup, or a goroutine *)
(* about to register it.                                                   *)
NetworksOK ==
  \A k \in networks :
    \/ \E r \in Run : RunKey(r) = k /\ rpc[r] = "regnet"
    \/ Pending(<<"network", k>>, k)

ContainersOK ==
  \A r \in Run :
    /\ container[r] \in {"created", "up", "exited"} =>
         \/ rpc[r] = "regctr"
         \/ Pending(<<"container", r>>, RunKey(r))
         \/ Pending(<<"remove", r>>, RunKey(r))
    /\ rpc[r] \in {"regctr", "boot"} => container[r] # "none"

(* A goroutine that has not reported its verdict yet. *)
Owes(r) == r[2] \in built[r[1]] /\ rpc[r] \notin {"destroying", "done"}

(* A command runs for a step there is, and what is reported after the      *)
(* steps is a final status.                                                *)
StepsOK ==
  \A r \in Run : /\ rpc[r] = "exec" => step[r] < NumSteps
                 /\ rpc[r] = "report" => verdict[r] \in FinishStates

(* A workflow shown as pending or running has a goroutine, or will have    *)
(* one, that still owes its final status.                                  *)
StatusOwed ==
  \A w \in Wid \ unsaved : Latest(w) \in StartStates =>
    \E r \in Run : WidOf(r) = w /\ Owes(r)

SchedOK  == QueueOK /\ RunsOK
DockerOK == RegistryOK /\ DrainComes /\ NetworksOK /\ ContainersOK

IInv == TypeOK /\ SchedOK /\ StepsOK /\ DockerOK /\ StatusOwed

(* Keys and workflow ids of goroutines. *)
LEMMA KeysOfRuns ==
  /\ \A r \in Run : WidOf(r) \in Wid /\ RunKey(r) \in Key
  /\ \A w \in Wid : KeyOf(w) \in Key
  /\ \A r \in Run : r[1] \in Delivery /\ r[2] \in Name /\ r = <<r[1], r[2]>>
  /\ \A r \in Run : r \in Actor /\ r \notin Canceller
  /\ \A c \in Canceller : c \in Actor /\ c \notin Run
<1> USE SpindleAssumption DEF Run
<1>1. \A r \in Run : r[1] \in Delivery /\ r[2] \in Name /\ r = <<r[1], r[2]>>
  OBVIOUS
<1>2. \A r \in Run : WidOf(r) \in Wid
  BY <1>1 DEF WidOf, Wid
<1>3. \A w \in Wid : KeyOf(w) \in Key
  BY DEF KeyOf, Wid, Key
<1>4. \A r \in Run : r \in Actor /\ r \notin Canceller
  BY DEF Actor
<1>5. \A c \in Canceller : c \in Actor /\ c \notin Run
  BY DEF Actor
<1> QED
  BY <1>1, <1>2, <1>3, <1>4, <1>5 DEF RunKey

----------------------------------------------------------------------------
(***************************************************************************)
(* Types.                                                                  *)
(***************************************************************************)

(* An emitted status lands or is noted as unsaved. *)
LEMMA EmitType ==
  ASSUME TypeOK, NEW w \in Wid, NEW k \in StatusKind, Emit(w, k) \/ EmitFails(w)
  PROVE  status' \in [Wid -> Seq(StatusKind)] /\ unsaved' \in SUBSET Wid
<1>1. status \in [Wid -> Seq(StatusKind)] /\ unsaved \in SUBSET Wid
  BY DEF TypeOK
<1>2. CASE Emit(w, k)
  <2>1. Append(status[w], k) \in Seq(StatusKind)
    BY <1>1
  <2> QED
    BY <1>1, <1>2, <2>1 DEF Emit
<1>3. CASE EmitFails(w)
  BY <1>1, <1>3 DEF EmitFails
<1> QED
  BY <1>2, <1>3

(* Draining moves the functions of a key to an actor. *)
LEMMA DrainType ==
  ASSUME TypeOK, NEW a \in Actor, NEW k \in Key, Drain(a, k)
  PROVE  /\ draining' \in [Actor -> Seq(Cleanup)]
         /\ cleanup' \in [Key -> Seq(Cleanup)]
         /\ \A b \in Actor : draining'[b] = IF b = a THEN cleanup[k] ELSE draining[b]
         /\ \A l \in Key : cleanup'[l] = IF l = k THEN << >> ELSE cleanup[l]
<1>1. draining \in [Actor -> Seq(Cleanup)] /\ cleanup \in [Key -> Seq(Cleanup)]
  BY DEF TypeOK
<1>2. << >> \in Seq(Cleanup) /\ cleanup[k] \in Seq(Cleanup)
  BY <1>1
<1> QED
  BY <1>1, <1>2 DEF Drain

(* The delivery side. *)
LEMMA DeliveryType ==
  ASSUME TypeOK,
         \/ \E d \in Delivery : Receive(d) \/ DeliveryStep(d) \/ JobDone(d)
         \/ StartWorkflows
  PROVE  TypeOK'
<1> USE SpindleAssumption DEF TypeOK, statusVars, runVars, dockerVars, cancelVars
<1>1. ASSUME NEW d \in Delivery, Receive(d) PROVE TypeOK'
  BY <1>1 DEF Receive
<1>5. ASSUME NEW d \in Delivery, JobDone(d) PROVE TypeOK'
  BY <1>5 DEF JobDone
<1>2. ASSUME NEW d \in Delivery, NEW n \in Name, Admit(d, n) PROVE TypeOK'
  <2> DEFINE w == <<PipelineOf[d], n>>
  <2>1. w \in Wid
    BY DEF Wid
  <2>2. /\ todo' = [todo EXCEPT ![d] = @ \ {n}]
        /\ built' = [built EXCEPT ![d] = @ \cup {n}] \/ UNCHANGED built
        /\ dpc' = [dpc EXCEPT ![d] = "dropped"] \/ UNCHANGED dpc
    BY <1>2 DEF Admit
  <2>3. status' \in [Wid -> Seq(StatusKind)] /\ unsaved' \in SUBSET Wid
    <3>1. "failed" \in StatusKind /\ "pending" \in StatusKind
      BY DEF StatusKind, StartStates, FinishStates
    <3>2. \/ Emit(w, "failed") \/ Emit(w, "pending") \/ EmitFails(w)
          \/ UNCHANGED statusVars
      BY <1>2 DEF Admit
    <3> QED
      BY <3>1, <3>2, <2>1, EmitType
  <2>4. /\ todo' \in [Delivery -> SUBSET Name]
        /\ built' \in [Delivery -> SUBSET Name]
        /\ dpc' \in [Delivery -> {"new", "admit", "queued", "dropped", "done"}]
    <3> HIDE DEF TypeOK
    <3>1. todo' \in [Delivery -> SUBSET Name]
      <4>1. todo \in [Delivery -> SUBSET Name]
        BY DEF TypeOK
      <4>2. todo[d] \ {n} \in SUBSET Name
        BY <4>1
      <4> QED
        BY <2>2, <4>1, <4>2
    <3>2. built' \in [Delivery -> SUBSET Name]
      <4>1. built \in [Delivery -> SUBSET Name]
        BY DEF TypeOK
      <4>2. built[d] \cup {n} \in SUBSET Name
        BY <4>1
      <4> QED
        BY <2>2, <4>1, <4>2
    <3>3. dpc' \in [Delivery -> {"new", "admit", "queued", "dropped", "done"}]
      BY <2>2 DEF TypeOK
    <3> QED
      BY <3>1, <3>2, <3>3
  <2> QED
    BY <1>2, <2>3, <2>4 DEF Admit
<1>3. ASSUME NEW d \in Delivery, Enqueue(d) PROVE TypeOK'
  <2> HIDE DEF TypeOK
  <2>1. queue \in Seq(Delivery) /\ Len(queue) <= QueueSize
    BY DEF TypeOK
  <2>2. Len(queue) < QueueSize =>
          Append(queue, d) \in Seq(Delivery) /\ Len(Append(queue, d)) <= QueueSize
    BY <2>1
  <2>3. \/ queue' = queue
        \/ Len(queue) < QueueSize /\ queue' = Append(queue, d)
    BY <1>3 DEF Enqueue
  <2>4. queue' \in Seq(Delivery) /\ Len(queue') <= QueueSize
    BY <2>1, <2>2, <2>3
  <2>5. dpc' \in [Delivery -> {"new", "admit", "queued", "dropped", "done"}]
    <3>1. dpc' = [dpc EXCEPT ![d] = "queued"] \/ dpc' = [dpc EXCEPT ![d] = "dropped"]
      BY <1>3 DEF Enqueue
    <3> QED
      BY <3>1 DEF TypeOK
  <2> QED
    BY <1>3, <2>4, <2>5 DEF Enqueue, TypeOK
<1>4. CASE StartWorkflows
  <2> HIDE DEF TypeOK
  <2>1. queue \in Seq(Delivery) /\ Len(queue) <= QueueSize /\ queue # << >>
    BY <1>4 DEF StartWorkflows, TypeOK
  <2>2. Head(queue) \in Delivery /\ Tail(queue) \in Seq(Delivery) /\ Len(Tail(queue)) <= QueueSize
    BY <2>1
  <2>3. \A d \in Delivery : [r \in Run |-> IF r[1] = d /\ r[2] \in built[d] THEN "start" ELSE rpc[r]]
                             \in [Run -> RunState]
    <3>1. "start" \in RunState /\ rpc \in [Run -> RunState]
      BY DEF RunState, TypeOK
    <3> QED
      BY <3>1
  <2>4. rpc' \in [Run -> RunState]
    BY <1>4, <2>2, <2>3 DEF StartWorkflows
  <2>5. running' \in SUBSET Delivery /\ queue' = Tail(queue)
    BY <1>4, <2>2 DEF StartWorkflows, TypeOK
  <2> QED
    BY <1>4, <2>2, <2>4, <2>5 DEF StartWorkflows, TypeOK
<1> QED
  BY <1>1, <1>2, <1>3, <1>4, <1>5 DEF DeliveryStep

(* The goroutines. *)
LEMMA RunType ==
  ASSUME TypeOK, StepsOK, NEW r \in Run, RunStep(r) \/ Expire(r)
  PROVE  TypeOK'
<1> DEFINE k == KeyOf(WidOf(r))
<1>a. k \in Key /\ r \in Actor /\ WidOf(r) \in Wid
  BY KeysOfRuns DEF RunKey
<1>b. ASSUME NEW l \in RunState, Goto(r, l) PROVE rpc' \in [Run -> RunState]
  BY <1>b DEF Goto, TypeOK
<1>c. \A x \in FinishStates : x \in StatusKind
  BY DEF StatusKind
<1> USE SpindleAssumption DEF deliveryVars, RunFrame, statusVars, runVars, dockerVars, cancelVars
<1>1. CASE ReportRunning(r)
  <2>1. status' \in [Wid -> Seq(StatusKind)] /\ unsaved' \in SUBSET Wid
    BY <1>1, <1>a, EmitType DEF ReportRunning, StatusKind, StartStates
  <2>2. rpc' \in [Run -> RunState]
    BY <1>1, <1>b DEF ReportRunning, RunState
  <2> QED
    BY <1>1, <2>1, <2>2 DEF ReportRunning, TypeOK
<1>2. CASE NetworkCreate(r)
  <2>1. rpc' \in [Run -> RunState]
    BY <1>2, <1>b DEF NetworkCreate, SetupFails, RunState
  <2>2. networks' \in SUBSET Key
    BY <1>2, <1>a DEF NetworkCreate, TypeOK
  <2> QED
    BY <1>2, <2>1, <2>2 DEF NetworkCreate, TypeOK
<1>3. ASSUME NEW fn \in Cleanup, NEW l \in RunState, RegisterCleanup(r, fn, l) PROVE TypeOK'
  <2>1. rpc' \in [Run -> RunState]
    BY <1>3, <1>b DEF RegisterCleanup
  <2>2. Append(cleanup[k], fn) \in Seq(Cleanup)
    BY <1>a DEF TypeOK
  <2>3. cleanup' \in [Key -> Seq(Cleanup)]
    BY <2>2, <1>3, <1>a DEF RegisterCleanup, TypeOK
  <2> QED
    BY <1>3, <2>1, <2>3 DEF RegisterCleanup, TypeOK
<1>4. CASE RegisterNetwork(r) \/ RegisterContainer(r)
  BY <1>3, <1>4, <1>a DEF RegisterNetwork, RegisterContainer, RunState, Cleanup
<1>5. CASE ContainerCreate(r) \/ ContainerStart(r) \/ MakeWorkspace(r)
  <2>1. rpc' \in [Run -> RunState]
    BY <1>5, <1>b DEF ContainerCreate, ContainerStart, MakeWorkspace, SetupFails, RunState
  <2>2. container' \in [Run -> {"none", "created", "up", "exited", "removed"}]
    BY <1>5 DEF ContainerCreate, ContainerStart, MakeWorkspace, TypeOK
  <2> QED
    BY <1>5, <2>1, <2>2 DEF ContainerCreate, ContainerStart, MakeWorkspace, TypeOK
<1>6. CASE Expire(r)
  BY <1>6 DEF Expire, TypeOK
<1>7. CASE BeginStep(r) \/ EndStep(r)
  <2>1. rpc' \in [Run -> RunState]
    BY <1>7, <1>b DEF BeginStep, EndStep, Report, RunState
  <2>2. verdict' \in [Run -> FinishStates \cup {"none"}]
    BY <1>7 DEF BeginStep, EndStep, Report, FinishStates, TypeOK
  <2>3. step' \in [Run -> 0..NumSteps]
    <3>1. step \in [Run -> 0..NumSteps]
      BY DEF TypeOK
    <3>2. \/ UNCHANGED step
          \/ step' = [step EXCEPT ![r] = @ + 1] /\ step[r] < NumSteps
      BY <1>7 DEF BeginStep, EndStep, StepsOK
    <3> QED
      BY <3>1, <3>2
  <2> QED
    BY <1>7, <2>1, <2>2, <2>3 DEF BeginStep, EndStep, TypeOK
<1>8. CASE Unwind(r)
  <2>1. rpc' \in [Run -> RunState]
    BY <1>8, <1>b DEF Unwind, RunState
  <2> QED
    BY <1>8, <1>a, <2>1, DrainType DEF Unwind, TypeOK
<1>9. CASE ReportVerdict(r)
  <2>1. verdict[r] \in FinishStates
    BY <1>9 DEF ReportVerdict, StepsOK
  <2>2. TypeOK'
    <3>1. rpc' \in [Run -> RunState]
      BY <1>9, <1>b DEF ReportVerdict, RunState
    <3>2. status' \in [Wid -> Seq(StatusKind)] /\ unsaved' \in SUBSET Wid
      BY <1>9, <1>a, <1>c, <2>1, EmitType DEF ReportVerdict
    <3> QED
      BY <1>9, <1>a, <3>1, <3>2, DrainType DEF ReportVerdict, TypeOK
  <2> QED
    BY <2>2
<1>10. CASE ReportSetupFailure(r) \/ Finish(r)
  <2>1. rpc' \in [Run -> RunState]
    BY <1>10, <1>b DEF ReportSetupFailure, Finish, RunState
  <2>2. status' \in [Wid -> Seq(StatusKind)] /\ unsaved' \in SUBSET Wid
    <3>1. "failed" \in StatusKind
      BY DEF StatusKind, FinishStates
    <3> QED
      BY <1>10, <1>a, <3>1, EmitType DEF ReportSetupFailure, Finish, TypeOK
  <2> QED
    BY <1>10, <2>1, <2>2 DEF ReportSetupFailure, Finish, TypeOK
<1> QED
  BY <1>1, <1>2, <1>4, <1>5, <1>6, <1>7, <1>8, <1>9, <1>10 DEF RunStep

(* Cleanup calls and cancel requests. *)
LEMMA CancelType ==
  ASSUME TypeOK,
         \/ \E a \in Actor : CallCleanup(a)
         \/ \E c \in Canceller : CancelPipeline(c) \/ ReportCancelled(c)
  PROVE  TypeOK'
<1> USE SpindleAssumption DEF deliveryVars, statusVars, runVars, dockerVars, cancelVars
<1>1. ASSUME NEW a \in Actor, CallCleanup(a) PROVE TypeOK'
  <2> DEFINE fn == Head(draining[a])
             rest == Tail(draining[a])
  <2>1. fn \in Cleanup /\ rest \in Seq(Cleanup)
    BY <1>1 DEF CallCleanup, TypeOK
  <2>2. fn[1] = "container" => fn[2] \in Run /\ <<"remove", fn[2]>> \in Cleanup
    BY <2>1 DEF Cleanup
  <2>3. fn[1] = "container" => << <<"remove", fn[2]>> >> \o rest \in Seq(Cleanup)
    BY <2>1, <2>2
  <2>4. draining' \in [Actor -> Seq(Cleanup)]
    BY <1>1, <2>1, <2>3 DEF CallCleanup, TypeOK
  <2>5. /\ networks' \in SUBSET Key
        /\ failed' \in SUBSET Cleanup
    BY <1>1, <2>1 DEF CallCleanup, CleanupFails, TypeOK
  <2>6. container' \in [Run -> {"none", "created", "up", "exited", "removed"}]
    <3>1. container \in [Run -> {"none", "created", "up", "exited", "removed"}]
      BY DEF TypeOK
    <3>2. \/ UNCHANGED container
          \/ container' = [container EXCEPT ![fn[2]] = IF @ = "up" THEN "exited" ELSE @]
          \/ container' = [container EXCEPT ![fn[2]] = "removed"]
      BY <1>1 DEF CallCleanup, CleanupFails
    <3> QED
      BY <3>1, <3>2
  <2> QED
    BY <1>1, <2>4, <2>5, <2>6 DEF CallCleanup, TypeOK
<1>2. ASSUME NEW c \in Canceller, CancelPipeline(c) PROVE TypeOK'
  <2>1. c \in Actor /\ KeyOf(cwid[c]) \in Key
    BY KeysOfRuns DEF TypeOK
  <2>2. cpc' \in [Canceller -> {"idle", "destroying", "done"}]
    BY <1>2 DEF CancelPipeline, TypeOK
  <2> QED
    BY <1>2, <2>1, <2>2, DrainType DEF CancelPipeline, TypeOK
<1>3. ASSUME NEW c \in Canceller, ReportCancelled(c) PROVE TypeOK'
  <2>1. cwid[c] \in Wid /\ "cancelled" \in StatusKind
    BY DEF TypeOK, StatusKind, FinishStates
  <2>2. status' \in [Wid -> Seq(StatusKind)] /\ unsaved' \in SUBSET Wid
    BY <1>3, <2>1, EmitType DEF ReportCancelled
  <2>3. cpc' \in [Canceller -> {"idle", "destroying", "done"}]
    BY <1>3 DEF ReportCancelled, TypeOK
  <2> QED
    BY <1>3, <2>2, <2>3 DEF ReportCancelled, TypeOK
<1> QED
  BY <1>1, <1>2, <1>3

----------------------------------------------------------------------------
(***************************************************************************)
(* The queue, the workers and their goroutines.                            *)
(***************************************************************************)

(* A goroutine's step moves it from one label to another, and neither the  *)
(* delivery nor another goroutine.                                         *)
LEMMA RunMoves ==
  ASSUME TypeOK, NEW r \in Run, RunStep(r) \/ Expire(r)
  PROVE  /\ UNCHANGED <<deliveryVars, cancelVars, failed>>
         /\ rpc[r] \notin {"off", "done"} /\ rpc'[r] # "off"
         /\ \A q \in Run : q # r => rpc'[q] = rpc[q]
<1> DEFINE Moved == /\ rpc[r] \notin {"off", "done"} /\ rpc'[r] # "off"
                    /\ \A q \in Run : q # r => rpc'[q] = rpc[q]
<1>a. ASSUME NEW l \in RunState \ {"off"}, rpc[r] \notin {"off", "done"}, Goto(r, l)
      PROVE  Moved
  BY <1>a DEF Goto, TypeOK
<1> USE DEF RunFrame, deliveryVars, cancelVars, dockerVars, RunState
<1>1. CASE ReportRunning(r)
  BY <1>1, <1>a DEF ReportRunning
<1>2. CASE NetworkCreate(r)
  BY <1>2, <1>a DEF NetworkCreate, SetupFails
<1>3. CASE RegisterNetwork(r) \/ RegisterContainer(r)
  BY <1>3, <1>a DEF RegisterNetwork, RegisterContainer, RegisterCleanup
<1>4. CASE ContainerCreate(r) \/ ContainerStart(r) \/ MakeWorkspace(r)
  BY <1>4, <1>a DEF ContainerCreate, ContainerStart, MakeWorkspace, SetupFails
<1>5. CASE BeginStep(r) \/ EndStep(r)
  BY <1>5, <1>a DEF BeginStep, EndStep, Report
<1>6. CASE Unwind(r) \/ ReportVerdict(r) \/ ReportSetupFailure(r) \/ Finish(r)
  BY <1>6, <1>a DEF Unwind, ReportVerdict, ReportSetupFailure, Finish
<1>7. CASE Expire(r)
  BY <1>7 DEF Expire
<1> QED
  BY <1>1, <1>2, <1>3, <1>4, <1>5, <1>6, <1>7 DEF RunStep

(* The steps of goroutines keep the queue's invariant. *)
LEMMA RunSched ==
  ASSUME TypeOK, SchedOK, NEW r \in Run, RunStep(r) \/ Expire(r)
  PROVE  SchedOK'
<1>1. /\ UNCHANGED <<dpc, built, queue, running>>
      /\ rpc[r] \notin {"off", "done"} /\ rpc'[r] # "off"
      /\ \A q \in Run : q # r => rpc'[q] = rpc[q]
  BY RunMoves DEF deliveryVars
<1>2. QueueOK'
  BY <1>1 DEF SchedOK, QueueOK
<1>3. RunsOK'
  <2>1. ASSUME NEW q \in Run, rpc'[q] # "off"
        PROVE  dpc[q[1]] \in {"queued", "done"} /\ ~ Queued(q[1]) /\ q[2] \in built[q[1]]
    BY <1>1, <2>1 DEF SchedOK, RunsOK
  <2>2. ASSUME NEW q \in Run, q[2] \in built[q[1]]
        PROVE  dpc[q[1]] # "new" /\ (dpc[q[1]] = "done" => rpc'[q] = "done")
    BY <1>1, <2>2 DEF SchedOK, RunsOK
  <2> QED
    BY <1>1, <2>1, <2>2 DEF RunsOK, Queued
<1> QED
  BY <1>2, <1>3 DEF SchedOK

(* So do cleanup calls and cancels, which touch none of it. *)
LEMMA OtherSched ==
  ASSUME SchedOK, UNCHANGED <<dpc, built, queue, running, rpc>>
  PROVE  SchedOK'
BY DEF SchedOK, QueueOK, RunsOK, Queued

(* A delivery on its way to the queue has no goroutine and is not queued. *)
LEMMA NotYetQueued ==
  ASSUME SchedOK, NEW d \in Delivery, dpc[d] \in {"new", "admit"}
  PROVE  /\ ~ Queued(d) /\ d \notin running
         /\ \A r \in Run : r[1] = d => rpc[r] = "off"
BY DEF SchedOK, QueueOK, RunsOK, Queued

(* Receiving, admitting and dropping. *)
LEMMA AdmitSched ==
  ASSUME TypeOK, SchedOK, NEW d \in Delivery, Receive(d) \/ \E n \in Name : Admit(d, n)
  PROVE  SchedOK'
<1>1. dpc[d] \in {"new", "admit"} /\ UNCHANGED <<queue, running, rpc>>
  BY DEF Receive, Admit, runVars
<1>2. /\ \A e \in Delivery : e # d => dpc'[e] = dpc[e] /\ built'[e] = built[e]
      /\ dpc'[d] # "new"
      /\ dpc'[d] = "done" => dpc[d] = "new" /\ built'[d] = built[d]
  BY DEF Receive, Admit, TypeOK
<1>3. ~ Queued(d) /\ d \notin running /\ \A r \in Run : r[1] = d => rpc[r] = "off"
  BY <1>1, NotYetQueued
<1>4. QueueOK'
  <2>1. \A i \in 1..Len(queue) : queue[i] \in Delivery /\ queue[i] # d
    BY <1>3 DEF Queued, TypeOK
  <2>2. running \subseteq Delivery
    BY DEF TypeOK
  <2> QED
    BY <1>1, <1>2, <1>3, <2>1, <2>2 DEF SchedOK, QueueOK
<1>5. RunsOK'
  <2>1. ASSUME NEW r \in Run, rpc[r] # "off"
        PROVE  dpc'[r[1]] \in {"queued", "done"} /\ ~ Queued(r[1]) /\ r[2] \in built'[r[1]]
    BY <1>2, <1>3, <2>1, KeysOfRuns DEF SchedOK, RunsOK
  <2>2. ASSUME NEW r \in Run, r[2] \in built'[r[1]]
        PROVE  dpc'[r[1]] # "new" /\ (dpc'[r[1]] = "done" => rpc[r] = "done")
    <3>1. CASE r[1] = d
      BY <1>2, <2>2, <3>1 DEF SchedOK, RunsOK
    <3>2. CASE r[1] # d
      BY <1>2, <2>2, <3>2, KeysOfRuns DEF SchedOK, RunsOK
    <3> QED
      BY <3>1, <3>2
  <2> QED
    BY <1>1, <2>1, <2>2 DEF RunsOK, Queued
<1> QED
  BY <1>4, <1>5 DEF SchedOK

(* Queueing. *)
LEMMA EnqueueSched ==
  ASSUME TypeOK, SchedOK, NEW d \in Delivery, Enqueue(d)
  PROVE  SchedOK'
<1>1. /\ dpc[d] = "admit"
      /\ UNCHANGED <<built, running, rpc>>
      /\ \A e \in Delivery : e # d => dpc'[e] = dpc[e]
      /\ dpc'[d] \in {"queued", "dropped"}
      /\ \/ queue' = queue
         \/ queue' = Append(queue, d) /\ dpc'[d] = "queued"
  BY DEF Enqueue, runVars, TypeOK
<1>2. /\ ~ Queued(d) /\ d \notin running
      /\ \A r \in Run : r[1] = d => rpc[r] = "off"
  BY <1>1, NotYetQueued
<1>3. /\ Len(queue) \in Nat /\ running \subseteq Delivery
      /\ \A i \in 1..Len(queue) : queue[i] \in Delivery /\ queue[i] # d
  <2>1. queue \in Seq(Delivery) /\ running \subseteq Delivery
    BY DEF TypeOK
  <2>2. Len(queue) \in Nat /\ \A i \in 1..Len(queue) : queue[i] \in Delivery
    BY <2>1
  <2> QED
    BY <2>1, <2>2, <1>2 DEF Queued
<1>4. \/ queue' = queue
      \/ /\ dpc'[d] = "queued"
         /\ Len(queue') = Len(queue) + 1 /\ queue'[Len(queue) + 1] = d
         /\ \A i \in 1..Len(queue) : queue'[i] = queue[i]
  <2>1. queue \in Seq(Delivery)
    BY DEF TypeOK
  <2>2. CASE queue' = Append(queue, d) /\ dpc'[d] = "queued"
    BY <2>1, <2>2
  <2> QED
    BY <1>1, <2>2
<1>5. \A i \in 1..Len(queue') :
        \/ i \in 1..Len(queue) /\ queue'[i] = queue[i]
        \/ i = Len(queue) + 1 /\ queue'[i] = d /\ dpc'[d] = "queued"
  BY <1>3, <1>4
<1>6. QueueOK'
  <2>1. \A i \in 1..Len(queue') : dpc'[queue'[i]] = "queued" /\ queue'[i] \notin running
    BY <1>1, <1>2, <1>3, <1>5 DEF SchedOK, QueueOK
  <2>2. \A i, j \in 1..Len(queue') : queue'[i] = queue'[j] => i = j
    BY <1>3, <1>5 DEF SchedOK, QueueOK
  <2>3. \A e \in running : dpc'[e] = "queued"
    BY <1>1, <1>2, <1>3 DEF SchedOK, QueueOK
  <2> QED
    BY <1>1, <2>1, <2>2, <2>3 DEF QueueOK
<1>7. RunsOK'
  <2>1. \A e \in Delivery : e # d => (Queued(e)' => Queued(e))
    BY <1>5 DEF Queued
  <2>2. ASSUME NEW r \in Run, rpc[r] # "off"
        PROVE  dpc'[r[1]] \in {"queued", "done"} /\ ~ Queued(r[1])' /\ r[2] \in built[r[1]]
    BY <1>1, <1>2, <2>1, <2>2, KeysOfRuns DEF SchedOK, RunsOK
  <2>3. ASSUME NEW r \in Run, r[2] \in built[r[1]]
        PROVE  dpc'[r[1]] # "new" /\ (dpc'[r[1]] = "done" => rpc[r] = "done")
    BY <1>1, <2>3, KeysOfRuns DEF SchedOK, RunsOK
  <2> QED
    BY <1>1, <2>2, <2>3 DEF RunsOK
<1> QED
  BY <1>6, <1>7 DEF SchedOK

(* A worker takes the oldest job. *)
LEMMA StartSched ==
  ASSUME TypeOK, SchedOK, StartWorkflows
  PROVE  SchedOK'
<1> DEFINE d == Head(queue)
<1>1. /\ queue # << >> /\ queue' = Tail(queue)
      /\ running' = running \cup {d}
      /\ rpc' = [r \in Run |-> IF r[1] = d /\ r[2] \in built[d] THEN "start" ELSE rpc[r]]
      /\ UNCHANGED <<dpc, built>>
  BY DEF StartWorkflows
<1>2. /\ d = queue[1] /\ 1 \in 1..Len(queue)
      /\ Len(queue') = Len(queue) - 1 /\ Len(queue) \in Nat
      /\ \A i \in 1..Len(queue') : queue'[i] = queue[i + 1] /\ i + 1 \in 1..Len(queue) /\ i + 1 # 1
  BY <1>1 DEF TypeOK
<1> HIDE DEF d
<1>3. dpc[d] = "queued"
  BY <1>2 DEF SchedOK, QueueOK
<1>4. \A i \in 1..Len(queue') : queue'[i] # d
  BY <1>2 DEF SchedOK, QueueOK
<1>5. QueueOK'
  <2>1. \A i \in 1..Len(queue') : dpc[queue'[i]] = "queued" /\ queue'[i] \notin running'
    BY <1>1, <1>2, <1>4 DEF SchedOK, QueueOK
  <2>2. ASSUME NEW i \in 1..Len(queue'), NEW j \in 1..Len(queue'), queue'[i] = queue'[j]
        PROVE  i = j
    <3>1. i + 1 = j + 1
      BY <1>2, <2>2 DEF SchedOK, QueueOK
    <3> QED
      BY <3>1
  <2>3. \A e \in running' : dpc[e] = "queued"
    BY <1>1, <1>3 DEF SchedOK, QueueOK
  <2> QED
    BY <1>1, <2>1, <2>2, <2>3 DEF QueueOK
<1>6. RunsOK'
  <2>1. \A e \in Delivery : Queued(e)' => Queued(e) /\ e # d
    BY <1>2, <1>4 DEF Queued
  <2>2. ASSUME NEW r \in Run, rpc'[r] # "off"
        PROVE  dpc[r[1]] \in {"queued", "done"} /\ ~ Queued(r[1])' /\ r[2] \in built[r[1]]
    <3>1. CASE r[1] = d /\ r[2] \in built[d]
      BY <1>3, <2>1, <3>1, KeysOfRuns
    <3>2. CASE ~ (r[1] = d /\ r[2] \in built[d])
      <4>1. rpc[r] # "off"
        BY <1>1, <2>2, <3>2
      <4> QED
        BY <4>1, <2>1, KeysOfRuns DEF SchedOK, RunsOK
    <3> QED
      BY <3>1, <3>2
  <2>3. ASSUME NEW r \in Run, r[2] \in built[r[1]]
        PROVE  dpc[r[1]] # "new" /\ (dpc[r[1]] = "done" => rpc'[r] = "done")
    BY <1>1, <1>3, <2>3 DEF SchedOK, RunsOK
  <2> QED
    BY <1>1, <2>2, <2>3 DEF RunsOK
<1> QED
  BY <1>5, <1>6 DEF SchedOK

(* A worker whose goroutines have ended is free again. *)
LEMMA DoneSched ==
  ASSUME TypeOK, SchedOK, NEW d \in Delivery, JobDone(d)
  PROVE  SchedOK'
<1>1. /\ d \in running /\ running' = running \ {d}
      /\ \A n \in built[d] : rpc[<<d, n>>] = "done"
      /\ \A e \in Delivery : e # d => dpc'[e] = dpc[e]
      /\ dpc'[d] = "done"
      /\ UNCHANGED <<built, queue, rpc>>
  BY DEF JobDone, runVars, TypeOK
<1>2. \A i \in 1..Len(queue) : queue[i] # d /\ queue[i] \in Delivery
  BY <1>1 DEF SchedOK, QueueOK, TypeOK
<1>3. QueueOK'
  <2>1. running \subseteq Delivery
    BY DEF TypeOK
  <2> QED
    BY <1>1, <1>2, <2>1 DEF SchedOK, QueueOK
<1>4. RunsOK'
  <2>1. ASSUME NEW r \in Run, rpc[r] # "off"
        PROVE  dpc'[r[1]] \in {"queued", "done"} /\ ~ Queued(r[1]) /\ r[2] \in built[r[1]]
    BY <1>1, <2>1, KeysOfRuns DEF SchedOK, RunsOK
  <2>2. ASSUME NEW r \in Run, r[2] \in built[r[1]]
        PROVE  dpc'[r[1]] # "new" /\ (dpc'[r[1]] = "done" => rpc[r] = "done")
    BY <1>1, <2>2, KeysOfRuns DEF SchedOK, RunsOK
  <2> QED
    BY <1>1, <2>1, <2>2 DEF RunsOK, Queued
<1> QED
  BY <1>3, <1>4 DEF SchedOK

----------------------------------------------------------------------------
(***************************************************************************)
(* The cleanup registry and docker.                                        *)
(***************************************************************************)

(* A goroutine or a cancel request outside DestroyWorkflow has nothing     *)
(* left to call.                                                           *)
LEMMA NothingLeft ==
  ASSUME TypeOK, RegistryOK, NEW a \in Actor, ~ Destroying(a)
  PROVE  draining[a] = << >>
<1>1. draining[a] \in Seq(Cleanup)
  BY DEF TypeOK
<1>2. 1 \notin 1..Len(draining[a])
  BY DEF RegistryOK
<1> QED
  BY <1>1, <1>2

(* A registration adds one function and keeps the pending ones.            *)
LEMMA RegisterPending ==
  ASSUME TypeOK, NEW k0 \in Key, NEW fn0 \in Cleanup,
         cleanup' = [cleanup EXCEPT ![k0] = Append(@, fn0)],
         UNCHANGED <<draining, failed>>
  PROVE  /\ Pending(fn0, k0)'
         /\ \A k \in Key, fn \in Cleanup : Pending(fn, k) => Pending(fn, k)'
         /\ \A k \in Key : k # k0 => cleanup'[k] = cleanup[k]
         /\ \A i \in 1..Len(cleanup'[k0]) :
              \/ cleanup'[k0][i] = fn0
              \/ i \in 1..Len(cleanup[k0]) /\ cleanup'[k0][i] = cleanup[k0][i]
<1> DEFINE n == Len(cleanup[k0])
<1>1. cleanup \in [Key -> Seq(Cleanup)] /\ cleanup[k0] \in Seq(Cleanup) /\ n \in Nat
  BY DEF TypeOK
<1>2. cleanup'[k0] = Append(cleanup[k0], fn0) /\ \A k \in Key : k # k0 => cleanup'[k] = cleanup[k]
  BY <1>1
<1>3. /\ Len(cleanup'[k0]) = n + 1 /\ cleanup'[k0][n + 1] = fn0
      /\ \A i \in 1..n : cleanup'[k0][i] = cleanup[k0][i]
  BY <1>1, <1>2
<1>4. Pending(fn0, k0)'
  BY <1>1, <1>3 DEF Pending
<1>5. ASSUME NEW k \in Key, NEW fn \in Cleanup, Pending(fn, k) PROVE Pending(fn, k)'
  <2>1. CASE \E i \in 1..Len(cleanup[k]) : cleanup[k][i] = fn
    <3>1. \E i \in 1..Len(cleanup'[k]) : cleanup'[k][i] = fn
      BY <2>1, <1>1, <1>2, <1>3
    <3> QED
      BY <3>1 DEF Pending
  <2> QED
    BY <1>5, <2>1 DEF Pending
<1> QED
  BY <1>1, <1>2, <1>3, <1>4, <1>5

(* Draining loses no pending function. *)
LEMMA DrainPending ==
  ASSUME TypeOK, NEW a \in Actor, NEW k0 \in Key, Drain(a, k0),
         draining[a] = << >>, UNCHANGED failed,
         NEW k \in Key, NEW fn, Pending(fn, k)
  PROVE  Pending(fn, k)'
<1>1. /\ \A b \in Actor : draining'[b] = IF b = a THEN cleanup[k0] ELSE draining[b]
      /\ \A l \in Key : cleanup'[l] = IF l = k0 THEN << >> ELSE cleanup[l]
  BY DrainType
<1>2. CASE \E i \in 1..Len(cleanup[k]) : cleanup[k][i] = fn
  BY <1>1, <1>2 DEF Pending
<1>3. CASE \E b \in Actor : \E i \in 1..Len(draining[b]) : draining[b][i] = fn
  <2>1. PICK b \in Actor : \E i \in 1..Len(draining[b]) : draining[b][i] = fn
    BY <1>3
  <2>2. b # a
    BY <2>1
  <2> QED
    BY <1>1, <2>1, <2>2 DEF Pending
<1> QED
  BY <1>2, <1>3 DEF Pending

(* What DestroyWorkflow does with the first function an actor has left: it *)
(* succeeds, or fails and is noted as failed.                              *)
LEMMA CallEffect ==
  ASSUME TypeOK, NEW a \in Actor, CallCleanup(a)
  PROVE  LET fn == draining[a][1]
             n == Len(draining[a])
         IN  /\ fn \in Cleanup /\ n \in Nat /\ n > 0
             /\ \A b \in Actor : b # a => draining'[b] = draining[b]
             /\ failed \subseteq failed'
             /\ \/ /\ fn[1] = "network"
                   /\ networks' = networks \ {fn[2]} /\ UNCHANGED container
                \/ /\ fn[1] = "remove" /\ UNCHANGED networks
                   /\ container' = [container EXCEPT ![fn[2]] = "removed"]
                \/ fn \in failed' /\ UNCHANGED dockerVars
                \/ /\ fn[1] = "container" /\ UNCHANGED networks
                   /\ draining'[a][1] = <<"remove", fn[2]>> /\ Len(draining'[a]) = n
                   /\ container' = [container EXCEPT ![fn[2]] = IF @ = "up" THEN "exited" ELSE @]
             /\ \/ /\ Len(draining'[a]) = n - 1
                   /\ \A i \in 1..(n - 1) : draining'[a][i] = draining[a][i + 1]
                \/ /\ Len(draining'[a]) = n /\ fn[1] = "container"
                   /\ draining'[a][1] = <<"remove", fn[2]>>
                   /\ \A i \in 2..n : draining'[a][i] = draining[a][i]
<1> DEFINE fn == draining[a][1]
           n == Len(draining[a])
           rest == Tail(draining[a])
<1>1. draining \in [Actor -> Seq(Cleanup)] /\ draining[a] \in Seq(Cleanup) /\ draining[a] # << >>
  BY DEF CallCleanup, TypeOK
<1>2. /\ n \in Nat /\ n > 0 /\ fn \in Cleanup /\ Head(draining[a]) = fn
      /\ rest \in Seq(Cleanup) /\ Len(rest) = n - 1
      /\ \A i \in 1..(n - 1) : rest[i] = draining[a][i + 1]
  BY <1>1
<1>3. /\ Len(<< <<"remove", fn[2]>> >> \o rest) = n
      /\ (<< <<"remove", fn[2]>> >> \o rest)[1] = <<"remove", fn[2]>>
      /\ \A i \in 2..n : (<< <<"remove", fn[2]>> >> \o rest)[i] = draining[a][i]
  <2> DEFINE x == <<"remove", fn[2]>>
  <2> HIDE DEF rest, x, n
  <2>1. \E S : <<x>> \in Seq(S) /\ rest \in Seq(S)
    <3>1. <<x>> \in Seq(Cleanup \cup {x}) /\ rest \in Seq(Cleanup \cup {x})
      BY <1>2
    <3> QED
      BY <3>1
  <2>2. /\ Len(<<x>> \o rest) = n /\ (<<x>> \o rest)[1] = x
        /\ \A i \in 2..n : (<<x>> \o rest)[i] = rest[i - 1]
    BY <2>1, <1>2
  <2>3. \A i \in 2..n : i - 1 \in 1..(n - 1) /\ (i - 1) + 1 = i
    BY <1>2
  <2>4. \A i \in 2..n : rest[i - 1] = draining[a][i]
    BY <2>3, <1>2
  <2> QED
    BY <2>2, <2>4 DEF x
<1>4. \/ draining' = [draining EXCEPT ![a] = rest]
      \/ fn[1] = "container" /\ draining' = [draining EXCEPT ![a] = << <<"remove", fn[2]>> >> \o rest]
  BY <1>2 DEF CallCleanup
<1>5. \/ draining'[a] = rest
      \/ fn[1] = "container" /\ draining'[a] = << <<"remove", fn[2]>> >> \o rest
  BY <1>1, <1>4
<1>6. \A b \in Actor : b # a => draining'[b] = draining[b]
  BY <1>1, <1>4
<1>7. failed \subseteq failed'
  BY DEF CallCleanup, CleanupFails
<1>8. \/ /\ fn[1] = "network"
         /\ networks' = networks \ {fn[2]} /\ UNCHANGED container
      \/ /\ fn[1] = "remove" /\ UNCHANGED networks
         /\ container' = [container EXCEPT ![fn[2]] = "removed"]
      \/ fn \in failed' /\ UNCHANGED dockerVars
      \/ /\ fn[1] = "container" /\ UNCHANGED networks
         /\ draining' = [draining EXCEPT ![a] = << <<"remove", fn[2]>> >> \o rest]
         /\ container' = [container EXCEPT ![fn[2]] = IF @ = "up" THEN "exited" ELSE @]
  BY <1>2 DEF CallCleanup, CleanupFails
<1>9. \/ /\ fn[1] = "network"
         /\ networks' = networks \ {fn[2]} /\ UNCHANGED container
      \/ /\ fn[1] = "remove" /\ UNCHANGED networks
         /\ container' = [container EXCEPT ![fn[2]] = "removed"]
      \/ fn \in failed' /\ UNCHANGED dockerVars
      \/ /\ fn[1] = "container" /\ UNCHANGED networks
         /\ draining'[a][1] = <<"remove", fn[2]>> /\ Len(draining'[a]) = n
         /\ container' = [container EXCEPT ![fn[2]] = IF @ = "up" THEN "exited" ELSE @]
  <2> HIDE DEF fn, n, rest
  <2>1. CASE draining' = [draining EXCEPT ![a] = << <<"remove", fn[2]>> >> \o rest]
    <3>1. draining'[a] = << <<"remove", fn[2]>> >> \o rest
      BY <2>1, <1>1
    <3> QED
      BY <3>1, <1>3, <1>8
  <2> QED
    BY <2>1, <1>8
<1>10. \/ /\ Len(draining'[a]) = n - 1
          /\ \A i \in 1..(n - 1) : draining'[a][i] = draining[a][i + 1]
       \/ /\ Len(draining'[a]) = n /\ fn[1] = "container"
          /\ draining'[a][1] = <<"remove", fn[2]>>
          /\ \A i \in 2..n : draining'[a][i] = draining[a][i]
  <2> HIDE DEF fn, n, rest
  <2> QED
    BY <1>2, <1>3, <1>5
<1> HIDE DEF fn, n, rest
<1>11. /\ fn \in Cleanup /\ n \in Nat /\ n > 0
  BY <1>2
<1> QED
  BY <1>6, <1>7, <1>9, <1>10, <1>11 DEF fn, n

(* A call leaves every other function pending. *)
LEMMA CallPending ==
  ASSUME TypeOK, NEW a \in Actor, CallCleanup(a),
         NEW k \in Key, NEW fn \in Cleanup, fn # draining[a][1], Pending(fn, k)
  PROVE  Pending(fn, k)'
<1> DEFINE n == Len(draining[a])
<1>1. /\ n \in Nat /\ n > 0 /\ UNCHANGED cleanup /\ failed \subseteq failed'
      /\ \A b \in Actor : b # a => draining'[b] = draining[b]
      /\ \/ /\ Len(draining'[a]) = n - 1
            /\ \A i \in 1..(n - 1) : draining'[a][i] = draining[a][i + 1]
         \/ /\ Len(draining'[a]) = n
            /\ \A i \in 2..n : draining'[a][i] = draining[a][i]
  BY CallEffect DEF CallCleanup
<1>2. CASE \E b \in Actor : \E i \in 1..Len(draining[b]) : draining[b][i] = fn
  <2>1. PICK b \in Actor : \E i \in 1..Len(draining[b]) : draining[b][i] = fn
    BY <1>2
  <2>2. PICK i \in 1..Len(draining[b]) : draining[b][i] = fn
    BY <2>1
  <2>3. CASE b # a
    BY <2>2, <2>3, <1>1 DEF Pending
  <2>4. CASE b = a
    <3>1. i \in 2..n /\ i - 1 \in 1..(n - 1) /\ (i - 1) + 1 = i
      BY <2>2, <2>4, <1>1
    <3>2. \E j \in 1..Len(draining'[a]) : draining'[a][j] = fn
      <4>1. CASE /\ Len(draining'[a]) = n - 1
                 /\ \A j \in 1..(n - 1) : draining'[a][j] = draining[a][j + 1]
        BY <4>1, <3>1, <2>2, <2>4
      <4>2. CASE /\ Len(draining'[a]) = n
                 /\ \A j \in 2..n : draining'[a][j] = draining[a][j]
        <5>1. i \in 1..n
          BY <3>1
        <5> QED
          BY <4>2, <5>1, <3>1, <2>2, <2>4
      <4> QED
        BY <4>1, <4>2, <1>1
    <3> QED
      BY <3>2 DEF Pending
  <2> QED
    BY <2>3, <2>4
<1> QED
  BY <1>1, <1>2 DEF Pending

(* Steps that leave docker and the registry alone keep the invariant when  *)
(* no goroutine skips a registration or the drain of what it registered.   *)
LEMMA QuietDocker ==
  ASSUME TypeOK, DockerOK,
         UNCHANGED <<cleanup, draining, networks, container, failed, cwid>>,
         \A r \in Run : WillDrain(r) => WillDrain(r)',
         \A r \in Run : rpc[r] \in {"regnet", "regctr"} => rpc'[r] = rpc[r],
         \A r \in Run : rpc'[r] \in {"regctr", "boot"} => rpc[r] \in {"regctr", "boot"},
         \A a \in Actor : draining[a] # << >> => (Destroying(a) => Destroying(a)')
  PROVE  DockerOK'
<1>1. RegistryOK'
  <2>1. ASSUME NEW a \in Actor, NEW i \in 1..Len(draining[a])
        PROVE  Destroying(a)' /\ Belongs(draining[a][i], ActorKey(a))
    <3>1. draining[a] # << >>
      BY <2>1
    <3> QED
      BY <3>1 DEF DockerOK, RegistryOK
  <2> QED
    BY <2>1 DEF DockerOK, RegistryOK, ActorKey, Belongs
<1>2. DrainComes'
  BY DEF DockerOK, DrainComes
<1>3. NetworksOK'
  BY DEF DockerOK, NetworksOK, Pending
<1>4. ContainersOK'
  BY DEF DockerOK, ContainersOK, Pending
<1> QED
  BY <1>1, <1>2, <1>3, <1>4 DEF DockerOK

(* Which steps of a goroutine are quiet in this sense. *)
LEMMA QuietRunDocker ==
  ASSUME TypeOK, DockerOK, NEW r \in Run,
         \/ ReportRunning(r) \/ MakeWorkspace(r) \/ BeginStep(r) \/ EndStep(r)
         \/ ReportSetupFailure(r) \/ Finish(r) \/ Expire(r)
  PROVE  DockerOK'
<1>1. UNCHANGED <<cleanup, draining, networks, container, failed, cwid, cpc>>
  BY DEF ReportRunning, MakeWorkspace, BeginStep, EndStep, ReportSetupFailure,
         Finish, Expire, RunFrame, dockerVars, cancelVars
<1>2. /\ \A q \in Run : q # r => rpc'[q] = rpc[q]
      /\ \/ rpc'[r] = rpc[r]
         \/ rpc[r] = "start" /\ rpc'[r] \in {"network", "done"}
         \/ /\ rpc[r] \in {"mkdir", "step", "exec"}
            /\ rpc'[r] \in {"unwind", "step", "exec", "report"}
         \/ /\ rpc[r] \in {"unwinding", "destroying"} /\ draining[r] = << >>
            /\ rpc'[r] = "done"
  <2> DEFINE Ok(l) == \/ rpc[r] = "start" /\ l \in {"network", "done"}
                      \/ /\ rpc[r] \in {"mkdir", "step", "exec"}
                         /\ l \in {"unwind", "step", "exec", "report"}
                      \/ /\ rpc[r] \in {"unwinding", "destroying"} /\ draining[r] = << >>
                         /\ l = "done"
  <2>1. ASSUME NEW l \in RunState, Goto(r, l), Ok(l)
        PROVE  (\A q \in Run : q # r => rpc'[q] = rpc[q]) /\ Ok(rpc'[r])
    BY <2>1 DEF Goto, TypeOK
  <2>2. CASE Expire(r)
    BY <2>2 DEF Expire
  <2>3. CASE ~ Expire(r)
    <3>1. \E l \in RunState : Goto(r, l) /\ Ok(l)
      BY <2>3 DEF ReportRunning, MakeWorkspace, SetupFails, BeginStep, EndStep, Report,
                  ReportSetupFailure, Finish, RunState
    <3> QED
      BY <3>1, <2>1
  <2> QED
    BY <2>2, <2>3
<1>3. \A q \in Run : WillDrain(q) => WillDrain(q)'
  BY <1>2 DEF WillDrain
<1>4. \A a \in Actor : draining[a] # << >> => (Destroying(a) => Destroying(a)')
  BY <1>1, <1>2 DEF Destroying
<1> QED
  BY <1>1, <1>2, <1>3, <1>4, QuietDocker

(* Delivery steps never touch a goroutine that runs. *)
LEMMA DeliveryDocker ==
  ASSUME TypeOK, SchedOK, DockerOK,
         \/ \E d \in Delivery : Receive(d) \/ DeliveryStep(d) \/ JobDone(d)
         \/ StartWorkflows
  PROVE  DockerOK'
<1>1. UNCHANGED <<cleanup, draining, networks, container, failed, cwid, cpc>>
  BY DEF Receive, DeliveryStep, Admit, Enqueue, JobDone, StartWorkflows, dockerVars, cancelVars
<1>2. \A r \in Run : rpc'[r] = rpc[r] \/ (rpc[r] = "off" /\ rpc'[r] = "start")
  <2>1. CASE StartWorkflows
    <3> DEFINE d == Head(queue)
    <3>1. /\ queue # << >>
          /\ rpc' = [r \in Run |-> IF r[1] = d /\ r[2] \in built[d] THEN "start" ELSE rpc[r]]
      BY <2>1 DEF StartWorkflows
    <3>2. d = queue[1] /\ 1 \in 1..Len(queue)
      BY <3>1 DEF TypeOK
    <3> HIDE DEF d
    <3>3. \A r \in Run : r[1] = d => rpc[r] = "off"
      BY <3>2 DEF SchedOK, RunsOK, Queued
    <3> QED
      BY <3>1, <3>3
  <2>2. CASE \E d \in Delivery : Receive(d) \/ DeliveryStep(d) \/ JobDone(d)
    BY <2>2 DEF Receive, DeliveryStep, Admit, Enqueue, JobDone, runVars
  <2> QED
    BY <2>1, <2>2
<1>3. \A q \in Run : WillDrain(q) => WillDrain(q)'
  BY <1>2 DEF WillDrain
<1>4. \A a \in Actor : draining[a] # << >> => (Destroying(a) => Destroying(a)')
  BY <1>1, <1>2 DEF Destroying
<1> QED
  BY <1>1, <1>2, <1>3, <1>4, QuietDocker

(* So does the end of a cancel request. *)
LEMMA ReportCancelledDocker ==
  ASSUME TypeOK, DockerOK, NEW c \in Canceller, ReportCancelled(c)
  PROVE  DockerOK'
<1>1. UNCHANGED <<cleanup, draining, networks, container, failed, cwid, rpc>>
  BY DEF ReportCancelled, dockerVars, runVars
<1>2. draining[c] = << >> /\ \A b \in Canceller : b # c => cpc'[b] = cpc[b]
  BY DEF ReportCancelled, TypeOK
<1>3. \A q \in Run : WillDrain(q) => WillDrain(q)'
  BY <1>1 DEF WillDrain
<1>4. \A a \in Actor : draining[a] # << >> => (Destroying(a) => Destroying(a)')
  BY <1>1, <1>2 DEF Destroying, Actor
<1> QED
  BY <1>1, <1>3, <1>4, QuietDocker

(* A created network awaits its registration. *)
LEMMA NetworkCreateDocker ==
  ASSUME TypeOK, DockerOK, NEW r \in Run, NetworkCreate(r)
  PROVE  DockerOK'
<1> DEFINE k == RunKey(r)
<1>1. /\ rpc[r] = "network"
      /\ \A q \in Run : q # r => rpc'[q] = rpc[q]
      /\ \/ networks' = networks \cup {k} /\ rpc'[r] = "regnet"
         \/ networks' = networks /\ rpc'[r] = "unwind"
      /\ UNCHANGED <<cleanup, draining, container, failed, cwid, cpc>>
  BY DEF NetworkCreate, SetupFails, Goto, TypeOK, RunFrame, cancelVars, RunKey
<1>2. RegistryOK'
  <2>1. \A a \in Actor : Destroying(a) => Destroying(a)'
    BY <1>1 DEF Destroying
  <2> QED
    BY <1>1, <2>1 DEF DockerOK, RegistryOK, ActorKey, Belongs
<1>3. DrainComes'
  <2>1. \A q \in Run : WillDrain(q) => WillDrain(q)'
    BY <1>1 DEF WillDrain
  <2> QED
    BY <1>1, <2>1 DEF DockerOK, DrainComes
<1>4. NetworksOK'
  <2> SUFFICES ASSUME NEW l \in networks'
               PROVE  \/ \E q \in Run : RunKey(q) = l /\ rpc'[q] = "regnet"
                      \/ Pending(<<"network", l>>, l)
    BY <1>1 DEF NetworksOK, Pending
  <2>1. CASE l \in networks
    BY <2>1, <1>1 DEF DockerOK, NetworksOK
  <2>2. CASE l \notin networks
    BY <2>2, <1>1
  <2> QED
    BY <2>1, <2>2
<1>5. ContainersOK'
  BY <1>1 DEF DockerOK, ContainersOK, Pending
<1> QED
  BY <1>2, <1>3, <1>4, <1>5 DEF DockerOK

(* A container is created or started by the goroutine it belongs to. *)
LEMMA ContainerStepDocker ==
  ASSUME TypeOK, DockerOK, NEW r \in Run, ContainerCreate(r) \/ ContainerStart(r)
  PROVE  DockerOK'
<1>1. /\ \/ /\ rpc[r] = "image" /\ container'[r] = "created" /\ rpc'[r] = "regctr"
         \/ /\ rpc[r] = "boot" /\ container[r] # "removed"
            /\ container'[r] = "up" /\ rpc'[r] = "mkdir"
         \/ /\ rpc[r] \in {"image", "boot"} /\ container'[r] = container[r]
            /\ rpc'[r] = "unwind"
      /\ \A q \in Run : q # r => rpc'[q] = rpc[q] /\ container'[q] = container[q]
      /\ UNCHANGED <<cleanup, draining, networks, failed, cwid, cpc>>
  <2>1. UNCHANGED <<cleanup, draining, networks, failed, cwid, cpc>>
    BY DEF ContainerCreate, ContainerStart, RunFrame, cancelVars
  <2>2. CASE ContainerCreate(r)
    BY <2>1, <2>2 DEF ContainerCreate, SetupFails, Goto, TypeOK
  <2>3. CASE ContainerStart(r)
    BY <2>1, <2>3 DEF ContainerStart, SetupFails, Goto, TypeOK
  <2> QED
    BY <2>2, <2>3
<1>2. RegistryOK'
  <2>1. \A a \in Actor : Destroying(a) => Destroying(a)'
    BY <1>1 DEF Destroying
  <2> QED
    BY <1>1, <2>1 DEF DockerOK, RegistryOK, ActorKey, Belongs
<1>3. DrainComes'
  <2>1. \A q \in Run : WillDrain(q) => WillDrain(q)'
    BY <1>1 DEF WillDrain
  <2> QED
    BY <1>1, <2>1 DEF DockerOK, DrainComes
<1>4. NetworksOK'
  <2>1. \A q \in Run : rpc[q] = "regnet" => rpc'[q] = "regnet"
    BY <1>1
  <2> QED
    BY <1>1, <2>1 DEF DockerOK, NetworksOK, Pending
<1>5. ContainersOK'
  <2>1. ASSUME NEW q \in Run, container'[q] \in {"created", "up", "exited"}
        PROVE  \/ rpc'[q] = "regctr"
               \/ Pending(<<"container", q>>, RunKey(q))
               \/ Pending(<<"remove", q>>, RunKey(q))
    <3>1. CASE q # r \/ rpc'[r] # "regctr"
      <4>1. container[q] \in {"created", "up", "exited"}
        BY <1>1, <2>1, <3>1 DEF DockerOK, ContainersOK, TypeOK
      <4> QED
        BY <4>1, <1>1, <3>1 DEF DockerOK, ContainersOK
    <3> QED
      BY <3>1
  <2>2. ASSUME NEW q \in Run, rpc'[q] \in {"regctr", "boot"}
        PROVE  container'[q] # "none"
    BY <1>1, <2>2 DEF DockerOK, ContainersOK
  <2> QED
    BY <1>1, <2>1, <2>2 DEF ContainersOK, Pending
<1> QED
  BY <1>2, <1>3, <1>4, <1>5 DEF DockerOK

(* A registration turns a resource about to be registered into one with a  *)
(* pending cleanup, and the goroutine will drain it.                       *)
LEMMA RegisterDocker ==
  ASSUME TypeOK, DockerOK, NEW r \in Run, RegisterNetwork(r) \/ RegisterContainer(r)
  PROVE  DockerOK'
<1> DEFINE k0 == RunKey(r)
<1>a. \E fn \in {<<"network", k0>>, <<"container", r>>} :
        /\ rpc[r] = "regnet" => fn = <<"network", k0>>
        /\ rpc[r] = "regctr" => fn = <<"container", r>>
  OBVIOUS
<1>b. PICK fn0 \in {<<"network", k0>>, <<"container", r>>} :
        /\ rpc[r] = "regnet" => fn0 = <<"network", k0>>
        /\ rpc[r] = "regctr" => fn0 = <<"container", r>>
  BY <1>a
<1>1. /\ cleanup' = [cleanup EXCEPT ![k0] = Append(@, fn0)]
      /\ \A q \in Run : q # r => rpc'[q] = rpc[q]
      /\ \/ rpc[r] = "regnet" /\ rpc'[r] = "image"
         \/ rpc[r] = "regctr" /\ rpc'[r] = "boot"
      /\ UNCHANGED <<draining, networks, container, failed, cwid, cpc>>
  BY <1>b DEF RegisterNetwork, RegisterContainer, RegisterCleanup, Goto, TypeOK, RunFrame,
         cancelVars, dockerVars, RunKey
<1>2. k0 \in Key /\ fn0 \in Cleanup /\ Belongs(fn0, k0)
  BY <1>b, KeysOfRuns DEF Cleanup, Belongs
<1>3. /\ Pending(fn0, k0)'
      /\ \A k \in Key, fn \in Cleanup : Pending(fn, k) => Pending(fn, k)'
      /\ \A k \in Key : k # k0 => cleanup'[k] = cleanup[k]
      /\ \A i \in 1..Len(cleanup'[k0]) :
           \/ cleanup'[k0][i] = fn0
           \/ i \in 1..Len(cleanup[k0]) /\ cleanup'[k0][i] = cleanup[k0][i]
  <2> HIDE DEF k0
  <2> QED
    BY <1>1, <1>2, RegisterPending
<1>6. RegistryOK'
  <2>1. \A k \in Key : \A i \in 1..Len(cleanup'[k]) : Belongs(cleanup'[k][i], k)
    <3> SUFFICES ASSUME NEW k \in Key, NEW i \in 1..Len(cleanup'[k])
                 PROVE  Belongs(cleanup'[k][i], k)
      OBVIOUS
    <3>1. CASE k = k0
      BY <3>1, <1>2, <1>3 DEF DockerOK, RegistryOK
    <3>2. CASE k # k0
      BY <3>2, <1>3 DEF DockerOK, RegistryOK
    <3> QED
      BY <3>1, <3>2
  <2>2. \A a \in Actor : Destroying(a) => Destroying(a)'
    BY <1>1 DEF Destroying
  <2>3. \A a \in Actor : \A i \in 1..Len(draining[a]) :
          Destroying(a)' /\ Belongs(draining[a][i], ActorKey(a))
    BY <2>2 DEF DockerOK, RegistryOK
  <2> QED
    BY <1>1, <2>1, <2>3 DEF RegistryOK, ActorKey, Belongs
<1>7. DrainComes'
  <2>1. \A q \in Run : WillDrain(q) => WillDrain(q)'
    BY <1>1 DEF WillDrain
  <2>2. WillDrain(r)'
    BY <1>1 DEF WillDrain
  <2> QED
    BY <1>3, <2>1, <2>2 DEF DockerOK, DrainComes
<1>8. NetworksOK'
  <2> SUFFICES ASSUME NEW k \in networks
               PROVE  \/ \E q \in Run : RunKey(q) = k /\ rpc'[q] = "regnet"
                      \/ Pending(<<"network", k>>, k)'
    BY <1>1 DEF NetworksOK
  <2>1. k \in Key /\ <<"network", k>> \in Cleanup
    BY DEF TypeOK, Cleanup
  <2>2. CASE Pending(<<"network", k>>, k)
    BY <2>1, <2>2, <1>3
  <2>3. ASSUME NEW q \in Run, RunKey(q) = k, rpc[q] = "regnet"
        PROVE  \/ RunKey(q) = k /\ rpc'[q] = "regnet"
               \/ Pending(<<"network", k>>, k)'
    BY <2>3, <1>1, <1>3, <1>b
  <2> QED
    BY <2>2, <2>3 DEF DockerOK, NetworksOK
<1>9. ContainersOK'
  <2>1. ASSUME NEW q \in Run, container[q] \in {"created", "up", "exited"}
        PROVE  \/ rpc'[q] = "regctr"
               \/ Pending(<<"container", q>>, RunKey(q))'
               \/ Pending(<<"remove", q>>, RunKey(q))'
    <3>1. RunKey(q) \in Key /\ <<"container", q>> \in Cleanup /\ <<"remove", q>> \in Cleanup
      BY KeysOfRuns DEF Cleanup
    <3>2. \/ rpc[q] = "regctr"
          \/ Pending(<<"container", q>>, RunKey(q))
          \/ Pending(<<"remove", q>>, RunKey(q))
      BY <2>1 DEF DockerOK, ContainersOK
    <3>3. CASE rpc[q] = "regctr"
      BY <3>3, <1>1, <1>3, <1>b
    <3> QED
      BY <3>1, <3>2, <3>3, <1>3
  <2>2. ASSUME NEW q \in Run, rpc'[q] \in {"regctr", "boot"}
        PROVE  container[q] # "none"
    BY <1>1, <2>2 DEF DockerOK, ContainersOK
  <2> QED
    BY <1>1, <2>1, <2>2 DEF ContainersOK
<1> QED
  BY <1>6, <1>7, <1>8, <1>9 DEF DockerOK

(* The start of DestroyWorkflow: the actor takes over what is registered   *)
(* under its key, so that goroutines of the key have nothing to drain.     *)
LEMMA DrainDocker ==
  ASSUME TypeOK, DockerOK, NEW a \in Actor, ~ Destroying(a), Drain(a, ActorKey(a)),
         UNCHANGED <<networks, container, failed, cwid>>,
         Destroying(a)', \A b \in Actor : Destroying(b) => Destroying(b)',
         \A r \in Run : r # a => rpc'[r] = rpc[r],
         a \in Run => rpc[a] \in {"unwind", "report"} /\ RunKey(a) = ActorKey(a),
         ActorKey(a) \in Key
  PROVE  DockerOK'
<1> DEFINE k0 == ActorKey(a)
<1>1. draining[a] = << >>
  BY NothingLeft DEF DockerOK
<1>2. /\ \A b \in Actor : draining'[b] = IF b = a THEN cleanup[k0] ELSE draining[b]
      /\ \A l \in Key : cleanup'[l] = IF l = k0 THEN << >> ELSE cleanup[l]
  BY DrainType
<1>3. \A k \in Key, fn \in Cleanup : Pending(fn, k) => Pending(fn, k)'
  BY <1>1, DrainPending
<1>4. \A r \in Run : r = a => rpc'[r] \in {"unwinding", "destroying"}
  BY DEF Destroying
<1>5. RegistryOK'
  <2>1. \A k \in Key : \A i \in 1..Len(cleanup'[k]) : Belongs(cleanup'[k][i], k)
    BY <1>2 DEF DockerOK, RegistryOK
  <2>2. \A b \in Actor : \A i \in 1..Len(draining'[b]) :
          Destroying(b)' /\ Belongs(draining'[b][i], ActorKey(b))
    BY <1>2 DEF DockerOK, RegistryOK
  <2> QED
    BY <2>1, <2>2 DEF RegistryOK, ActorKey, Belongs
<1>6. DrainComes'
  <2> SUFFICES ASSUME NEW k \in Key, cleanup'[k] # << >>
               PROVE  \E r \in Run : RunKey(r) = k /\ WillDrain(r)'
    BY DEF DrainComes
  <2>1. k # k0 /\ cleanup[k] # << >>
    BY <1>2
  <2>2. PICK r \in Run : RunKey(r) = k /\ WillDrain(r)
    BY <2>1 DEF DockerOK, DrainComes
  <2>3. r # a
    BY <2>1, <2>2
  <2> QED
    BY <2>2, <2>3 DEF WillDrain
<1>7. NetworksOK'
  <2> SUFFICES ASSUME NEW k \in networks
               PROVE  \/ \E q \in Run : RunKey(q) = k /\ rpc'[q] = "regnet"
                      \/ Pending(<<"network", k>>, k)'
    BY DEF NetworksOK
  <2>1. k \in Key /\ <<"network", k>> \in Cleanup
    BY DEF TypeOK, Cleanup
  <2>2. CASE Pending(<<"network", k>>, k)
    BY <2>1, <2>2, <1>3
  <2>3. \A q \in Run : rpc[q] = "regnet" => rpc'[q] = "regnet"
    OBVIOUS
  <2> QED
    BY <2>2, <2>3 DEF DockerOK, NetworksOK
<1>8. ContainersOK'
  <2>1. ASSUME NEW q \in Run, container[q] \in {"created", "up", "exited"}
        PROVE  \/ rpc'[q] = "regctr"
               \/ Pending(<<"container", q>>, RunKey(q))'
               \/ Pending(<<"remove", q>>, RunKey(q))'
    <3>1. RunKey(q) \in Key /\ <<"container", q>> \in Cleanup /\ <<"remove", q>> \in Cleanup
      BY KeysOfRuns DEF Cleanup
    <3>2. \/ rpc[q] = "regctr"
          \/ Pending(<<"container", q>>, RunKey(q))
          \/ Pending(<<"remove", q>>, RunKey(q))
      BY <2>1 DEF DockerOK, ContainersOK
    <3>3. rpc[q] = "regctr" => rpc'[q] = "regctr"
      OBVIOUS
    <3> QED
      BY <3>1, <3>2, <3>3, <1>3
  <2>2. ASSUME NEW q \in Run, rpc'[q] \in {"regctr", "boot"}
        PROVE  container[q] # "none"
    BY <1>4, <2>2 DEF DockerOK, ContainersOK
  <2> QED
    BY <2>1, <2>2 DEF ContainersOK
<1> QED
  BY <1>5, <1>6, <1>7, <1>8 DEF DockerOK

(* The three actions that start DestroyWorkflow. *)
LEMMA DestroyDocker ==
  ASSUME TypeOK, DockerOK,
         \/ \E r \in Run : Unwind(r) \/ ReportVerdict(r)
         \/ \E c \in Canceller : CancelPipeline(c)
  PROVE  DockerOK'
<1>1. ASSUME NEW r \in Run, Unwind(r) \/ ReportVerdict(r) PROVE DockerOK'
  <2>1. /\ rpc[r] \in {"unwind", "report"} /\ rpc'[r] \in {"unwinding", "destroying"}
        /\ \A q \in Run : q # r => rpc'[q] = rpc[q]
        /\ Drain(r, RunKey(r))
        /\ UNCHANGED <<networks, container, failed, cwid, cpc>>
    BY <1>1 DEF Unwind, ReportVerdict, Goto, TypeOK, RunFrame, cancelVars, dockerVars, RunKey
  <2>2. r \in Actor /\ RunKey(r) = ActorKey(r) /\ ActorKey(r) \in Key
    BY KeysOfRuns DEF ActorKey
  <2>3. ~ Destroying(r) /\ Destroying(r)' /\ \A b \in Actor : Destroying(b) => Destroying(b)'
    BY <2>1 DEF Destroying
  <2>4. Drain(r, ActorKey(r))
    BY <2>1, <2>2
  <2> QED
    BY <2>1, <2>2, <2>3, <2>4, DrainDocker
<1>2. ASSUME NEW c \in Canceller, CancelPipeline(c) PROVE DockerOK'
  <2>1. /\ cpc[c] = "idle" /\ cpc'[c] = "destroying"
        /\ \A b \in Canceller : b # c => cpc'[b] = cpc[b]
        /\ Drain(c, KeyOf(cwid[c]))
        /\ UNCHANGED <<networks, container, failed, cwid, rpc>>
    BY <1>2 DEF CancelPipeline, TypeOK, dockerVars, runVars
  <2>2. c \in Actor /\ c \notin Run /\ KeyOf(cwid[c]) = ActorKey(c) /\ ActorKey(c) \in Key
    BY KeysOfRuns DEF ActorKey, TypeOK
  <2>3. ~ Destroying(c) /\ Destroying(c)' /\ \A b \in Actor : Destroying(b) => Destroying(b)'
    BY <2>1, <2>2 DEF Destroying, Actor
  <2>4. Drain(c, ActorKey(c))
    BY <2>1, <2>2
  <2> QED
    BY <2>1, <2>2, <2>3, <2>4, DrainDocker
<1> QED
  BY <1>1, <1>2

(* A cleanup call removes its resource, or the resource stays pending or   *)
(* is noted as failed.                                                     *)
LEMMA CallDocker ==
  ASSUME TypeOK, DockerOK, NEW a \in Actor, CallCleanup(a)
  PROVE  DockerOK'
<1> DEFINE fn == draining[a][1]
           n == Len(draining[a])
<1>1. /\ fn \in Cleanup /\ n \in Nat /\ n > 0
      /\ \A b \in Actor : b # a => draining'[b] = draining[b]
      /\ failed \subseteq failed'
  BY CallEffect
<1>2. \/ /\ fn[1] = "network"
         /\ networks' = networks \ {fn[2]} /\ UNCHANGED container
      \/ /\ fn[1] = "remove" /\ UNCHANGED networks
         /\ container' = [container EXCEPT ![fn[2]] = "removed"]
      \/ fn \in failed' /\ UNCHANGED dockerVars
      \/ /\ fn[1] = "container" /\ UNCHANGED networks
         /\ draining'[a][1] = <<"remove", fn[2]>> /\ Len(draining'[a]) = n
         /\ container' = [container EXCEPT ![fn[2]] = IF @ = "up" THEN "exited" ELSE @]
  BY CallEffect
<1>3. \/ /\ Len(draining'[a]) = n - 1
         /\ \A i \in 1..(n - 1) : draining'[a][i] = draining[a][i + 1]
      \/ /\ Len(draining'[a]) = n /\ fn[1] = "container"
         /\ draining'[a][1] = <<"remove", fn[2]>>
         /\ \A i \in 2..n : draining'[a][i] = draining[a][i]
  BY CallEffect
<1>4. UNCHANGED <<cleanup, rpc, cwid, cpc>>
  BY DEF CallCleanup, runVars, cancelVars
<1>5. \A k \in Key, f \in Cleanup : f # fn /\ Pending(f, k) => Pending(f, k)'
  BY CallPending
<1> HIDE DEF fn, n
<1>6. RegistryOK'
  <2>1. \A i \in 1..n : Destroying(a) /\ Belongs(draining[a][i], ActorKey(a))
    BY DEF n, DockerOK, RegistryOK
  <2>2. \A i \in 1..Len(draining'[a]) : Destroying(a) /\ Belongs(draining'[a][i], ActorKey(a))
    <3>1. CASE /\ Len(draining'[a]) = n - 1
               /\ \A i \in 1..(n - 1) : draining'[a][i] = draining[a][i + 1]
      <4>1. \A i \in 1..(n - 1) : i + 1 \in 1..n
        BY <1>1
      <4> QED
        BY <3>1, <4>1, <2>1, <1>1
    <3>2. CASE /\ Len(draining'[a]) = n /\ fn[1] = "container"
               /\ draining'[a][1] = <<"remove", fn[2]>>
               /\ \A i \in 2..n : draining'[a][i] = draining[a][i]
      <4>1. Destroying(a) /\ Belongs(fn, ActorKey(a))
        BY <1>1, <2>1 DEF fn
      <4>2. Belongs(<<"remove", fn[2]>>, ActorKey(a))
        BY <4>1, <3>2 DEF Belongs
      <4>3. \A i \in 1..n : i = 1 \/ i \in 2..n
        BY <1>1
      <4> QED
        BY <3>2, <4>1, <4>2, <4>3, <2>1
    <3> QED
      BY <3>1, <3>2, <1>3
  <2>3. \A b \in Actor : \A i \in 1..Len(draining'[b]) :
          Destroying(b) /\ Belongs(draining'[b][i], ActorKey(b))
    BY <1>1, <2>2 DEF DockerOK, RegistryOK
  <2>4. \A b \in Actor : Destroying(b)' = Destroying(b) /\ ActorKey(b)' = ActorKey(b)
    BY <1>4 DEF Destroying, ActorKey
  <2> QED
    BY <1>4, <2>3, <2>4 DEF DockerOK, RegistryOK, Belongs
<1>7. DrainComes'
  BY <1>4 DEF DockerOK, DrainComes, WillDrain
<1>8. NetworksOK'
  <2> SUFFICES ASSUME NEW k \in networks'
               PROVE  \/ \E q \in Run : RunKey(q) = k /\ rpc[q] = "regnet"
                      \/ Pending(<<"network", k>>, k)'
    BY <1>4 DEF NetworksOK
  <2>1. k \in networks
    BY <1>2 DEF dockerVars
  <2>2. k \in Key /\ <<"network", k>> \in Cleanup
    BY <2>1 DEF TypeOK, Cleanup
  <2>3. CASE fn = <<"network", k>>
    <3>1. fn \in failed'
      BY <1>2, <2>3 DEF dockerVars
    <3> QED
      BY <3>1, <2>3 DEF Pending
  <2>4. CASE fn # <<"network", k>>
    BY <2>1, <2>2, <2>4, <1>5 DEF DockerOK, NetworksOK
  <2> QED
    BY <2>3, <2>4
<1>9. ContainersOK'
  <2> SUFFICES ASSUME NEW q \in Run
               PROVE  /\ container'[q] \in {"created", "up", "exited"} =>
                           \/ rpc[q] = "regctr"
                           \/ Pending(<<"container", q>>, RunKey(q))'
                           \/ Pending(<<"remove", q>>, RunKey(q))'
                      /\ rpc[q] \in {"regctr", "boot"} => container'[q] # "none"
    BY <1>4 DEF ContainersOK
  <2>1. /\ container'[q] = "none" => container[q] = "none"
        /\ container'[q] \in {"created", "up", "exited"} =>
             container[q] \in {"created", "up", "exited"} /\ (fn = <<"remove", q>> => fn \in failed')
    BY <1>2 DEF dockerVars, TypeOK
  <2>2. RunKey(q) \in Key /\ <<"container", q>> \in Cleanup /\ <<"remove", q>> \in Cleanup
    BY KeysOfRuns DEF Cleanup
  <2>3. ASSUME container'[q] \in {"created", "up", "exited"}
        PROVE  \/ rpc[q] = "regctr"
               \/ Pending(<<"container", q>>, RunKey(q))'
               \/ Pending(<<"remove", q>>, RunKey(q))'
    <3>1. \/ rpc[q] = "regctr"
          \/ Pending(<<"container", q>>, RunKey(q))
          \/ Pending(<<"remove", q>>, RunKey(q))
      BY <2>1, <2>3 DEF DockerOK, ContainersOK
    <3>2. CASE fn = <<"remove", q>>
      BY <3>2, <2>1, <2>3 DEF Pending
    <3>3. CASE fn = <<"container", q>>
      <4>1. CASE fn \in failed'
        BY <3>3, <4>1 DEF Pending
      <4>2. CASE draining'[a][1] = <<"remove", fn[2]>> /\ Len(draining'[a]) = n
        <5>1. 1 \in 1..Len(draining'[a]) /\ draining'[a][1] = <<"remove", q>>
          BY <4>2, <3>3, <1>1
        <5> QED
          BY <5>1 DEF Pending
      <4> QED
        BY <3>3, <4>1, <4>2, <1>2
    <3>4. CASE fn # <<"remove", q>> /\ fn # <<"container", q>>
      BY <3>1, <3>4, <2>2, <1>5
    <3> QED
      BY <3>2, <3>3, <3>4
  <2> QED
    BY <2>1, <2>3 DEF DockerOK, ContainersOK
<1> QED
  BY <1>6, <1>7, <1>8, <1>9 DEF DockerOK

----------------------------------------------------------------------------
(***************************************************************************)
(* Steps and statuses.                                                     *)
(***************************************************************************)

(* A goroutine's own labels. *)
LEMMA RunSteps ==
  ASSUME TypeOK, StepsOK, NEW r \in Run, RunStep(r) \/ Expire(r)
  PROVE  StepsOK'
<1>1. \A q \in Run : q # r => rpc'[q] = rpc[q]
  BY RunMoves
<1>2. \A q \in Run : q # r => step'[q] = step[q] /\ verdict'[q] = verdict[q]
  BY DEF RunStep, ReportRunning, NetworkCreate, RegisterNetwork, ContainerCreate,
         RegisterContainer, RegisterCleanup, ContainerStart, MakeWorkspace, BeginStep,
         EndStep, Report, Unwind, ReportVerdict, ReportSetupFailure, Finish, Expire, TypeOK
<1>3. /\ rpc'[r] = "exec" => step'[r] < NumSteps
      /\ rpc'[r] = "report" => verdict'[r] \in FinishStates
  <2> USE DEF Goto, TypeOK
  <2>1. CASE BeginStep(r)
    BY <2>1 DEF BeginStep, Report, FinishStates
  <2>2. CASE EndStep(r)
    BY <2>2 DEF EndStep, Report, FinishStates
  <2>3. CASE Expire(r)
    BY <2>3 DEF Expire, StepsOK
  <2>4. CASE ReportRunning(r) \/ NetworkCreate(r)
    BY <2>4 DEF ReportRunning, NetworkCreate, SetupFails
  <2>5. CASE RegisterNetwork(r) \/ RegisterContainer(r)
    BY <2>5 DEF RegisterNetwork, RegisterContainer, RegisterCleanup
  <2>6. CASE ContainerCreate(r) \/ ContainerStart(r) \/ MakeWorkspace(r)
    BY <2>6 DEF ContainerCreate, ContainerStart, MakeWorkspace, SetupFails
  <2>7. CASE Unwind(r) \/ ReportVerdict(r) \/ ReportSetupFailure(r) \/ Finish(r)
    BY <2>7 DEF Unwind, ReportVerdict, ReportSetupFailure, Finish
  <2> QED
    BY <2>1, <2>2, <2>3, <2>4, <2>5, <2>6, <2>7 DEF RunStep
<1> QED
  BY <1>1, <1>2, <1>3 DEF StepsOK

(* Every other step leaves the labels that matter here. *)
LEMMA OtherSteps ==
  ASSUME TypeOK, StepsOK,
         \/ \E d \in Delivery : Receive(d) \/ DeliveryStep(d) \/ JobDone(d)
         \/ StartWorkflows
         \/ \E a \in Actor : CallCleanup(a)
         \/ \E c \in Canceller : CancelPipeline(c) \/ ReportCancelled(c)
  PROVE  StepsOK'
<1>1. UNCHANGED <<step, verdict>> /\ \A r \in Run : rpc'[r] \in {"exec", "report"} => rpc'[r] = rpc[r]
  BY DEF Receive, DeliveryStep, Admit, Enqueue, JobDone, StartWorkflows, CallCleanup,
         CancelPipeline, ReportCancelled, runVars
<1> QED
  BY <1>1 DEF StepsOK

(* The latest status of each workflow after one was emitted, or not. *)
LEMMA EmitLatest ==
  ASSUME TypeOK, NEW w \in Wid, NEW k \in StatusKind, Emit(w, k) \/ EmitFails(w)
  PROVE  /\ \A v \in Wid \ unsaved' : v \notin unsaved
         /\ \A v \in Wid \ unsaved' :
              Latest(v)' = IF v = w THEN k ELSE Latest(v)
<1>1. status \in [Wid -> Seq(StatusKind)]
  BY DEF TypeOK
<1>2. CASE Emit(w, k)
  <2>1. status'[w] = Append(status[w], k) /\ \A v \in Wid : v # w => status'[v] = status[v]
    BY <1>1, <1>2 DEF Emit
  <2>2. status'[w] # << >> /\ status'[w][Len(status'[w])] = k
    BY <1>1, <2>1
  <2> QED
    BY <1>2, <2>1, <2>2 DEF Emit, Latest
<1>3. CASE EmitFails(w)
  BY <1>3 DEF EmitFails, Latest
<1> QED
  BY <1>2, <1>3

(* Debts move only when a goroutine reports its verdict or ends. *)
LEMMA OwedFrame ==
  ASSUME TypeOK, StatusOwed, UNCHANGED statusVars,
         \A r \in Run : Owes(r) => Owes(r)'
  PROVE  StatusOwed'
BY DEF StatusOwed, statusVars, Latest

(* Statuses of deliveries: a pending workflow will have a goroutine. *)
LEMMA DeliveryOwed ==
  ASSUME TypeOK, SchedOK, StatusOwed,
         \/ \E d \in Delivery : Receive(d) \/ DeliveryStep(d) \/ JobDone(d)
         \/ StartWorkflows
  PROVE  StatusOwed'
<1>1. CASE \E d \in Delivery : Receive(d) \/ Enqueue(d) \/ JobDone(d)
  <2>1. UNCHANGED <<statusVars, built, rpc>>
    BY <1>1 DEF Receive, Enqueue, JobDone, runVars
  <2> QED
    BY <2>1, OwedFrame DEF Owes
<1>2. CASE StartWorkflows
  <2>1. UNCHANGED <<statusVars, built>> /\ \A r \in Run : rpc'[r] \in {rpc[r], "start"}
    BY <1>2 DEF StartWorkflows
  <2> QED
    BY <2>1, OwedFrame DEF Owes
<1>3. ASSUME NEW d \in Delivery, NEW n \in Name, Admit(d, n) PROVE StatusOwed'
  <2> DEFINE w == <<PipelineOf[d], n>>
             r0 == <<d, n>>
  <2>1. /\ w \in Wid /\ r0 \in Run /\ WidOf(r0) = w /\ r0[1] = d /\ r0[2] = n
    BY SpindleAssumption DEF Wid, Run, WidOf
  <2>2. dpc[d] = "admit" /\ UNCHANGED rpc
    BY <1>3 DEF Admit, runVars
  <2>3. rpc[r0] = "off"
    BY <2>1, <2>2, NotYetQueued
  <2>4. \A r \in Run : Owes(r) => Owes(r)'
    <3>1. UNCHANGED built \/ built' = [built EXCEPT ![d] = @ \cup {n}]
      BY <1>3 DEF Admit
    <3>2. \A e \in Delivery : built[e] \subseteq built'[e]
      BY <3>1 DEF TypeOK
    <3> QED
      BY <2>2, <3>2, KeysOfRuns DEF Owes
  <2>5. \/ Emit(w, "failed")
        \/ Emit(w, "pending") /\ built' = [built EXCEPT ![d] = @ \cup {n}]
        \/ EmitFails(w) \/ UNCHANGED statusVars
    BY <1>3 DEF Admit
  <2>6. "failed" \in StatusKind /\ "pending" \in StatusKind /\ "failed" \notin StartStates
    BY DEF StatusKind, StartStates, FinishStates
  <2> HIDE DEF w, r0
  <2>7. CASE UNCHANGED statusVars
    BY <2>4, <2>7, OwedFrame
  <2>8. ASSUME NEW v \in Wid \ unsaved', Latest(v)' \in StartStates, ~ UNCHANGED statusVars
        PROVE  \E r \in Run : WidOf(r) = v /\ Owes(r)'
    <3>1. CASE v # w
      <4>1. v \notin unsaved /\ Latest(v) \in StartStates
        BY <2>1, <2>5, <2>6, <2>8, <3>1, EmitLatest
      <4> QED
        BY <4>1, <2>4 DEF StatusOwed
    <3>2. CASE v = w
      <4>1. ~ Emit(w, "failed")
        BY <2>1, <2>6, <2>8, <3>2, EmitLatest
      <4>2. CASE EmitFails(w)
        <5>1. w \in unsaved'
          BY <4>2 DEF EmitFails
        <5> QED
          BY <5>1, <3>2, <2>8
      <4>3. CASE built' = [built EXCEPT ![d] = @ \cup {n}]
        <5>1. n \in built'[d]
          BY <4>3 DEF TypeOK
        <5>2. Owes(r0)'
          BY <5>1, <2>1, <2>2, <2>3 DEF Owes
        <5> QED
          BY <5>2, <2>1, <3>2
      <4> QED
        BY <4>1, <4>2, <4>3, <2>5, <2>8
    <3> QED
      BY <3>1, <3>2
  <2> QED
    BY <2>7, <2>8 DEF StatusOwed
<1> QED
  BY <1>1, <1>2, <1>3 DEF DeliveryStep

(* What a goroutine emits, and whether it still owes afterwards. *)
LEMMA RunOwed ==
  ASSUME TypeOK, SchedOK, StepsOK, StatusOwed, NEW r \in Run, RunStep(r) \/ Expire(r)
  PROVE  StatusOwed'
<1>1. /\ UNCHANGED built /\ rpc[r] # "off"
      /\ \A q \in Run : q # r => rpc'[q] = rpc[q]
  BY RunMoves DEF deliveryVars
<1>2. r[2] \in built[r[1]] /\ WidOf(r) \in Wid
  BY <1>1, KeysOfRuns DEF SchedOK, RunsOK
<1>3. \A q \in Run : q # r /\ Owes(q) => Owes(q)'
  BY <1>1 DEF Owes
<1> USE DEF Goto, TypeOK
<1>4. CASE UNCHANGED statusVars /\ (Owes(r) => Owes(r)')
  BY <1>3, <1>4, OwedFrame
<1>5. ASSUME NEW k \in StatusKind, Emit(WidOf(r), k) \/ EmitFails(WidOf(r)),
             k \in FinishStates \/ Owes(r)' \/ EmitFails(WidOf(r))
      PROVE  StatusOwed'
  <2> SUFFICES ASSUME NEW v \in Wid \ unsaved', Latest(v)' \in StartStates
               PROVE  \E q \in Run : WidOf(q) = v /\ Owes(q)'
    BY DEF StatusOwed
  <2>1. v \notin unsaved /\ Latest(v)' = IF v = WidOf(r) THEN k ELSE Latest(v)
    BY <1>2, <1>5, EmitLatest
  <2>2. EmitFails(WidOf(r)) => v # WidOf(r)
    BY DEF EmitFails
  <2>3. StartStates \cap FinishStates = {}
    BY DEF StartStates, FinishStates
  <2>4. CASE v = WidOf(r)
    BY <1>5, <2>1, <2>2, <2>3, <2>4
  <2>5. CASE v # WidOf(r)
    <3>1. PICK q \in Run : WidOf(q) = v /\ Owes(q)
      BY <2>1, <2>5 DEF StatusOwed
    <3>2. q # r
      BY <3>1, <2>5
    <3> QED
      BY <3>1, <3>2, <1>3
  <2> QED
    BY <2>4, <2>5
<1>6. CASE ReportRunning(r)
  <2>1. "running" \in StatusKind
    BY DEF StatusKind, StartStates
  <2>2. CASE Emit(WidOf(r), "running") /\ Goto(r, "network")
    <3>1. Owes(r)'
      BY <1>1, <1>2, <2>2 DEF Owes
    <3> QED
      BY <3>1, <2>1, <2>2, <1>5
  <2>3. CASE EmitFails(WidOf(r))
    BY <2>1, <2>3, <1>5
  <2> QED
    BY <2>2, <2>3, <1>6 DEF ReportRunning
<1>7. CASE ReportVerdict(r)
  <2>1. verdict[r] \in FinishStates
    BY <1>7 DEF ReportVerdict, StepsOK
  <2>2. verdict[r] \in StatusKind
    BY <2>1 DEF StatusKind
  <2> QED
    BY <2>1, <2>2, <1>5, <1>7 DEF ReportVerdict
<1>8. CASE ReportSetupFailure(r)
  <2>1. "failed" \in FinishStates /\ "failed" \in StatusKind
    BY DEF FinishStates, StatusKind
  <2> QED
    BY <2>1, <1>5, <1>8 DEF ReportSetupFailure
<1>9. CASE NetworkCreate(r)
  BY <1>1, <1>2, <1>4, <1>9 DEF NetworkCreate, SetupFails, Owes
<1>10. CASE RegisterNetwork(r) \/ RegisterContainer(r)
  BY <1>1, <1>2, <1>4, <1>10 DEF RegisterNetwork, RegisterContainer, RegisterCleanup, Owes
<1>11. CASE ContainerCreate(r) \/ ContainerStart(r) \/ MakeWorkspace(r)
  BY <1>1, <1>2, <1>4, <1>11 DEF ContainerCreate, ContainerStart, MakeWorkspace, SetupFails, Owes
<1>12. CASE BeginStep(r) \/ EndStep(r)
  BY <1>1, <1>2, <1>4, <1>12 DEF BeginStep, EndStep, Report, Owes
<1>13. CASE Unwind(r) \/ Finish(r)
  BY <1>1, <1>2, <1>4, <1>13 DEF Unwind, Finish, Owes
<1>14. CASE Expire(r)
  BY <1>1, <1>4, <1>14 DEF Expire, Owes
<1> QED
  BY <1>6, <1>7, <1>8, <1>9, <1>10, <1>11, <1>12, <1>13, <1>14 DEF RunStep

(* A cancel request reports a final status. *)
LEMMA CancelOwed ==
  ASSUME TypeOK, StatusOwed,
         \/ \E a \in Actor : CallCleanup(a)
         \/ \E c \in Canceller : CancelPipeline(c) \/ ReportCancelled(c)
  PROVE  StatusOwed'
<1>1. UNCHANGED <<built, rpc>>
  BY DEF CallCleanup, CancelPipeline, ReportCancelled, deliveryVars, runVars
<1>2. \A r \in Run : Owes(r)' = Owes(r)
  BY <1>1 DEF Owes
<1>3. CASE UNCHANGED statusVars
  BY <1>2, <1>3, OwedFrame
<1>4. ASSUME NEW c \in Canceller, ReportCancelled(c) PROVE StatusOwed'
  <2>1. /\ cwid[c] \in Wid /\ "cancelled" \in StatusKind /\ "cancelled" \notin StartStates
    BY DEF TypeOK, StatusKind, StartStates, FinishStates
  <2>2. Emit(cwid[c], "cancelled") \/ EmitFails(cwid[c])
    BY <1>4 DEF ReportCancelled
  <2>3. EmitFails(cwid[c]) => cwid[c] \in unsaved'
    BY DEF EmitFails
  <2>4. \A v \in Wid \ unsaved' : Latest(v)' \in StartStates =>
          v \notin unsaved /\ Latest(v) \in StartStates
    BY <2>1, <2>2, EmitLatest
  <2> QED
    BY <2>4, <1>2 DEF StatusOwed
<1> QED
  BY <1>3, <1>4 DEF CallCleanup, CancelPipeline

----------------------------------------------------------------------------
(***************************************************************************)
(* The invariant, and the theorems.                                        *)
(***************************************************************************)

(* Every initial state satisfies the invariant. *)
LEMMA InitIInv == Init => IInv
<1> SUFFICES ASSUME Init PROVE IInv
  OBVIOUS
<1> USE SpindleAssumption DEF Init
<1>1. TypeOK
  <2>1. /\ << >> \in Seq(StatusKind) /\ << >> \in Seq(Cleanup) /\ << >> \in Seq(Delivery)
        /\ Len(queue) = 0
    OBVIOUS
  <2> QED
    BY <2>1 DEF TypeOK, RunState
<1>2. SchedOK
  BY KeysOfRuns DEF SchedOK, QueueOK, RunsOK
<1>3. StepsOK
  BY DEF StepsOK
<1>4. DockerOK
  BY DEF DockerOK, RegistryOK, DrainComes, NetworksOK, ContainersOK
<1>5. StatusOwed
  BY DEF StatusOwed, Latest, StartStates
<1> QED
  BY <1>1, <1>2, <1>3, <1>4, <1>5 DEF IInv

(* Every step preserves the invariant. *)
LEMMA NextIInv == IInv /\ [Next]_vars => IInv'
<1> SUFFICES ASSUME IInv, [Next]_vars PROVE IInv'
  OBVIOUS
<1> USE DEF IInv
<1>1. CASE \/ \E d \in Delivery : Receive(d) \/ DeliveryStep(d) \/ JobDone(d)
           \/ StartWorkflows
  <2>1. SchedOK'
    BY <1>1, AdmitSched, EnqueueSched, StartSched, DoneSched DEF DeliveryStep
  <2> QED
    BY <1>1, <2>1, DeliveryType, OtherSteps, DeliveryDocker, DeliveryOwed
<1>2. ASSUME NEW r \in Run, RunStep(r) \/ Expire(r) PROVE IInv'
  <2>1. DockerOK'
    BY <1>2, QuietRunDocker, NetworkCreateDocker, ContainerStepDocker, RegisterDocker,
       DestroyDocker DEF RunStep
  <2> QED
    BY <1>2, <2>1, RunType, RunSched, RunSteps, RunOwed
<1>3. CASE \/ \E a \in Actor : CallCleanup(a)
           \/ \E c \in Canceller : CancelPipeline(c) \/ ReportCancelled(c)
  <2>1. SchedOK'
    <3>1. UNCHANGED <<dpc, built, queue, running, rpc>>
      BY <1>3 DEF CallCleanup, CancelPipeline, ReportCancelled, deliveryVars, runVars
    <3> QED
      BY <3>1, OtherSched
  <2>2. DockerOK'
    BY <1>3, CallDocker, DestroyDocker, ReportCancelledDocker
  <2> QED
    BY <1>3, <2>1, <2>2, CancelType, OtherSteps, CancelOwed
<1>4. CASE UNCHANGED vars
  <2> USE <1>4 DEF vars, deliveryVars, runVars, statusVars, dockerVars, cancelVars
  <2>1. TypeOK' /\ StepsOK'
    BY DEF TypeOK, StepsOK
  <2>2. SchedOK'
    BY OtherSched
  <2>3. DockerOK'
    BY DEF DockerOK, RegistryOK, DrainComes, NetworksOK, ContainersOK, Pending, WillDrain,
           Destroying, ActorKey, Belongs
  <2>4. StatusOwed'
    BY DEF StatusOwed, Latest, Owes
  <2> QED
    BY <2>1, <2>2, <2>3, <2>4
<1> QED
  BY <1>1, <1>2, <1>3, <1>4 DEF Next

(* The invariant holds throughout. *)
LEMMA InvariantHolds == Spec => []IInv
BY InitIInv, NextIInv, PTL DEF Spec

(* Every variable of the runner keeps its type: the queue never exceeds    *)
(* its size, and what a workflow reports is a status.                      *)
THEOREM SpindleTypeCorrect == Spec => []TypeOK
<1>1. IInv => TypeOK
  BY DEF IInv
<1> QED
  BY <1>1, InvariantHolds, PTL

(* No network or container outlives the goroutines and cancel requests of  *)
(* its workflow unless the call that should have removed it failed, for    *)
(* any number of duplicate deliveries, cancels and faults.                 *)
THEOREM NothingLeaks == Spec => []LeakExplained
<1>1. ASSUME IInv PROVE LeakExplained
  <2> USE <1>1 DEF IInv, DockerOK
  <2> SUFFICES ASSUME NEW k \in Key, Quiet(k)
               PROVE  /\ k \in networks => <<"network", k>> \in failed
                      /\ \A r \in Run :
                           RunKey(r) = k /\ container[r] \in {"created", "up", "exited"}
                             => <<"container", r>> \in failed \/ <<"remove", r>> \in failed
    BY DEF LeakExplained, RunKey
  <2>1. \A r \in Run : RunKey(r) = k => rpc[r] \in {"off", "done"}
    BY DEF Quiet, RunKey
  <2>2. 1..Len(cleanup[k]) = {}
    <3>1. cleanup[k] = << >>
      BY <2>1 DEF DrainComes, WillDrain
    <3> QED
      BY <3>1
  <2>3. ASSUME NEW fn, Pending(fn, k), Belongs(fn, k) PROVE fn \in failed
    <3>1. ASSUME NEW a \in Actor, NEW i \in 1..Len(draining[a]), draining[a][i] = fn
          PROVE  FALSE
      <4>1. Destroying(a) /\ Belongs(fn, ActorKey(a))
        BY <3>1 DEF RegistryOK
      <4>2. ActorKey(a) = k
        BY <4>1, <2>3 DEF Belongs
      <4>3. CASE a \in Run
        BY <4>1, <4>2, <4>3, <2>1 DEF Destroying, ActorKey
      <4>4. CASE a \notin Run
        BY <4>1, <4>2, <4>4 DEF Destroying, ActorKey, Actor, Quiet
      <4> QED
        BY <4>3, <4>4
    <3> QED
      BY <2>2, <2>3, <3>1 DEF Pending
  <2>4. k \in networks => <<"network", k>> \in failed
    BY <2>1, <2>3 DEF NetworksOK, Belongs
  <2>5. ASSUME NEW r \in Run, RunKey(r) = k, container[r] \in {"created", "up", "exited"}
        PROVE  <<"container", r>> \in failed \/ <<"remove", r>> \in failed
    BY <2>1, <2>3, <2>5 DEF ContainersOK, Belongs
  <2> QED
    BY <2>4, <2>5
<1> QED
  BY <1>1, InvariantHolds, PTL

(* A workflow whose accepted deliveries have all been run shows a final    *)
(* status, unless the insert of one failed.                                *)
THEOREM WorkflowsSettle == Spec => []SettledIsFinal
<1>1. ASSUME IInv PROVE SettledIsFinal
  <2> USE <1>1 DEF IInv, SchedOK
  <2> SUFFICES ASSUME NEW w \in Wid \ unsaved, status[w] # << >>,
                      \A d \in Delivery : PipelineOf[d] = w[1] => dpc[d] \in {"new", "done"}
               PROVE  Latest(w) \in FinishStates
    BY DEF SettledIsFinal
  <2>1. Latest(w) \in StatusKind
    <3>1. status[w] \in Seq(StatusKind)
      BY DEF TypeOK
    <3>2. status[w][Len(status[w])] \in StatusKind
      BY <3>1
    <3> QED
      BY <3>2 DEF Latest
  <2>2. ASSUME Latest(w) \in StartStates PROVE FALSE
    <3>1. PICK r \in Run : WidOf(r) = w /\ Owes(r)
      BY <2>2 DEF StatusOwed
    <3>2. PipelineOf[r[1]] = w[1] /\ r[1] \in Delivery
      BY <3>1, KeysOfRuns DEF WidOf
    <3> QED
      BY <3>1, <3>2 DEF Owes, RunsOK
  <2> QED
    BY <2>1, <2>2 DEF StatusKind
<1> QED
  BY <1>1, InvariantHolds, PTL
=============================================================================
