------------------------------ MODULE Spindle ------------------------------
(***************************************************************************)
(* The spindle's pipeline runner: processPipeline turns an event of a knot *)
(* into a job of the bounded queue (spindle/server.go, spindle/queue), a   *)
(* worker starts one goroutine per workflow (spindle/engine), each sets up *)
(* docker resources, runs the steps and destroys the resources through the *)
(* engine's cleanup registry (spindle/engines/nixery), and the owner may   *)
(* cancel a workflow at any time (spindle/xrpc).                           *)
(*                                                                         *)
(* A delivery is one call of processPipeline.  The event consumer can      *)
(* deliver the same event twice, so two deliveries may name one pipeline.  *)
(***************************************************************************)
EXTENDS Integers, Sequences, FiniteSets

CONSTANTS
  Delivery,     \* calls of processPipeline
  Pipeline,     \* pipeline ids (knot and rkey)
  PipelineOf,   \* the pipeline each delivery carries
  Name,         \* workflow names
  Normalize,    \* what WorkflowId.String makes of a name
  NumSteps,     \* steps of a workflow
  QueueSize,    \* SPINDLE_SERVER_QUEUE_SIZE
  MaxJobCount,  \* SPINDLE_SERVER_MAX_JOB_COUNT: workers of the queue
  Canceller,    \* cancelPipeline requests
  Fault         \* which calls may fail: a subset of {"db", "docker"}

Wid == Pipeline \X Name
Key == Pipeline \X {Normalize[n] : n \in Name}
Run == Delivery \X Name        \* one goroutine of StartWorkflows
Actor == Run \cup Canceller    \* callers of DestroyWorkflow

ASSUME SpindleAssumption ==
  /\ PipelineOf \in [Delivery -> Pipeline]
  /\ DOMAIN Normalize = Name
  /\ NumSteps \in Nat
  /\ QueueSize \in Nat \ {0}
  /\ MaxJobCount \in Nat \ {0}
  /\ Run \cap Canceller = {}
  /\ Fault \subseteq {"db", "docker"}

StartStates  == {"pending", "running"}
FinishStates == {"failed", "timeout", "cancelled", "success"}
StatusKind   == StartStates \cup FinishStates

WidOf(r) == <<PipelineOf[r[1]], r[2]>>

(* WorkflowId.String: the key of the cleanup registry and the network's name. *)
KeyOf(w) == <<w[1], Normalize[w[2]]>>

(* A cleanup function removes the network of a key, or stops and then      *)
(* removes the container of a run ("remove" once it has been stopped).     *)
Cleanup ==
  ({"network"} \X Key) \cup ({"container"} \X Run) \cup ({"remove"} \X Run)

VARIABLES
  kind,       \* what each workflow of a pipeline record asks for
  dpc,        \* where each delivery is
  todo,       \* workflows of the record the loop has not reached
  built,      \* workflows of the delivery that will be run
  queue,      \* Queue.jobs
  running,    \* deliveries a worker is executing
  rpc,        \* where each workflow goroutine is
  step,       \* its next step
  expired,    \* its context's deadline has passed
  verdict,    \* the status it is about to report
  status,     \* status events of each workflow, oldest first
  cleanup,    \* Engine.cleanup
  draining,   \* cleanup functions an actor has drained and not called yet
  networks,   \* docker: existing networks
  container,  \* docker: state of each run's container
  cpc,        \* where each cancel request is
  cwid,       \* the workflow it names
  failed,     \* history: cleanup functions that returned an error
  unsaved     \* history: workflows one of whose statuses could not be inserted

deliveryVars == <<kind, dpc, todo, built, queue, running>>
runVars      == <<rpc, step, expired, verdict>>
statusVars   == <<status, unsaved>>
dockerVars   == <<networks, container>>
cancelVars   == <<cpc, cwid>>
vars == <<deliveryVars, runVars, statusVars, cleanup, draining, dockerVars, cancelVars, failed>>

RunState ==
  {"off", "start", "network", "regnet", "image", "regctr", "boot", "mkdir",
   "unwind", "unwinding", "step", "exec", "report", "destroying", "done"}

TypeOK ==
  /\ kind \in [Wid -> {"nixery", "unknown", "invalid"}]
  /\ dpc \in [Delivery -> {"new", "admit", "queued", "dropped", "done"}]
  /\ todo \in [Delivery -> SUBSET Name]
  /\ built \in [Delivery -> SUBSET Name]
  /\ queue \in Seq(Delivery) /\ Len(queue) <= QueueSize
  /\ running \in SUBSET Delivery
  /\ rpc \in [Run -> RunState]
  /\ step \in [Run -> 0..NumSteps]
  /\ expired \in [Run -> BOOLEAN]
  /\ verdict \in [Run -> FinishStates \cup {"none"}]
  /\ status \in [Wid -> Seq(StatusKind)]
  /\ cleanup \in [Key -> Seq(Cleanup)]
  /\ draining \in [Actor -> Seq(Cleanup)]
  /\ networks \in SUBSET Key
  /\ container \in [Run -> {"none", "created", "up", "exited", "removed"}]
  /\ cpc \in [Canceller -> {"idle", "destroying", "done"}]
  /\ cwid \in [Canceller -> Wid]
  /\ failed \in SUBSET Cleanup
  /\ unsaved \in SUBSET Wid

Init ==
  /\ kind \in [Wid -> {"nixery", "unknown", "invalid"}]
  /\ dpc = [d \in Delivery |-> "new"]
  /\ todo = [d \in Delivery |-> Name]
  /\ built = [d \in Delivery |-> {}]
  /\ queue = << >>
  /\ running = {}
  /\ rpc = [r \in Run |-> "off"]
  /\ step = [r \in Run |-> 0]
  /\ expired = [r \in Run |-> FALSE]
  /\ verdict = [r \in Run |-> "none"]
  /\ status = [w \in Wid |-> << >>]
  /\ cleanup = [k \in Key |-> << >>]
  /\ draining = [a \in Actor |-> << >>]
  /\ networks = {}
  /\ container = [r \in Run |-> "none"]
  /\ cpc = [c \in Canceller |-> "idle"]
  /\ cwid \in [Canceller -> Wid]
  /\ failed = {}
  /\ unsaved = {}

----------------------------------------------------------------------------
(***************************************************************************)
(* Status events, as the db package emits: the insert lands or fails.     *)
(***************************************************************************)
Emit(w, k) == status' = [status EXCEPT ![w] = Append(@, k)] /\ UNCHANGED unsaved

EmitFails(w) == "db" \in Fault /\ unsaved' = unsaved \cup {w} /\ UNCHANGED status

Latest(w) == IF status[w] = << >> THEN "none" ELSE status[w][Len(status[w])]

(***************************************************************************)
(* processPipeline.                                                        *)
(***************************************************************************)

(* A record that is no pipeline of a known repository of the source knot   *)
(* is refused.                                                             *)
Receive(d) ==
  /\ dpc[d] = "new"
  /\ \E verdictOfFilter \in {"admit", "done"} :
       dpc' = [dpc EXCEPT ![d] = verdictOfFilter]
  /\ UNCHANGED <<kind, todo, built, queue, running, runVars, statusVars, cleanup,
                 draining, dockerVars, cancelVars, failed>>

(* One turn of the loop over the record's workflows.  An unknown engine is *)
(* reported and skipped; a workflow InitWorkflow refuses, or a failed      *)
(* insert, abandons the whole delivery.                                    *)
Admit(d, n) ==
  LET w == <<PipelineOf[d], n>>
  IN  /\ dpc[d] = "admit"
      /\ n \in todo[d]
      /\ todo' = [todo EXCEPT ![d] = @ \ {n}]
      /\ \/ /\ kind[w] = "unknown"
            /\ Emit(w, "failed")
            /\ UNCHANGED <<dpc, built>>
         \/ /\ kind[w] = "nixery"
            /\ Emit(w, "pending")
            /\ built' = [built EXCEPT ![d] = @ \cup {n}]
            /\ UNCHANGED dpc
         \/ /\ \/ kind[w] = "invalid" /\ UNCHANGED statusVars
               \/ EmitFails(w)
            /\ dpc' = [dpc EXCEPT ![d] = "dropped"]
            /\ UNCHANGED built
      /\ UNCHANGED <<kind, queue, running, runVars, cleanup, draining,
                     dockerVars, cancelVars, failed>>

(* Queue.Enqueue does not block: a full queue drops the delivery. *)
Enqueue(d) ==
  /\ dpc[d] = "admit"
  /\ todo[d] = {}
  /\ IF Len(queue) < QueueSize
     THEN /\ queue' = Append(queue, d)
          /\ dpc' = [dpc EXCEPT ![d] = "queued"]
     ELSE /\ dpc' = [dpc EXCEPT ![d] = "dropped"]
          /\ UNCHANGED queue
  /\ UNCHANGED <<kind, todo, built, running, runVars, statusVars, cleanup,
                 draining, dockerVars, cancelVars, failed>>

(***************************************************************************)
(* Queue.worker and StartWorkflows.                                        *)
(***************************************************************************)

(* A free worker takes the oldest job and starts its goroutines. *)
StartWorkflows ==
  /\ queue # << >>
  /\ Cardinality(running) < MaxJobCount
  /\ LET d == Head(queue)
     IN  /\ queue' = Tail(queue)
         /\ running' = running \cup {d}
         /\ rpc' = [r \in Run |-> IF r[1] = d /\ r[2] \in built[d] THEN "start" ELSE rpc[r]]
  /\ UNCHANGED <<kind, dpc, todo, built, step, expired, verdict, statusVars,
                 cleanup, draining, dockerVars, cancelVars, failed>>

(* Mutant: the worker ends with its first job. *)
JobDone_WorkerLost(d) ==
  /\ d \in running
  /\ dpc[d] = "queued"
  /\ \A n \in built[d] : rpc[<<d, n>>] = "done"
  /\ dpc' = [dpc EXCEPT ![d] = "done"]
  /\ UNCHANGED <<kind, todo, built, queue, running, runVars, statusVars, cleanup,
                 draining, dockerVars, cancelVars, failed>>

(* wg.Wait returns and the worker is free again. *)
JobDone(d) ==
  /\ d \in running
  /\ \A n \in built[d] : rpc[<<d, n>>] = "done"
  /\ running' = running \ {d}
  /\ dpc' = [dpc EXCEPT ![d] = "done"]
  /\ UNCHANGED <<kind, todo, built, queue, runVars, statusVars, cleanup, draining,
                 dockerVars, cancelVars, failed>>

Goto(r, l) == rpc' = [rpc EXCEPT ![r] = l]

(* The body of a workflow goroutine changes at most these. *)
RunFrame == UNCHANGED <<deliveryVars, cancelVars>>

ReportRunning(r) ==
  /\ rpc[r] = "start"
  /\ \/ Emit(WidOf(r), "running") /\ Goto(r, "network")
     \/ EmitFails(WidOf(r)) /\ Goto(r, "done")
  /\ RunFrame
  /\ UNCHANGED <<step, expired, verdict, cleanup, draining, dockerVars, failed>>

----------------------------------------------------------------------------
(***************************************************************************)
(* SetupWorkflow of the nixery engine.                                     *)
(***************************************************************************)
SetupFails(r) == Goto(r, "unwind")

DockerFault == "docker" \in Fault

(* Docker refuses a second network of the same name. *)
NetworkCreate(r) ==
  LET k == KeyOf(WidOf(r))
  IN  /\ rpc[r] = "network"
      /\ \/ /\ k \notin networks
            /\ networks' = networks \cup {k}
            /\ Goto(r, "regnet")
         \/ /\ k \in networks \/ DockerFault
            /\ SetupFails(r)
            /\ UNCHANGED networks
      /\ RunFrame
      /\ UNCHANGED <<step, expired, verdict, statusVars, cleanup, draining, container, failed>>

RegisterCleanup(r, fn, l) ==
  /\ cleanup' = [cleanup EXCEPT ![KeyOf(WidOf(r))] = Append(@, fn)]
  /\ Goto(r, l)
  /\ RunFrame
  /\ UNCHANGED <<step, expired, verdict, statusVars, draining, dockerVars, failed>>

RegisterNetwork(r) ==
  rpc[r] = "regnet" /\ RegisterCleanup(r, <<"network", KeyOf(WidOf(r))>>, "image")

(* Mutant: the container's cleanup is never registered. *)
ContainerCreate_Unregistered(r) ==
  /\ rpc[r] = "image"
  /\ \/ container' = [container EXCEPT ![r] = "created"] /\ Goto(r, "boot")
     \/ DockerFault /\ SetupFails(r) /\ UNCHANGED container
  /\ RunFrame
  /\ UNCHANGED <<step, expired, verdict, statusVars, cleanup, draining, networks, failed>>

(* ImagePull and ContainerCreate.  The container does not join the network. *)
ContainerCreate(r) ==
  /\ rpc[r] = "image"
  /\ \/ container' = [container EXCEPT ![r] = "created"] /\ Goto(r, "regctr")
     \/ DockerFault /\ SetupFails(r) /\ UNCHANGED container
  /\ RunFrame
  /\ UNCHANGED <<step, expired, verdict, statusVars, cleanup, draining, networks, failed>>

RegisterContainer(r) ==
  rpc[r] = "regctr" /\ RegisterCleanup(r, <<"container", r>>, "boot")

(* ContainerStart works on a container that a concurrent DestroyWorkflow   *)
(* has stopped, not on one it has removed.                                 *)
ContainerStart(r) ==
  /\ rpc[r] = "boot"
  /\ \/ /\ container[r] # "removed"
        /\ container' = [container EXCEPT ![r] = "up"]
        /\ Goto(r, "mkdir")
     \/ /\ container[r] = "removed" \/ DockerFault
        /\ SetupFails(r)
        /\ UNCHANGED container
  /\ RunFrame
  /\ UNCHANGED <<step, expired, verdict, statusVars, cleanup, draining, networks, failed>>

(* mkdir in the container ends the setup. *)
MakeWorkspace(r) ==
  /\ rpc[r] = "mkdir"
  /\ \/ container[r] = "up" /\ Goto(r, "step")
     \/ (container[r] # "up" \/ DockerFault) /\ SetupFails(r)
  /\ RunFrame
  /\ UNCHANGED <<step, expired, verdict, statusVars, cleanup, draining, dockerVars, failed>>

(***************************************************************************)
(* RunStep.                                                                *)
(***************************************************************************)

(* The workflow's timeout, counted from the end of the setup. *)
Expire(r) ==
  /\ rpc[r] \in {"step", "exec"}
  /\ ~ expired[r]
  /\ expired' = [expired EXCEPT ![r] = TRUE]
  /\ RunFrame
  /\ UNCHANGED <<rpc, step, verdict, statusVars, cleanup, draining, dockerVars, failed>>

Report(r, k) == verdict' = [verdict EXCEPT ![r] = k] /\ Goto(r, "report")

(* The loop ends, or the next step is executed in the container.  A        *)
(* deadline that passed between two steps is returned as ctx.Err(), which  *)
(* StartWorkflows does not take for a timeout.                             *)
BeginStep(r) ==
  /\ rpc[r] = "step"
  /\ \/ step[r] = NumSteps /\ Report(r, "success")
     \/ /\ step[r] < NumSteps
        /\ ~ expired[r] /\ container[r] = "up"
        /\ Goto(r, "exec") /\ UNCHANGED verdict
     \/ /\ step[r] < NumSteps
        /\ expired[r] \/ container[r] # "up" \/ DockerFault
        /\ Report(r, "failed")
  /\ RunFrame
  /\ UNCHANGED <<step, expired, statusVars, cleanup, draining, dockerVars, failed>>

(* The command ended, was killed with its container, or the deadline       *)
(* passed.  When both the tail and the deadline are ready the select picks *)
(* either, and the second check reports ctx.Err().                         *)
EndStep(r) ==
  /\ rpc[r] = "exec"
  /\ \/ /\ ~ expired[r] /\ container[r] = "up"
        /\ step' = [step EXCEPT ![r] = @ + 1]
        /\ Goto(r, "step") /\ UNCHANGED verdict
     \/ Report(r, "failed") /\ UNCHANGED step
     \/ expired[r] /\ Report(r, "timeout") /\ UNCHANGED step
  /\ RunFrame
  /\ UNCHANGED <<expired, statusVars, cleanup, draining, dockerVars, failed>>

----------------------------------------------------------------------------
(***************************************************************************)
(* DestroyWorkflow: drain the registry under its lock, then call the       *)
(* functions one by one; an error is only logged.                          *)
(***************************************************************************)
Drain(a, k) ==
  /\ draining' = [draining EXCEPT ![a] = cleanup[k]]
  /\ cleanup' = [cleanup EXCEPT ![k] = << >>]

Unwind(r) ==
  /\ rpc[r] = "unwind"
  /\ Drain(r, KeyOf(WidOf(r)))
  /\ Goto(r, "unwinding")
  /\ RunFrame
  /\ UNCHANGED <<step, expired, verdict, statusVars, dockerVars, failed>>

(* The status goes out before the deferred DestroyWorkflow. *)
ReportVerdict(r) ==
  /\ rpc[r] = "report"
  /\ Emit(WidOf(r), verdict[r]) \/ EmitFails(WidOf(r))
  /\ Drain(r, KeyOf(WidOf(r)))
  /\ Goto(r, "destroying")
  /\ RunFrame
  /\ UNCHANGED <<step, expired, verdict, dockerVars, failed>>

CleanupFails(fn) == failed' = failed \cup {fn} /\ UNCHANGED dockerVars

CallCleanup(a) ==
  /\ draining[a] # << >>
  /\ LET fn == Head(draining[a])
         rest == Tail(draining[a])
     IN  \/ /\ fn[1] = "network"
            /\ networks' = networks \ {fn[2]}
            /\ draining' = [draining EXCEPT ![a] = rest]
            /\ UNCHANGED <<container, failed>>
         \/ /\ fn[1] = "container"
            /\ container' = [container EXCEPT ![fn[2]] = IF @ = "up" THEN "exited" ELSE @]
            /\ draining' = [draining EXCEPT ![a] = << <<"remove", fn[2]>> >> \o rest]
            /\ UNCHANGED <<networks, failed>>
         \/ /\ fn[1] = "remove" /\ container[fn[2]] # "up"
            /\ container' = [container EXCEPT ![fn[2]] = "removed"]
            /\ draining' = [draining EXCEPT ![a] = rest]
            /\ UNCHANGED <<networks, failed>>
         \/ /\ DockerFault \/ (fn[1] = "remove" /\ container[fn[2]] = "up")
            /\ CleanupFails(fn)
            /\ draining' = [draining EXCEPT ![a] = rest]
  /\ UNCHANGED <<deliveryVars, runVars, statusVars, cleanup, cancelVars>>

(* Mutant: the status is left as it was. *)
ReportSetupFailure_Silent(r) ==
  /\ rpc[r] = "unwinding"
  /\ draining[r] = << >>
  /\ Goto(r, "done")
  /\ RunFrame
  /\ UNCHANGED <<step, expired, verdict, statusVars, cleanup, draining, dockerVars, failed>>

(* Setup failed: StatusFailed follows the clean-up. *)
ReportSetupFailure(r) ==
  /\ rpc[r] = "unwinding"
  /\ draining[r] = << >>
  /\ Emit(WidOf(r), "failed") \/ EmitFails(WidOf(r))
  /\ Goto(r, "done")
  /\ RunFrame
  /\ UNCHANGED <<step, expired, verdict, cleanup, draining, dockerVars, failed>>

Finish(r) ==
  /\ rpc[r] = "destroying"
  /\ draining[r] = << >>
  /\ Goto(r, "done")
  /\ RunFrame
  /\ UNCHANGED <<step, expired, verdict, statusVars, cleanup, draining, dockerVars, failed>>

(***************************************************************************)
(* CancelPipeline, for a request that passed the owner check: destroy the  *)
(* workflow, whatever it is doing, then report it cancelled.               *)
(***************************************************************************)
CancelPipeline(c) ==
  /\ cpc[c] = "idle"
  /\ Drain(c, KeyOf(cwid[c]))
  /\ cpc' = [cpc EXCEPT ![c] = "destroying"]
  /\ UNCHANGED <<deliveryVars, runVars, statusVars, dockerVars, cwid, failed>>

ReportCancelled(c) ==
  /\ cpc[c] = "destroying"
  /\ draining[c] = << >>
  /\ Emit(cwid[c], "cancelled") \/ EmitFails(cwid[c])
  /\ cpc' = [cpc EXCEPT ![c] = "done"]
  /\ UNCHANGED <<deliveryVars, runVars, cleanup, draining, dockerVars, cwid, failed>>

----------------------------------------------------------------------------

DeliveryStep(d) == (\E n \in Name : Admit(d, n)) \/ Enqueue(d)

RunStep(r) ==
  \/ ReportRunning(r) \/ NetworkCreate(r) \/ RegisterNetwork(r)
  \/ ContainerCreate(r) \/ RegisterContainer(r) \/ ContainerStart(r)
  \/ MakeWorkspace(r) \/ BeginStep(r) \/ EndStep(r)
  \/ Unwind(r) \/ ReportVerdict(r) \/ ReportSetupFailure(r) \/ Finish(r)

Next ==
  \/ \E d \in Delivery : Receive(d) \/ DeliveryStep(d) \/ JobDone(d)
  \/ StartWorkflows
  \/ \E r \in Run : RunStep(r) \/ Expire(r)
  \/ \E a \in Actor : CallCleanup(a)
  \/ \E c \in Canceller : CancelPipeline(c) \/ ReportCancelled(c)

Spec == Init /\ [][Next]_vars

(* What goes on without a new event, a cancel or a deadline. *)
Progress ==
  \/ \E d \in Delivery : DeliveryStep(d) \/ JobDone(d)
  \/ StartWorkflows
  \/ \E r \in Run : RunStep(r)
  \/ \E a \in Actor : CallCleanup(a)
  \/ \E c \in Canceller : ReportCancelled(c)

----------------------------------------------------------------------------
(***************************************************************************)
(* Properties.                                                             *)
(***************************************************************************)

(* Nobody is working on a workflow's docker resources. *)
Quiet(k) ==
  /\ \A r \in Run : KeyOf(WidOf(r)) = k => rpc[r] \in {"off", "done"}
  /\ \A c \in Canceller : KeyOf(cwid[c]) = k => cpc[c] # "destroying"

(* No docker resource is forgotten: whatever races between the goroutine,  *)
(* a duplicate of it and cancels, a network or container that survives     *)
(* them all has had its cleanup function called, and that call failed.     *)
LeakExplained ==
  \A k \in Key : Quiet(k) =>
    /\ k \in networks => <<"network", k>> \in failed
    /\ \A r \in Run :
         KeyOf(WidOf(r)) = k /\ container[r] \in {"created", "up", "exited"}
           => <<"container", r>> \in failed \/ <<"remove", r>> \in failed

(* A workflow that is over says so: once every delivery of it that was     *)
(* accepted has been run and no cancel is under way, the latest status a   *)
(* reader gets (GetStatus) is a finish state, unless an insert failed.     *)
SettledIsFinal ==
  \A w \in Wid \ unsaved :
    ( /\ status[w] # << >>
      /\ \A d \in Delivery : PipelineOf[d] = w[1] => dpc[d] \in {"new", "done"} )
    => Latest(w) \in FinishStates

(* A delivery dropped by a full queue, or because another workflow of the  *)
(* record could not be initialised.                                       *)
Orphaned(w) == \E d \in Delivery : PipelineOf[d] = w[1] /\ dpc[d] = "dropped"

(* Nobody waits for ever: the runner comes to rest only with an empty      *)
(* queue, free workers and an empty cleanup, and then no workflow is left  *)
(* pending or running unless its delivery was dropped or an insert failed  *)
(* (Queue.worker, wg.Wait in StartWorkflows).                              *)
RestIsSettled ==
  ~ ENABLED Progress =>
    /\ queue = << >> /\ running = {}
    /\ \A a \in Actor : draining[a] = << >>
    /\ \A w \in Wid \ unsaved : Latest(w) \notin StartStates \/ Orphaned(w)

=============================================================================
