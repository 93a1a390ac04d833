--------------------------- MODULE FlashLifecycle ---------------------------
(***************************************************************************)
(* The life of one FlashService between its controller (reconcile of       *)
(* src/src/reconcile.rs, in any number of replicas), the scale-to-zero     *)
(* activator (src/src/bin/flash-activator.rs) and what Kubernetes does     *)
(* with the Deployment: start, stop, scaling, sleeping and waking.         *)
(*                                                                         *)
(* One step is one Kubernetes call that matters here: reads and writes of  *)
(* the FlashService, its Deployment, its HorizontalPodAutoscaler, its Pods *)
(* and its FlashGpuJob.  Routes, policies, volumes and credentials, which  *)
(* the reconcile writes on the way, are not in the model.                  *)
(***************************************************************************)
EXTENDS Integers, FiniteSets

CONSTANTS Workers,     \* controller replicas
          Requests,    \* HTTP requests handled by the activators
          Commands,    \* desired states: [stopped, gpu, scaling, image]
          Replicas,    \* spec.workload.replicas
          MaxReplicas, \* autoscaling.max_replicas
          MaxGen,      \* bound: generations of the service
          MaxFaults,   \* bound: failed calls, waits and weekly limits reached
          MaxScalings  \* bound: decisions of the autoscaler and idle periods

ASSUME LifecycleAssumption ==
    /\ Replicas \in 1..MaxReplicas /\ MaxReplicas \in Nat
    /\ MaxGen \in Nat /\ MaxFaults \in Nat /\ MaxScalings \in Nat
    /\ \A c \in Commands : /\ c.stopped \in BOOLEAN /\ c.gpu \in BOOLEAN
                           /\ c.scaling \in {"fixed", "hpa", "zero"}
                           /\ c.image \in {"good", "bad"}

VARIABLES svc,       \* the FlashService: command, generation, activity, status
          dep,       \* its Deployment: exists, replicas, owners of that field
          hpa,       \* its HorizontalPodAutoscaler exists
          job,       \* its FlashGpuJob
          pods,      \* number of its active Pods
          exhausted, \* its weekly limit is used up
          pc,        \* where each reconcile stands
          mem,       \* what each reconcile has read
          svcFresh,  \* reconciles that hold the FlashService's resourceVersion
          depFresh,  \* reconciles that hold the Deployment's resourceVersion
          rpc,       \* where each HTTP request stands
          rgen,      \* the generation it read
          faults, scalings

objects == <<svc, dep, hpa, job, pods>>
control == <<pc, mem, svcFresh, depFresh>>
http == <<rpc, rgen>>
budget == <<faults, scalings>>
lvars == <<objects, exhausted, control, http, budget>>

NoStatus == [phase |-> "none", gen |-> 0, desired |-> 0, cold |-> FALSE,
             stopped |-> FALSE, exhausted |-> FALSE]
NoDeployment == [exists |-> FALSE, replicas |-> 0, owners |-> {}]
NoView == [cmd |-> "none"]
Forgotten == [view |-> NoView, cold |-> FALSE, quota |-> FALSE, assigned |-> FALSE,
              legacy |-> FALSE, replicas |-> 0, seen |-> 0, released |-> FALSE]

LInit ==
    /\ \E c \in Commands : svc = [cmd |-> c, gen |-> 1, activity |-> "none",
                                  status |-> NoStatus]
    /\ dep = NoDeployment
    /\ hpa = FALSE
    /\ job = "none"
    /\ pods = 0
    /\ exhausted = FALSE
    /\ pc = [w \in Workers |-> "idle"]
    /\ mem = [w \in Workers |-> Forgotten]
    /\ svcFresh = {} /\ depFresh = {}
    /\ rpc = [r \in Requests |-> "new"]
    /\ rgen = [r \in Requests |-> 0]
    /\ faults = 0 /\ scalings = 0

(* Writes give the object a new resourceVersion. *)
WriteService(new) == svc' = new /\ svcFresh' = {}
KeepService == UNCHANGED <<svc, svcFresh>>
WriteDeployment(new) == dep' = new /\ depFresh' = {}
KeepDeployment == UNCHANGED <<dep, depFresh>>

Goto(w, l) == pc' = [pc EXCEPT ![w] = l]
Finish(w) == Goto(w, "idle") /\ mem' = [mem EXCEPT ![w] = Forgotten]

(* error_policy: the reconcile is given up and tried again. *)
Abort(w) ==
    /\ Finish(w)
    /\ svcFresh' = svcFresh \ {w}
    /\ depFresh' = depFresh \ {w}
    /\ UNCHANGED <<objects, exhausted, http, scalings>>

-----------------------------------------------------------------------------
(* Commands: reconcile of the provider API replaces the desired state and,   *)
(* when it resumes a stopped service, refreshes its activity.                *)
Edit(c) ==
    /\ svc.gen < MaxGen
    /\ c # svc.cmd
    /\ WriteService([svc EXCEPT !.cmd = c, !.gen = @ + 1,
                                !.activity = IF svc.cmd.stopped /\ ~c.stopped
                                             THEN "recent" ELSE @])
    /\ UNCHANGED <<dep, hpa, job, pods, exhausted, pc, mem, depFresh, http, budget>>

(* idle_timeout_seconds pass since the last activity. *)
GoIdle ==
    /\ svc.activity = "recent"
    /\ scalings < MaxScalings
    /\ scalings' = scalings + 1
    /\ svc' = [svc EXCEPT !.activity = "old"]
    /\ UNCHANGED <<dep, hpa, job, pods, exhausted, control, http, faults>>

(* meter_weekly_usage: the limit is reached; a new week or a raised limit. *)
Exhaust ==
    /\ ~exhausted
    /\ faults < MaxFaults
    /\ faults' = faults + 1
    /\ exhausted' = TRUE
    /\ UNCHANGED <<objects, control, http, scalings>>

Replenish ==
    /\ exhausted
    /\ exhausted' = FALSE
    /\ UNCHANGED <<objects, control, http, budget>>

-----------------------------------------------------------------------------
(* Kubernetes and the GPU scheduler, as the controller relies on them. *)

(* The autoscaler is idle while the target is at zero. *)
HpaScale ==
    /\ hpa /\ dep.exists /\ dep.replicas > 0
    /\ scalings < MaxScalings
    /\ scalings' = scalings + 1
    /\ \E n \in 1..MaxReplicas \ {dep.replicas} :
          WriteDeployment([dep EXCEPT !.replicas = n, !.owners = {"hpa"}])
    /\ UNCHANGED <<svc, hpa, job, pods, exhausted, pc, mem, svcFresh, http, faults>>

(* Pods follow the count; the Deployment's status follows the Pods. *)
PodsFollow ==
    /\ pods' \in {pods - 1, pods + 1}
    /\ (pods' > pods) = (dep.replicas > pods)
    /\ pods # dep.replicas
    /\ depFresh' = {}
    /\ UNCHANGED <<svc, dep, hpa, job, exhausted, pc, mem, svcFresh, http, budget>>

(* GpuScheduler: a queued job gets a device, a deleted one gives it back. *)
GpuSchedules ==
    /\ \/ job = "queued" /\ job' = "assigned"
       \/ job = "deleting" /\ job' = "none"
    /\ UNCHANGED <<svc, dep, hpa, pods, exhausted, control, http, budget>>

JobDeleted == IF job = "none" THEN "none" ELSE "deleting"

-----------------------------------------------------------------------------
(* reconcile. *)

(* should_scale_to_zero, of the service as it was observed *)
ShouldScaleToZero(v) ==
    /\ v.cmd.scaling = "zero"
    /\ v.status.phase = "Ready"
    /\ v.status.gen = v.gen \/ (v.status.cold /\ v.status.desired = 0)
    /\ v.activity = "old"

Suspended(w) == mem[w].cold \/ mem[w].quota

(* desired_autoscaler *)
WantsHpa(w) == mem[w].view.cmd.scaling # "fixed" /\ ~Suspended(w)

Observe(w) ==
    /\ pc[w] = "idle"
    /\ Goto(w, "meter")
    /\ mem' = [mem EXCEPT ![w] = [Forgotten EXCEPT !.view = svc]]
    /\ svcFresh' = svcFresh \cup {w}
    /\ UNCHANGED <<objects, exhausted, depFresh, http, budget>>

(* meter_weekly_usage, cold and the quota message *)
Meter(w) ==
    /\ pc[w] = "meter"
    /\ mem' = [mem EXCEPT ![w].quota = exhausted,
                          ![w].cold = ShouldScaleToZero(mem[w].view)]
    /\ Goto(w, IF mem[w].view.cmd.stopped THEN "stopHpa"
               ELSE IF exhausted THEN "quotaHpa" ELSE "gpuJob")
    /\ UNCHANGED <<objects, exhausted, svcFresh, depFresh, http, budget>>

(* suspend_deployment, at the three places it is called from, and the        *)
(* deletion of the autoscaler before fixed scaling                           *)
AfterHpa == [stopHpa |-> "stopZero", quotaHpa |-> "quotaZero",
             queueHpa |-> "queueZero", fixHpa |-> "readDep"]
AfterZero == [stopZero |-> "listPods", quotaZero |-> "gpuJob",
              queueZero |-> "queueStatus"]

DeleteAutoscaler(w) ==
    /\ pc[w] \in DOMAIN AfterHpa
    /\ hpa' = FALSE
    /\ Goto(w, AfterHpa[pc[w]])
    /\ UNCHANGED <<svc, dep, job, pods, exhausted, mem, svcFresh, depFresh, http, budget>>

(* Mutant: a service whose status already says zero is not scaled again. *)
MustScaleUnlessReported(w) == dep.replicas # 0 /\ mem[w].view.status.desired # 0

MustScale(w) == dep.replicas # 0

(* A merge patch without resourceVersion. *)
ScaleToZero(w) ==
    /\ pc[w] \in DOMAIN AfterZero
    /\ IF MustScale(w)
       THEN WriteDeployment([dep EXCEPT !.replicas = 0, !.owners = {"suspend"}])
       ELSE KeepDeployment
    /\ Goto(w, AfterZero[pc[w]])
    /\ UNCHANGED <<svc, hpa, job, pods, exhausted, mem, svcFresh, http, budget>>

(* reconcile_gpu_job.  A job under deletion may still show its assignment.   *)
GpuJob(w) ==
    /\ pc[w] = "gpuJob"
    /\ \/ /\ ~mem[w].view.cmd.gpu \/ Suspended(w)
          /\ job' = JobDeleted
          /\ Goto(w, "inspect")
          /\ UNCHANGED mem
       \/ /\ mem[w].view.cmd.gpu /\ ~Suspended(w)
          /\ job' = IF job = "none" THEN "queued" ELSE job
          /\ \E a \in BOOLEAN :
                /\ job \in {"none", "queued"} => ~a
                /\ job = "assigned" => a
                /\ mem' = [mem EXCEPT ![w].assigned = a]
                /\ Goto(w, IF a THEN "inspect" ELSE "queueHpa")
    /\ UNCHANGED <<svc, dep, hpa, pods, exhausted, svcFresh, depFresh, http, budget>>

(* Image inspection, storage allocation and the capacity check; nothing of   *)
(* what follows is written unless they pass.                                 *)
Inspect(w) ==
    /\ pc[w] = "inspect"
    /\ Goto(w, IF mem[w].view.cmd.image = "bad" THEN "rejectStatus"
               ELSE IF WantsHpa(w) THEN "readDep" ELSE "fixHpa")
    /\ UNCHANGED <<objects, exhausted, mem, svcFresh, depFresh, http, budget>>

WaitAt(w, from, to) ==
    /\ pc[w] = from
    /\ faults < MaxFaults
    /\ faults' = faults + 1
    /\ Goto(w, to)
    /\ UNCHANGED <<objects, exhausted, mem, svcFresh, depFresh, http, scalings>>

(* The VPC is not set up; the registry does not answer; there is no room.    *)
WaitForVpc(w) == WaitAt(w, "meter", "waitStatus") /\ ~mem[w].view.cmd.stopped
WaitForImage(w) == WaitAt(w, "inspect", "waitStatus")
WaitForCapacity(w) == WaitAt(w, "inspect", "heldStatus") /\ mem[w].view.cmd.image = "good"

-----------------------------------------------------------------------------
(* reconcile_scaling. *)

(* Server-side apply of spec.replicas by a manager, by force. *)
AppliedOwners(manager, n) ==
    IF dep.exists /\ dep.replicas = n THEN dep.owners \cup {manager} ELSE {manager}

ReadDeployment(w) ==
    /\ pc[w] = "readDep"
    /\ IF dep.exists
       THEN /\ mem' = [mem EXCEPT ![w].replicas = dep.replicas,
                                  ![w].legacy = "main" \in dep.owners]
            /\ depFresh' = depFresh \cup {w}
            /\ Goto(w, "handoff")
       ELSE Goto(w, "create") /\ UNCHANGED <<mem, depFresh>>
    /\ UNCHANGED <<objects, exhausted, svcFresh, http, budget>>

CreateDeployment(w) ==
    /\ pc[w] = "create"
    /\ dep' = [exists |-> TRUE, replicas |-> Replicas,
               owners |-> AppliedOwners("main", Replicas)]
    /\ depFresh' = {w}
    /\ mem' = [mem EXCEPT ![w].replicas = Replicas, ![w].legacy = TRUE]
    /\ Goto(w, "handoff")
    /\ UNCHANGED <<svc, hpa, job, pods, exhausted, svcFresh, http, budget>>

(* Mutant: the autoscaler is left to wake itself. *)
WakeAutoscalerNever(w) == FALSE

(* wake_autoscaler: an autoscaler does nothing at zero. *)
WakeAutoscaler(w) == WantsHpa(w) /\ mem[w].replicas = 0

HandsOff(w) == ~WantsHpa(w) \/ mem[w].legacy \/ WakeAutoscaler(w)

HandoffCount(w) ==
    IF Suspended(w) THEN 0
    ELSE IF ~WantsHpa(w) \/ WakeAutoscaler(w) THEN Replicas
    ELSE mem[w].replicas

(* Mutant: the applies carry no resourceVersion. *)
DeploymentFencedNever(w) == TRUE

DeploymentFenced(w) == w \in depFresh

Handoff(w) ==
    /\ pc[w] = "handoff"
    /\ IF HandsOff(w)
       THEN /\ DeploymentFenced(w)
            /\ dep' = [dep EXCEPT !.replicas = HandoffCount(w),
                                  !.owners = AppliedOwners("replicas", HandoffCount(w))]
            /\ depFresh' = {w}
       ELSE KeepDeployment
    /\ Goto(w, "template")
    /\ UNCHANGED <<svc, hpa, job, pods, exhausted, mem, svcFresh, http, budget>>

(* The template apply omits spec.replicas: a count that only the main        *)
(* manager owned would fall back to the default of one.                      *)
ApplyTemplate(w) ==
    LET count == IF dep.owners = {"main"} THEN 1 ELSE dep.replicas IN
    /\ pc[w] = "template"
    /\ DeploymentFenced(w)
    /\ WriteDeployment([dep EXCEPT !.replicas = count, !.owners = @ \ {"main"}])
    /\ mem' = [mem EXCEPT ![w].replicas = count]
    /\ Goto(w, IF WantsHpa(w) THEN "applyHpa" ELSE "countPods")
    /\ UNCHANGED <<svc, hpa, job, pods, exhausted, svcFresh, http, budget>>

ScalingConflict(w) ==
    /\ pc[w] = "template" \/ (pc[w] = "handoff" /\ HandsOff(w))
    /\ w \notin depFresh
    /\ Abort(w)
    /\ UNCHANGED faults

ApplyAutoscaler(w) ==
    /\ pc[w] = "applyHpa"
    /\ hpa' = TRUE
    /\ Goto(w, "countPods")
    /\ UNCHANGED <<svc, dep, job, pods, exhausted, mem, svcFresh, depFresh, http, budget>>

-----------------------------------------------------------------------------
(* Pods, the reservation of a stopped service, status. *)

(* Mutant: the reservation is released with the scale-down. *)
MayReleaseAtOnce(w) == mem[w].view.cmd.gpu

MayRelease(w) == pods = 0 /\ mem[w].view.cmd.gpu

ListPods(w) ==
    /\ pc[w] \in {"listPods", "countPods"}
    /\ mem' = [mem EXCEPT ![w].seen = pods, ![w].released = ~mem[w].view.cmd.gpu]
    /\ Goto(w, IF pc[w] = "countPods" THEN "status"
               ELSE IF MayRelease(w) THEN "releaseJob"
               ELSE "stopStatus")
    /\ UNCHANGED <<objects, exhausted, svcFresh, depFresh, http, budget>>

ReleaseJob(w) ==
    /\ pc[w] = "releaseJob"
    /\ job' = JobDeleted
    /\ mem' = [mem EXCEPT ![w].released = (job = "none")]
    /\ Goto(w, "stopStatus")
    /\ UNCHANGED <<svc, dep, hpa, pods, exhausted, svcFresh, depFresh, http, budget>>

(* Mutant: only the Pods are waited for. *)
StopCompleteByPods(w) == mem[w].seen = 0

(* explicit_stop_status *)
StopComplete(w) == mem[w].seen = 0 /\ mem[w].released

Ready(w) == Suspended(w) \/ mem[w].seen >= mem[w].replicas

(* The statuses that a reconcile writes.  The one that waits for capacity    *)
(* keeps what was reported before.                                           *)
WaitStatus(w) ==
    [phase |-> "Provisioning", gen |-> mem[w].view.gen, desired |-> Replicas,
     cold |-> FALSE, stopped |-> FALSE, exhausted |-> mem[w].quota]

RejectStatus(w) == [WaitStatus(w) EXCEPT !.phase = "Error"]

HeldStatus(w) ==
    [mem[w].view.status EXCEPT !.phase = "Provisioning", !.gen = mem[w].view.gen,
                               !.desired = Replicas, !.exhausted = mem[w].quota]

StopStatus(w) ==
    [WaitStatus(w) EXCEPT !.desired = 0, !.stopped = StopComplete(w),
                          !.phase = IF StopComplete(w) THEN "Ready" ELSE @]

WorkloadStatus(w, phase) ==
    [WaitStatus(w) EXCEPT !.phase = phase, !.cold = mem[w].cold,
                          !.desired = IF Suspended(w) THEN 0 ELSE mem[w].replicas]

Phases(w) == IF Ready(w) THEN {"Ready"} ELSE {"Provisioning", "Error"}

Statuses(w) ==
    CASE pc[w] = "stopStatus" -> {StopStatus(w)}
      [] pc[w] \in {"queueStatus", "waitStatus"} -> {WaitStatus(w)}
      [] pc[w] = "heldStatus" -> {HeldStatus(w)}
      [] pc[w] = "rejectStatus" -> {RejectStatus(w)}
      [] pc[w] = "status" -> {WorkloadStatus(w, p) : p \in Phases(w)}

StatusSteps == {"stopStatus", "queueStatus", "waitStatus", "heldStatus",
                "rejectStatus", "status"}

(* Mutant: the status patch carries no resourceVersion. *)
StatusFencedNever(w) == TRUE

StatusFenced(w) == w \in svcFresh

(* patch_observed_status *)
PatchStatus(w) ==
    /\ pc[w] \in StatusSteps
    /\ StatusFenced(w)
    /\ \E s \in Statuses(w) :
          /\ WriteService([svc EXCEPT !.status = s])
          /\ IF pc[w] = "status" /\ s.phase = "Ready"
                /\ mem[w].view.cmd.scaling = "zero" /\ mem[w].view.activity = "none"
             THEN Goto(w, "mark") /\ UNCHANGED mem
             ELSE Finish(w)
    /\ UNCHANGED <<dep, hpa, job, pods, exhausted, depFresh, http, budget>>

(* Mutant: a conflict is retried with the new version and the old status. *)
StatusConflictRefetch(w) ==
    /\ pc[w] \in StatusSteps
    /\ w \notin svcFresh
    /\ svcFresh' = svcFresh \cup {w}
    /\ UNCHANGED <<objects, exhausted, pc, mem, depFresh, http, budget>>

StatusConflict(w) ==
    /\ pc[w] \in StatusSteps
    /\ w \notin svcFresh
    /\ Abort(w)
    /\ UNCHANGED faults

(* mark_activity of the controller *)
MarkFirstActivity(w) ==
    /\ pc[w] = "mark"
    /\ WriteService([svc EXCEPT !.activity = "recent"])
    /\ Finish(w)
    /\ UNCHANGED <<dep, hpa, job, pods, exhausted, depFresh, http, budget>>

(* A call fails or the process dies. *)
Fail(w) ==
    /\ pc[w] # "idle"
    /\ faults < MaxFaults
    /\ faults' = faults + 1
    /\ Abort(w)

Step(w) ==
    \/ Observe(w) \/ Meter(w) \/ DeleteAutoscaler(w) \/ ScaleToZero(w) \/ GpuJob(w)
    \/ Inspect(w) \/ ReadDeployment(w) \/ CreateDeployment(w) \/ Handoff(w)
    \/ ApplyTemplate(w) \/ ScalingConflict(w) \/ ApplyAutoscaler(w) \/ ListPods(w)
    \/ ReleaseJob(w) \/ PatchStatus(w) \/ StatusConflict(w) \/ MarkFirstActivity(w)

-----------------------------------------------------------------------------
(* The activator: proxy_inner. *)

Answer(r) == rpc' = [rpc EXCEPT ![r] = "done"] /\ UNCHANGED rgen

Wakeable == svc.cmd.scaling = "zero" /\ ~svc.cmd.stopped /\ ~svc.status.exhausted

Arrive(r) ==
    /\ rpc[r] = "new"
    /\ IF Wakeable
       THEN /\ rpc' = [rpc EXCEPT ![r] = IF svc.cmd.gpu THEN "markOnly" ELSE "mark"]
            /\ rgen' = [rgen EXCEPT ![r] = svc.gen]
       ELSE Answer(r)
    /\ UNCHANGED <<objects, exhausted, control, budget>>

MarkActivity(r) ==
    /\ rpc[r] \in {"mark", "markOnly"}
    /\ WriteService([svc EXCEPT !.activity = "recent"])
    /\ rpc' = [rpc EXCEPT ![r] = IF @ = "mark" THEN "wake" ELSE "wait"]
    /\ UNCHANGED <<dep, hpa, job, pods, exhausted, pc, mem, depFresh, rgen, budget>>

(* wake: spec.replicas = 1, by force and without resourceVersion *)
Wake(r) ==
    /\ rpc[r] = "wake"
    /\ IF dep.exists
       THEN /\ WriteDeployment([dep EXCEPT !.replicas = 1,
                                           !.owners = AppliedOwners("activator", 1)])
            /\ rpc' = [rpc EXCEPT ![r] = "wait"]
            /\ UNCHANGED rgen
       ELSE KeepDeployment /\ Answer(r)
    /\ UNCHANGED <<svc, hpa, job, pods, exhausted, pc, mem, svcFresh, budget>>

(* wait_until_ready *)
Poll(r) ==
    /\ rpc[r] = "wait"
    /\ \/ svc.cmd.stopped \/ svc.status.exhausted
       \/ /\ pods > 0
          /\ svc.status.gen = rgen[r]
          /\ svc.status.phase \in {"Ready", "Provisioning"}
    /\ Answer(r)
    /\ UNCHANGED <<objects, exhausted, control, budget>>

ColdStartTimeout(r) ==
    /\ rpc[r] = "wait"
    /\ Answer(r)
    /\ UNCHANGED <<objects, exhausted, control, budget>>

RequestStep(r) == Arrive(r) \/ MarkActivity(r) \/ Wake(r) \/ Poll(r)

-----------------------------------------------------------------------------
LNext ==
    \/ \E c \in Commands : Edit(c)
    \/ GoIdle \/ Exhaust \/ Replenish
    \/ HpaScale \/ PodsFollow \/ GpuSchedules
    \/ \E w \in Workers : \/ Step(w) \/ Fail(w)
                          \/ WaitForVpc(w) \/ WaitForImage(w) \/ WaitForCapacity(w)
    \/ \E r \in Requests : RequestStep(r) \/ ColdStartTimeout(r)

LSpec == LInit /\ [][LNext]_lvars

(* Every reconcile asks to be run again (Action::requeue, error_policy) and  *)
(* its calls return; Kubernetes and the GPU scheduler act on what is there.  *)
LFairness ==
    /\ \A w \in Workers : WF_lvars(Step(w))
    /\ \A r \in Requests : WF_lvars(RequestStep(r))
    /\ WF_lvars(PodsFollow) /\ WF_lvars(GpuSchedules)

LFairSpec == LSpec /\ LFairness

-----------------------------------------------------------------------------
(* What the fence on status rests on, inductive: a reconcile that holds the  *)
(* resourceVersion of the service works on its current generation.           *)
HasParts(v) == {"cmd", "gen", "status"} \subseteq DOMAIN v /\ "gen" \in DOMAIN v.status

FreshViewIsCurrent ==
    /\ HasParts(svc)
    /\ DOMAIN pc = Workers /\ DOMAIN mem = Workers
    /\ \A w \in Workers : "view" \in DOMAIN mem[w]
    /\ \A w \in Workers : pc[w] # "idle" =>
          /\ HasParts(mem[w].view)
          /\ w \in svcFresh => mem[w].view.gen = svc.gen

(* A reconcile writes status only for the desired state it was computed      *)
(* from: status_patch carries the resourceVersion of the service observed.   *)
StatusOfCurrentSpec ==
    [][svc'.status # svc.status => svc'.status.gen = svc.gen]_lvars

(* "Resource-version preconditions prevent a stale handoff from overwriting  *)
(* an HPA update", and omitting spec.replicas does not default it to one:    *)
(* under an autoscaler the controller changes the count only from zero.      *)
HandoffKeepsCount ==
    [][\A w \in Workers :
          /\ pc[w] \in {"handoff", "template"} /\ pc'[w] # pc[w]
          /\ WantsHpa(w)
          => dep.replicas \in {0, dep'.replicas}]_lvars

(* "`status.stopped` is true only after draining completes": when it becomes *)
(* true the GPU is given back, no Pod is left and none will be started,      *)
(* unless a request admitted before the stop has just woken the Deployment.  *)
StoppedMeansDrained ==
    [][~svc.status.stopped /\ svc'.status.stopped
          => /\ svc.cmd.stopped /\ ~hpa /\ job = "none"
             /\ "activator" \notin dep.owners => pods = 0 /\ dep.replicas = 0]_lvars

(* A stop "waits for every owned Pod to disappear before releasing a GPU     *)
(* reservation".                                                             *)
ReservationOutlivesPods ==
    [][\A w \in Workers :
          mem[w].view # NoView /\ mem[w].view.cmd.stopped /\ pc'[w] # pc[w] /\ job' # job
             => pods = 0]_lvars

(* "HTTP requests cannot wake an explicitly stopped service." *)
HttpNeverWakesStopped ==
    [][\A r \in Requests :
          rpc[r] = "wake" /\ rpc'[r] # "wake" /\ svc.cmd.stopped
             => dep'.replicas <= dep.replicas]_lvars

(* A service that stays stopped ends up stopped, whatever stale reconciles   *)
(* and late wake-ups do: no Pod, no autoscaler, no reservation, and its      *)
(* status says so.                                                           *)
StopHolds ==
    <>[](svc.cmd.stopped)
       => <>[](pods = 0 /\ dep.replicas = 0 /\ ~hpa /\ job = "none" /\ svc.status.stopped)

(* A request that wakes a service is answered by a Pod or refused: with the  *)
(* service wanted, within its limits and not idle, the wait ends without     *)
(* the timeout.                                                              *)
ColdStartCompletes ==
    <>[](~svc.cmd.stopped /\ ~exhausted /\ svc.activity # "old")
       => \A r \in Requests :
             (rpc[r] = "wait" /\ rgen[r] = svc.gen) ~> (rpc[r] = "done" \/ rgen[r] # svc.gen)
=============================================================================
