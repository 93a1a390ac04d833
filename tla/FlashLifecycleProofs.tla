------------------------ MODULE FlashLifecycleProofs ------------------------
(* Proofs about FlashLifecycle, for any number of controller replicas and    *)
(* requests, any commands and any bounds.                                    *)
EXTENDS FlashLifecycle, TLAPS

Waiting(w) == WaitForVpc(w) \/ WaitForImage(w) \/ WaitForCapacity(w)

(* No reconcile has started yet. *)
LEMMA InitFresh == LInit => FreshViewIsCurrent
BY DEF LInit, FreshViewIsCurrent, HasParts, NoStatus, Forgotten

(* A step of nobody's reconcile: it leaves the service's generation alone,   *)
(* or writes the service and so outdates every reconcile.                    *)
LEMMA OutsideStep ==
    ASSUME FreshViewIsCurrent,
           UNCHANGED <<pc, mem>>,
           HasParts(svc'),
           svcFresh' = {} \/ (svc'.gen = svc.gen /\ svcFresh' = svcFresh)
    PROVE  FreshViewIsCurrent'
BY DEF FreshViewIsCurrent

(* A step of one reconcile that does not write the service and either keeps  *)
(* its view or ends.                                                         *)
LEMMA ReconcileStep ==
    ASSUME FreshViewIsCurrent,
           NEW w \in Workers,
           svc' = svc, svcFresh' \subseteq svcFresh,
           DOMAIN pc' = Workers, DOMAIN mem' = Workers,
           \A g \in Workers \ {w} : pc'[g] = pc[g] /\ mem'[g] = mem[g],
           "view" \in DOMAIN mem'[w],
           pc'[w] = "idle" \/ (pc[w] # "idle" /\ mem'[w].view = mem[w].view)
    PROVE  FreshViewIsCurrent'
BY DEF FreshViewIsCurrent

(* A step of one reconcile that writes the service. *)
LEMMA WritingStep ==
    ASSUME FreshViewIsCurrent,
           NEW w \in Workers,
           HasParts(svc'), svcFresh' = {},
           DOMAIN pc' = Workers, DOMAIN mem' = Workers,
           \A g \in Workers \ {w} : pc'[g] = pc[g] /\ mem'[g] = mem[g],
           "view" \in DOMAIN mem'[w],
           pc'[w] = "idle" \/ (pc[w] # "idle" /\ mem'[w].view = mem[w].view)
    PROVE  FreshViewIsCurrent'
BY DEF FreshViewIsCurrent

(* Every status a reconcile writes carries the generation it observed. *)
LEMMA StatusHasGeneration ==
    ASSUME FreshViewIsCurrent, NEW w \in Workers, pc[w] \in StatusSteps,
           NEW s \in Statuses(w)
    PROVE  "gen" \in DOMAIN s /\ s.gen = mem[w].view.gen
<1>1. HasParts(mem[w].view)
    BY DEF FreshViewIsCurrent, StatusSteps
<1>2. CASE pc[w] = "stopStatus"
    <2>1. s = StopStatus(w)
        BY <1>2 DEF Statuses
    <2>2. QED  BY <2>1 DEF StopStatus, WaitStatus
<1>3. CASE pc[w] \in {"queueStatus", "waitStatus"}
    <2>1. s = WaitStatus(w)
        BY <1>3 DEF Statuses
    <2>2. QED  BY <2>1 DEF WaitStatus
<1>4. CASE pc[w] = "heldStatus"
    <2>1. s = HeldStatus(w)
        BY <1>4 DEF Statuses
    <2>2. QED  BY <1>1, <2>1 DEF HeldStatus, HasParts
<1>5. CASE pc[w] = "rejectStatus"
    <2>1. s = RejectStatus(w)
        BY <1>5 DEF Statuses
    <2>2. QED  BY <2>1 DEF RejectStatus, WaitStatus
<1>6. CASE pc[w] = "status"
    <2>1. \E p \in Phases(w) : s = WorkloadStatus(w, p)
        BY <1>6 DEF Statuses
    <2>2. QED  BY <2>1 DEF WorkloadStatus, WaitStatus
<1>7. QED
    BY <1>2, <1>3, <1>4, <1>5, <1>6 DEF StatusSteps

(* Every step keeps FreshViewIsCurrent: one case per kind of writer. *)
LEMMA StepFresh == FreshViewIsCurrent /\ [LNext]_lvars => FreshViewIsCurrent'
<1> SUFFICES ASSUME FreshViewIsCurrent, [LNext]_lvars PROVE FreshViewIsCurrent'
    OBVIOUS
<1>0. /\ HasParts(svc) /\ DOMAIN pc = Workers /\ DOMAIN mem = Workers
      /\ \A w \in Workers : "view" \in DOMAIN mem[w]
    BY DEF FreshViewIsCurrent
<1>1. ASSUME NEW c \in Commands, Edit(c) PROVE FreshViewIsCurrent'
    <2>1. HasParts(svc')
        BY <1>0, <1>1 DEF Edit, WriteService, HasParts
    <2>2. QED  BY <1>1, <2>1, OutsideStep DEF Edit, WriteService
<1>2. CASE GoIdle
    <2>1. HasParts(svc') /\ svc'.gen = svc.gen
        BY <1>0, <1>2 DEF GoIdle, HasParts
    <2>2. QED  BY <1>2, <2>1, OutsideStep DEF GoIdle, control
<1>3. CASE \/ Exhaust \/ Replenish \/ HpaScale \/ PodsFollow \/ GpuSchedules
           \/ UNCHANGED lvars
    <2>1. UNCHANGED <<svc, pc, mem, svcFresh>>
        BY <1>3 DEF Exhaust, Replenish, HpaScale, PodsFollow, GpuSchedules,
                    objects, control, lvars
    <2>2. QED  BY <1>0, <2>1, OutsideStep
<1>4. ASSUME NEW r \in Requests, RequestStep(r) \/ ColdStartTimeout(r)
      PROVE  FreshViewIsCurrent'
    <2>1. CASE MarkActivity(r)
        <3>1. HasParts(svc')
            BY <1>0, <2>1 DEF MarkActivity, WriteService, HasParts
        <3>2. QED  BY <2>1, <3>1, OutsideStep DEF MarkActivity, WriteService
    <2>2. CASE Arrive(r) \/ Wake(r) \/ Poll(r) \/ ColdStartTimeout(r)
        <3>1. UNCHANGED <<svc, pc, mem, svcFresh>>
            BY <2>2 DEF Arrive, Wake, Poll, ColdStartTimeout, objects, control
        <3>2. QED  BY <1>0, <3>1, OutsideStep
    <2>3. QED  BY <1>4, <2>1, <2>2 DEF RequestStep
<1>5. ASSUME NEW w \in Workers, Observe(w) PROVE FreshViewIsCurrent'
    <2>1. mem'[w].view = svc /\ "view" \in DOMAIN mem'[w]
        BY <1>0, <1>5 DEF Observe, Forgotten
    <2>2. QED
        BY <1>0, <1>5, <2>1 DEF Observe, Goto, objects, FreshViewIsCurrent
<1>6. ASSUME NEW w \in Workers,
             \/ Meter(w) \/ DeleteAutoscaler(w) \/ ScaleToZero(w) \/ GpuJob(w)
             \/ Inspect(w) \/ Waiting(w) \/ ReadDeployment(w) \/ CreateDeployment(w)
             \/ Handoff(w) \/ ApplyTemplate(w) \/ ApplyAutoscaler(w) \/ ListPods(w)
             \/ ReleaseJob(w)
      PROVE  FreshViewIsCurrent'
    <2>1. UNCHANGED <<svc, svcFresh>> /\ pc[w] # "idle" /\ DOMAIN pc' = Workers
        BY <1>0, <1>6 DEF Meter, DeleteAutoscaler, ScaleToZero, GpuJob, Inspect, Waiting,
              WaitForVpc, WaitForImage, WaitForCapacity, WaitAt,
              ReadDeployment, CreateDeployment, Handoff, ApplyTemplate, ApplyAutoscaler,
              ListPods, ReleaseJob, Goto, objects, AfterHpa, AfterZero
    <2>2. \A g \in Workers \ {w} : pc'[g] = pc[g]
        BY <1>0, <1>6 DEF Meter, DeleteAutoscaler, ScaleToZero, GpuJob, Inspect, Waiting,
              WaitForVpc, WaitForImage, WaitForCapacity, WaitAt,
              ReadDeployment, CreateDeployment, Handoff, ApplyTemplate, ApplyAutoscaler,
              ListPods, ReleaseJob, Goto
    <2>3. /\ DOMAIN mem' = Workers
          /\ \A g \in Workers \ {w} : mem'[g] = mem[g]
          /\ "view" \in DOMAIN mem'[w] /\ mem'[w].view = mem[w].view
        BY <1>0, <1>6 DEF Meter, DeleteAutoscaler, ScaleToZero, GpuJob, Inspect, Waiting,
              WaitForVpc, WaitForImage, WaitForCapacity, WaitAt,
              ReadDeployment, CreateDeployment, Handoff, ApplyTemplate, ApplyAutoscaler,
              ListPods, ReleaseJob
    <2>4. QED  BY <2>1, <2>2, <2>3, ReconcileStep
<1>7. ASSUME NEW w \in Workers, ScalingConflict(w) \/ StatusConflict(w) \/ Fail(w)
      PROVE  FreshViewIsCurrent'
    <2>1. Abort(w)
        BY <1>7 DEF ScalingConflict, StatusConflict, Fail
    <2>2. /\ svc' = svc /\ svcFresh' \subseteq svcFresh
          /\ DOMAIN pc' = Workers /\ DOMAIN mem' = Workers /\ pc'[w] = "idle"
          /\ \A g \in Workers \ {w} : pc'[g] = pc[g] /\ mem'[g] = mem[g]
          /\ "view" \in DOMAIN mem'[w]
        BY <1>0, <2>1 DEF Abort, Finish, Goto, Forgotten, objects
    <2>3. QED  BY <2>2, ReconcileStep
<1>8. ASSUME NEW w \in Workers, PatchStatus(w) PROVE FreshViewIsCurrent'
    <2>1. PICK s \in Statuses(w) : svc' = [svc EXCEPT !.status = s] /\ svcFresh' = {}
        BY <1>8 DEF PatchStatus, WriteService
    <2>2. "gen" \in DOMAIN s
        BY <1>8, StatusHasGeneration DEF PatchStatus
    <2>3. HasParts(svc')
        BY <1>0, <2>1, <2>2 DEF HasParts
    <2>4. (Goto(w, "mark") /\ UNCHANGED mem) \/ Finish(w)
        BY <1>8 DEF PatchStatus
    <2>5. pc[w] # "idle"
        BY <1>8 DEF PatchStatus, StatusSteps
    <2>6. /\ DOMAIN pc' = Workers /\ DOMAIN mem' = Workers
          /\ \A g \in Workers \ {w} : pc'[g] = pc[g] /\ mem'[g] = mem[g]
          /\ "view" \in DOMAIN mem'[w]
          /\ pc'[w] = "idle" \/ mem'[w].view = mem[w].view
        BY <1>0, <2>4 DEF Finish, Goto, Forgotten
    <2>7. QED  BY <2>1, <2>3, <2>5, <2>6, WritingStep
<1>9. ASSUME NEW w \in Workers, MarkFirstActivity(w) PROVE FreshViewIsCurrent'
    <2>1. HasParts(svc') /\ svcFresh' = {}
        BY <1>0, <1>9 DEF MarkFirstActivity, WriteService, HasParts
    <2>2. /\ DOMAIN pc' = Workers /\ DOMAIN mem' = Workers /\ pc'[w] = "idle"
          /\ \A g \in Workers \ {w} : pc'[g] = pc[g] /\ mem'[g] = mem[g]
          /\ "view" \in DOMAIN mem'[w]
        BY <1>0, <1>9 DEF MarkFirstActivity, Finish, Goto, Forgotten
    <2>3. QED  BY <2>1, <2>2, WritingStep
<1>10. QED
    BY <1>1, <1>2, <1>3, <1>4, <1>5, <1>6, <1>7, <1>8, <1>9 DEF LNext, Step, Waiting

(* FreshViewIsCurrent is an invariant: whoever holds the resourceVersion of  *)
(* the service computes its status from the current generation.              *)
THEOREM FreshViewThm == LSpec => []FreshViewIsCurrent
BY InitFresh, StepFresh, PTL DEF LSpec

(* StatusOfCurrentSpec: no reconcile, however stale, reports its result for  *)
(* a desired state that has been replaced since.                             *)
THEOREM StatusThm == LSpec => StatusOfCurrentSpec
<1> DEFINE Reports == svc'.status # svc.status => svc'.status.gen = svc.gen
<1>1. FreshViewIsCurrent /\ [LNext]_lvars => [Reports]_lvars
    <2> SUFFICES ASSUME FreshViewIsCurrent, LNext, svc'.status # svc.status
                 PROVE  svc'.status.gen = svc.gen
        OBVIOUS
    <2>0. HasParts(svc)
        BY DEF FreshViewIsCurrent
    <2>1. ASSUME NEW w \in Workers, PatchStatus(w) PROVE svc'.status.gen = svc.gen
        <3>1. PICK s \in Statuses(w) : svc' = [svc EXCEPT !.status = s]
            BY <2>1 DEF PatchStatus, WriteService
        <3>2. s.gen = mem[w].view.gen
            BY <2>1, StatusHasGeneration DEF PatchStatus
        <3>3. mem[w].view.gen = svc.gen
            BY <2>1 DEF PatchStatus, StatusSteps, StatusFenced, FreshViewIsCurrent
        <3>4. QED  BY <2>0, <3>1, <3>2, <3>3 DEF HasParts
    <2>2. ASSUME NEW c \in Commands, Edit(c) PROVE FALSE
        BY <2>0, <2>2 DEF Edit, WriteService, HasParts
    <2>3. CASE GoIdle
        BY <2>0, <2>3 DEF GoIdle, HasParts
    <2>4. CASE Exhaust \/ Replenish \/ HpaScale \/ PodsFollow \/ GpuSchedules
        BY <2>4 DEF Exhaust, Replenish, HpaScale, PodsFollow, GpuSchedules, objects
    <2>5. ASSUME NEW r \in Requests, RequestStep(r) \/ ColdStartTimeout(r) PROVE FALSE
        BY <2>0, <2>5 DEF RequestStep, Arrive, MarkActivity, Wake, Poll, ColdStartTimeout,
                          WriteService, HasParts, objects
    <2>6. ASSUME NEW w \in Workers, MarkFirstActivity(w) PROVE FALSE
        BY <2>0, <2>6 DEF MarkFirstActivity, WriteService, HasParts
    <2>7. ASSUME NEW w \in Workers,
                 \/ Observe(w) \/ Meter(w) \/ DeleteAutoscaler(w) \/ ScaleToZero(w)
                 \/ GpuJob(w) \/ Inspect(w) \/ Waiting(w) \/ Fail(w)
                 \/ ReadDeployment(w) \/ CreateDeployment(w) \/ Handoff(w)
                 \/ ApplyTemplate(w) \/ ScalingConflict(w) \/ ApplyAutoscaler(w)
                 \/ ListPods(w) \/ ReleaseJob(w) \/ StatusConflict(w)
          PROVE  FALSE
        BY <2>7 DEF Observe, Meter, DeleteAutoscaler, ScaleToZero, GpuJob, Inspect, Waiting,
              WaitForVpc, WaitForImage, WaitForCapacity, WaitAt,
              Fail, ReadDeployment, CreateDeployment, Handoff, ApplyTemplate,
              ScalingConflict, ApplyAutoscaler, ListPods, ReleaseJob, StatusConflict,
              Abort, objects
    <2>8. QED
        BY <2>1, <2>2, <2>3, <2>4, <2>5, <2>6, <2>7 DEF LNext, Step, Waiting
<1>2. QED
    BY <1>1, FreshViewThm, PTL DEF LSpec, StatusOfCurrentSpec

-----------------------------------------------------------------------------
(* What a reconcile knows of the Deployment and of the service. *)

MemFields == {"view", "cold", "quota", "assigned", "legacy", "replicas", "seen",
              "released"}

Shapes ==
    /\ DOMAIN dep = {"exists", "replicas", "owners"}
    /\ DOMAIN svc = {"cmd", "gen", "activity", "status"}
    /\ svc.cmd \in Commands
    /\ DOMAIN pc = Workers /\ DOMAIN mem = Workers
    /\ \A w \in Workers : DOMAIN mem[w] = MemFields

(* With the Deployment's version in hand the count that was read is the      *)
(* count, and between the handoff and the template another manager than the  *)
(* main one owns it.                                                         *)
DepRead(w) ==
    w \in depFresh =>
        /\ pc[w] = "handoff" => /\ dep.replicas = mem[w].replicas
                                /\ "main" \in dep.owners => mem[w].legacy
        /\ pc[w] = "template" /\ WantsHpa(w) => dep.owners # {"main"}

StopSteps == {"stopHpa", "stopZero", "listPods", "releaseJob", "stopStatus"}

(* Which branch a reconcile is in is decided by the command it observed;     *)
(* with the service's version in hand that is the current one.               *)
Decided(w) ==
    /\ pc[w] # "idle" => mem[w].view.cmd \in Commands
    /\ pc[w] \in StopSteps => mem[w].view.cmd.stopped
    /\ pc[w] \notin StopSteps \cup {"idle", "meter"} => ~mem[w].view.cmd.stopped
    /\ pc[w] = "releaseJob" => mem[w].view.cmd.gpu
    /\ pc[w] # "idle" /\ w \in svcFresh =>
          mem[w].view.cmd = svc.cmd /\ mem[w].view.status = svc.status

ReconcileInv == Shapes /\ \A w \in Workers : DepRead(w) /\ Decided(w)

(* No reconcile has read anything yet. *)
LEMMA InitReconcile == LInit => ReconcileInv
<1> SUFFICES ASSUME LInit PROVE ReconcileInv
    OBVIOUS
<1>1. Shapes
    BY DEF LInit, Shapes, MemFields, NoDeployment, Forgotten
<1>2. ASSUME NEW w \in Workers PROVE DepRead(w) /\ Decided(w)
    BY DEF LInit, DepRead, Decided, StopSteps
<1>3. QED  BY <1>1, <1>2 DEF ReconcileInv

(* The steps of a reconcile that leave the service alone and go on. *)
Working(w) ==
    \/ DeleteAutoscaler(w) \/ ScaleToZero(w) \/ GpuJob(w) \/ Inspect(w) \/ Waiting(w)
    \/ ReadDeployment(w) \/ CreateDeployment(w) \/ Handoff(w) \/ ApplyTemplate(w)
    \/ ApplyAutoscaler(w) \/ ListPods(w) \/ ReleaseJob(w)

Aborting(w) == ScalingConflict(w) \/ StatusConflict(w) \/ Fail(w)

Acting(w) ==
    \/ Observe(w) \/ Meter(w) \/ Working(w) \/ Aborting(w)
    \/ PatchStatus(w) \/ MarkFirstActivity(w)

Outside ==
    \/ \E c \in Commands : Edit(c)
    \/ GoIdle \/ Exhaust \/ Replenish \/ HpaScale \/ PodsFollow \/ GpuSchedules
    \/ \E r \in Requests : RequestStep(r) \/ ColdStartTimeout(r)
    \/ UNCHANGED lvars

(* A step belongs to one reconcile or to none. *)
LEMMA EveryStep == [LNext]_lvars => Outside \/ \E w \in Workers : Acting(w)
BY DEF LNext, Outside, Acting, Working, Aborting, Waiting, Step

(* What a step of one reconcile leaves alone of the others. *)
LEMMA ActingFrame ==
    ASSUME Shapes, NEW w \in Workers, Acting(w)
    PROVE  /\ DOMAIN pc' = Workers /\ DOMAIN mem' = Workers
           /\ \A g \in Workers \ {w} : pc'[g] = pc[g] /\ mem'[g] = mem[g]
           /\ DOMAIN mem'[w] = MemFields
<1>0. DOMAIN pc = Workers /\ DOMAIN mem = Workers /\ DOMAIN mem[w] = MemFields
    BY DEF Shapes
<1>1. CASE Observe(w)
    BY <1>0, <1>1 DEF Observe, Goto, Forgotten, MemFields
<1>2. CASE Meter(w)
    BY <1>0, <1>2 DEF Meter, Goto
<1>3. CASE Working(w)
    <2>1. /\ DOMAIN pc' = Workers
          /\ \A g \in Workers \ {w} : pc'[g] = pc[g]
        BY <1>0, <1>3 DEF Working, DeleteAutoscaler, ScaleToZero, GpuJob, Inspect, Waiting,
              WaitForVpc, WaitForImage, WaitForCapacity, WaitAt,
              ReadDeployment, CreateDeployment, Handoff, ApplyTemplate, ApplyAutoscaler,
              ListPods, ReleaseJob, Goto
    <2>2. /\ DOMAIN mem' = Workers
          /\ \A g \in Workers \ {w} : mem'[g] = mem[g]
          /\ DOMAIN mem'[w] = MemFields
        BY <1>0, <1>3 DEF Working, DeleteAutoscaler, ScaleToZero, GpuJob, Inspect, Waiting,
              WaitForVpc, WaitForImage, WaitForCapacity, WaitAt,
              ReadDeployment, CreateDeployment, Handoff, ApplyTemplate, ApplyAutoscaler,
              ListPods, ReleaseJob
    <2>3. QED  BY <2>1, <2>2
<1>4. CASE Aborting(w)
    <2>1. Finish(w)
        BY <1>4 DEF Aborting, ScalingConflict, StatusConflict, Fail, Abort
    <2>2. QED  BY <1>0, <2>1 DEF Finish, Goto, Forgotten, MemFields
<1>5. CASE PatchStatus(w) \/ MarkFirstActivity(w)
    <2>1. (Goto(w, "mark") /\ UNCHANGED mem) \/ Finish(w)
        BY <1>5 DEF PatchStatus, MarkFirstActivity
    <2>2. QED  BY <1>0, <2>1 DEF Finish, Goto, Forgotten, MemFields
<1>6. QED  BY <1>1, <1>2, <1>3, <1>4, <1>5 DEF Acting

(* A reconcile's write of the Deployment or of the service leaves no version *)
(* but its own valid.                                                        *)
LEMMA ActingObjects ==
    ASSUME Shapes, NEW w \in Workers, Acting(w)
    PROVE  /\ depFresh' \subseteq {w} \/ (dep' = dep /\ depFresh' \subseteq depFresh \cup {w})
           /\ svcFresh' = {} \/ (svc' = svc /\ svcFresh' \subseteq svcFresh \cup {w})
           /\ DOMAIN dep' = {"exists", "replicas", "owners"}
           /\ DOMAIN svc' = {"cmd", "gen", "activity", "status"}
           /\ svc'.cmd = svc.cmd
<1>0. /\ DOMAIN dep = {"exists", "replicas", "owners"}
      /\ DOMAIN svc = {"cmd", "gen", "activity", "status"}
    BY DEF Shapes
<1>1. CASE Observe(w) \/ Meter(w)
    BY <1>0, <1>1 DEF Observe, Meter, objects
<1>2. CASE Working(w)
    <2>1. svc' = svc /\ svcFresh' = svcFresh
        BY <1>2 DEF Working, DeleteAutoscaler, ScaleToZero, GpuJob, Inspect, Waiting,
              WaitForVpc, WaitForImage, WaitForCapacity, WaitAt,
              ReadDeployment, CreateDeployment, Handoff, ApplyTemplate, ApplyAutoscaler,
              ListPods, ReleaseJob, objects
    <2>2. CASE DeleteAutoscaler(w) \/ GpuJob(w) \/ Inspect(w) \/ Waiting(w)
               \/ ReadDeployment(w) \/ ApplyAutoscaler(w) \/ ListPods(w) \/ ReleaseJob(w)
        <3>1. dep' = dep /\ depFresh' \subseteq depFresh \cup {w}
            BY <2>2 DEF DeleteAutoscaler, GpuJob, Inspect, Waiting, WaitForVpc, WaitForImage,
                  WaitForCapacity, WaitAt, ReadDeployment, ApplyAutoscaler, ListPods,
                  ReleaseJob, objects
        <3>2. QED  BY <1>0, <2>1, <3>1
    <2>3. CASE ScaleToZero(w) \/ Handoff(w)
        <3>1. \/ dep' = dep /\ depFresh' = depFresh
              \/ depFresh' \subseteq {w} /\ DOMAIN dep' = DOMAIN dep
            BY <2>3 DEF ScaleToZero, Handoff, WriteDeployment, KeepDeployment
        <3>2. QED  BY <1>0, <2>1, <3>1
    <2>4. CASE CreateDeployment(w) \/ ApplyTemplate(w)
        <3>1. depFresh' \subseteq {w} /\ DOMAIN dep' = {"exists", "replicas", "owners"}
            BY <1>0, <2>4 DEF CreateDeployment, ApplyTemplate, WriteDeployment
        <3>2. QED  BY <1>0, <2>1, <3>1
    <2>5. QED  BY <1>2, <2>2, <2>3, <2>4 DEF Working
<1>3. CASE Aborting(w)
    <2>1. Abort(w)
        BY <1>3 DEF Aborting, ScalingConflict, StatusConflict, Fail
    <2>2. QED  BY <1>0, <2>1 DEF Abort, objects
<1>4. CASE PatchStatus(w)
    BY <1>0, <1>4 DEF PatchStatus, WriteService
<1>5. CASE MarkFirstActivity(w)
    BY <1>0, <1>5 DEF MarkFirstActivity, WriteService
<1>6. QED  BY <1>1, <1>2, <1>3, <1>4, <1>5 DEF Acting

(* A working step keeps the view, and stays in its branch. *)
LEMMA WorkingBranch ==
    ASSUME Shapes, NEW w \in Workers, Working(w)
    PROVE  /\ mem'[w].view = mem[w].view
           /\ pc[w] \notin {"idle", "meter"} \/ Waiting(w)
           /\ Waiting(w) => /\ pc[w] \in {"meter", "inspect"}
                            /\ pc[w] = "meter" => ~mem[w].view.cmd.stopped
                            /\ pc'[w] \in {"waitStatus", "heldStatus"}
           /\ pc'[w] \notin {"idle", "meter"}
           /\ pc'[w] \in StopSteps <=> pc[w] \in StopSteps
           /\ pc'[w] = "releaseJob" => mem[w].view.cmd.gpu
<1>0. DOMAIN pc = Workers /\ DOMAIN mem = Workers /\ DOMAIN mem[w] = MemFields
    BY DEF Shapes
<1>1. mem'[w].view = mem[w].view
    BY <1>0 DEF Working, DeleteAutoscaler, ScaleToZero, GpuJob, Inspect, Waiting,
              WaitForVpc, WaitForImage, WaitForCapacity, WaitAt,
              ReadDeployment, CreateDeployment, Handoff, ApplyTemplate, ApplyAutoscaler,
              ListPods, ReleaseJob, MemFields
<1>2. CASE DeleteAutoscaler(w)
    BY <1>0, <1>1, <1>2 DEF DeleteAutoscaler, AfterHpa, Goto, StopSteps, Waiting, WaitForVpc,
          WaitForImage, WaitForCapacity, WaitAt
<1>3. CASE ScaleToZero(w)
    BY <1>0, <1>1, <1>3 DEF ScaleToZero, AfterZero, Goto, StopSteps, Waiting, WaitForVpc,
          WaitForImage, WaitForCapacity, WaitAt
<1>4. CASE Waiting(w)
    BY <1>0, <1>1, <1>4 DEF Waiting, WaitForVpc, WaitForImage, WaitForCapacity, WaitAt, Goto,
          StopSteps
<1>5. CASE ListPods(w)
    BY <1>0, <1>1, <1>5 DEF ListPods, MayRelease, Goto, StopSteps, Waiting, WaitForVpc,
          WaitForImage, WaitForCapacity, WaitAt
<1>6. CASE GpuJob(w) \/ Inspect(w)
    <2>1. /\ pc[w] \in {"gpuJob", "inspect"}
          /\ pc'[w] \in {"inspect", "queueHpa", "rejectStatus", "readDep", "fixHpa"}
                 \cup {"waitStatus", "heldStatus"}
        BY <1>0, <1>6 DEF GpuJob, Inspect, Goto
    <2>2. Waiting(w) => pc[w] = "inspect" /\ pc'[w] \in {"waitStatus", "heldStatus"}
        BY <1>0, <2>1 DEF Waiting, WaitForVpc, WaitForImage, WaitForCapacity, WaitAt, Goto
    <2>3. QED  BY <1>1, <2>1, <2>2 DEF StopSteps
<1>7. CASE ReadDeployment(w) \/ CreateDeployment(w) \/ Handoff(w) \/ ApplyTemplate(w)
           \/ ApplyAutoscaler(w)
    <2>1. /\ pc[w] \in {"readDep", "create", "handoff", "template", "applyHpa"}
          /\ pc'[w] \in {"create", "handoff", "template", "applyHpa", "countPods"}
        BY <1>0, <1>7 DEF ReadDeployment, CreateDeployment, Handoff, ApplyTemplate,
              ApplyAutoscaler, Goto
    <2>2. ~Waiting(w)
        BY <2>1 DEF Waiting, WaitForVpc, WaitForImage, WaitForCapacity, WaitAt
    <2>3. QED  BY <1>1, <2>1, <2>2 DEF StopSteps
<1>8. CASE ReleaseJob(w)
    BY <1>0, <1>1, <1>8 DEF ReleaseJob, Goto, StopSteps, Waiting, WaitForVpc,
          WaitForImage, WaitForCapacity, WaitAt
<1>9. QED
    BY <1>2, <1>3, <1>4, <1>5, <1>6, <1>7, <1>8 DEF Working

(* The command observed decides the branch, in every step of a reconcile. *)
LEMMA DecidedOwnStep ==
    ASSUME Shapes, NEW w \in Workers, Decided(w), Acting(w)
    PROVE  Decided(w)'
<1>0. DOMAIN pc = Workers /\ DOMAIN mem = Workers /\ DOMAIN mem[w] = MemFields
      /\ svc.cmd \in Commands
    BY DEF Shapes
<1>1. CASE Observe(w)
    <2>1. pc'[w] = "meter" /\ mem'[w].view = svc /\ svc' = svc
        BY <1>0, <1>1 DEF Observe, Goto, Forgotten, objects
    <2>2. QED  BY <1>0, <2>1 DEF Decided, StopSteps
<1>2. CASE Meter(w)
    <2>1. /\ pc[w] = "meter" /\ mem'[w].view = mem[w].view
          /\ svc' = svc /\ svcFresh' = svcFresh
          /\ pc'[w] = IF mem[w].view.cmd.stopped THEN "stopHpa"
                      ELSE IF exhausted THEN "quotaHpa" ELSE "gpuJob"
        BY <1>0, <1>2 DEF Meter, Goto, objects, MemFields
    <2>2. QED  BY <2>1 DEF Decided, StopSteps
<1>3. CASE Working(w)
    <2>1. svc' = svc /\ svcFresh' = svcFresh
        BY <1>3 DEF Working, DeleteAutoscaler, ScaleToZero, GpuJob, Inspect, Waiting,
              WaitForVpc, WaitForImage, WaitForCapacity, WaitAt,
              ReadDeployment, CreateDeployment, Handoff, ApplyTemplate, ApplyAutoscaler,
              ListPods, ReleaseJob, objects
    <2>2. pc[w] # "idle"
        BY <1>3, WorkingBranch
    <2>3. QED  BY <1>3, <2>1, <2>2, WorkingBranch DEF Decided, StopSteps
<1>4. CASE Aborting(w)
    <2>1. pc'[w] = "idle"
        BY <1>0, <1>4 DEF Aborting, ScalingConflict, StatusConflict, Fail, Abort, Finish, Goto
    <2>2. QED  BY <2>1 DEF Decided, StopSteps
<1>5. CASE PatchStatus(w)
    <2>1. svcFresh' = {}
        BY <1>5 DEF PatchStatus, WriteService
    <2>2. \/ pc'[w] = "idle"
          \/ pc[w] = "status" /\ pc'[w] = "mark" /\ mem'[w].view = mem[w].view
        BY <1>0, <1>5 DEF PatchStatus, Finish, Goto
    <2>3. QED  BY <2>1, <2>2 DEF Decided, StopSteps
<1>6. CASE MarkFirstActivity(w)
    <2>1. pc'[w] = "idle"
        BY <1>0, <1>6 DEF MarkFirstActivity, Finish, Goto
    <2>2. QED  BY <2>1 DEF Decided, StopSteps
<1>7. QED  BY <1>1, <1>2, <1>3, <1>4, <1>5, <1>6 DEF Acting

(* The handoff, where the count is safe until the template: it is applied by *)
(* a manager of its own, or the main one does not own it.                    *)
LEMMA HandoffOwners ==
    ASSUME Shapes, NEW w \in Workers, DepRead(w), Handoff(w)
    PROVE  DepRead(w)'
<1>0. /\ DOMAIN pc = Workers /\ DOMAIN dep = {"exists", "replicas", "owners"}
      /\ pc[w] = "handoff" /\ pc'[w] = "template" /\ mem' = mem
    BY DEF Shapes, Handoff, Goto
<1>1. CASE HandsOff(w)
    <2>1. dep'.owners = AppliedOwners("replicas", HandoffCount(w))
        BY <1>0, <1>1 DEF Handoff
    <2>2. "replicas" \in dep'.owners
        BY <2>1 DEF AppliedOwners
    <2>3. QED  BY <1>0, <2>2 DEF DepRead
<1>2. CASE ~HandsOff(w)
    <2>1. dep' = dep /\ depFresh' = depFresh /\ ~mem[w].legacy
        BY <1>2 DEF Handoff, HandsOff, KeepDeployment
    <2>2. QED  BY <1>0, <2>1 DEF DepRead
<1>3. QED  BY <1>1, <1>2

(* What a reconcile knows of the count, after a step of its own. *)
LEMMA DepReadOwnStep ==
    ASSUME Shapes, NEW w \in Workers, DepRead(w), Acting(w)
    PROVE  DepRead(w)'
<1>0. DOMAIN pc = Workers /\ DOMAIN mem = Workers /\ DOMAIN mem[w] = MemFields
    BY DEF Shapes
<1>1. CASE ReadDeployment(w)
    <2>1. CASE dep.exists
        <3>1. /\ pc'[w] = "handoff" /\ dep' = dep
              /\ mem'[w].replicas = dep.replicas
              /\ mem'[w].legacy = ("main" \in dep.owners)
            BY <1>0, <1>1, <2>1 DEF ReadDeployment, Goto, objects, MemFields
        <3>2. QED  BY <3>1 DEF DepRead
    <2>2. CASE ~dep.exists
        BY <1>0, <1>1, <2>2 DEF ReadDeployment, Goto, DepRead
    <2>3. QED  BY <2>1, <2>2
<1>2. CASE CreateDeployment(w)
    <2>1. /\ pc'[w] = "handoff" /\ dep'.replicas = Replicas
          /\ mem'[w].replicas = Replicas /\ mem'[w].legacy
        BY <1>0, <1>2 DEF CreateDeployment, Goto, MemFields
    <2>2. QED  BY <2>1 DEF DepRead
<1>3. CASE Handoff(w)
    BY <1>3, HandoffOwners
<1>4. CASE \/ DeleteAutoscaler(w) \/ ScaleToZero(w) \/ GpuJob(w) \/ Inspect(w) \/ Waiting(w)
           \/ ApplyTemplate(w) \/ ApplyAutoscaler(w) \/ ListPods(w) \/ ReleaseJob(w)
    <2>1. CASE DeleteAutoscaler(w) \/ ScaleToZero(w)
        BY <1>0, <2>1 DEF DeleteAutoscaler, ScaleToZero, AfterHpa, AfterZero, Goto, DepRead
    <2>2. CASE GpuJob(w) \/ Inspect(w) \/ Waiting(w) \/ ApplyTemplate(w)
               \/ ApplyAutoscaler(w) \/ ListPods(w) \/ ReleaseJob(w)
        <3>1. pc'[w] \notin {"handoff", "template"}
            BY <1>0, <2>2 DEF GpuJob, Inspect, Waiting, WaitForVpc, WaitForImage,
                  WaitForCapacity, WaitAt, ApplyTemplate, ApplyAutoscaler, ListPods,
                  ReleaseJob, Goto
        <3>2. QED  BY <3>1 DEF DepRead
    <2>3. QED  BY <1>4, <2>1, <2>2
<1>5. CASE Observe(w) \/ Meter(w) \/ Aborting(w) \/ PatchStatus(w) \/ MarkFirstActivity(w)
    <2>1. pc'[w] \notin {"handoff", "template"}
        BY <1>0, <1>5 DEF Observe, Meter, Aborting, ScalingConflict, StatusConflict, Fail,
              Abort, PatchStatus, MarkFirstActivity, Finish, Goto
    <2>2. QED  BY <2>1 DEF DepRead
<1>6. QED  BY <1>1, <1>2, <1>3, <1>4, <1>5 DEF Acting, Working

(* Reconciles that do not act. *)
LEMMA BystanderStep ==
    ASSUME NEW g \in Workers, DepRead(g), Decided(g), pc'[g] = pc[g], mem'[g] = mem[g],
           g \in depFresh' => dep' = dep /\ g \in depFresh,
           g \in svcFresh' => svc'.cmd = svc.cmd /\ svc'.status = svc.status /\ g \in svcFresh
    PROVE  DepRead(g)' /\ Decided(g)'
<1>1. DepRead(g)'
    BY DEF DepRead, WantsHpa, Suspended
<1>2. Decided(g)'
    BY DEF Decided
<1>3. QED  BY <1>1, <1>2

(* What the steps of nobody's reconcile leave alone. *)
LEMMA OutsideObjects ==
    ASSUME Shapes, Outside
    PROVE  /\ pc' = pc /\ mem' = mem
           /\ depFresh' = {} \/ (dep' = dep /\ depFresh' = depFresh)
           /\ svcFresh' = {} \/ (/\ svc'.cmd = svc.cmd /\ svc'.status = svc.status
                                 /\ svcFresh' = svcFresh)
           /\ DOMAIN dep' = {"exists", "replicas", "owners"}
           /\ DOMAIN svc' = {"cmd", "gen", "activity", "status"}
           /\ svc'.cmd \in Commands
<1>0. /\ DOMAIN dep = {"exists", "replicas", "owners"}
      /\ DOMAIN svc = {"cmd", "gen", "activity", "status"} /\ svc.cmd \in Commands
    BY DEF Shapes
<1>1. ASSUME NEW c \in Commands, Edit(c)
      PROVE  /\ svcFresh' = {} /\ DOMAIN svc' = DOMAIN svc /\ svc'.cmd = c
             /\ UNCHANGED <<pc, mem, dep, depFresh>>
    BY <1>0, <1>1 DEF Edit, WriteService
<1>2. CASE GoIdle
    BY <1>0, <1>2 DEF GoIdle, control
<1>3. CASE Exhaust \/ Replenish \/ GpuSchedules \/ UNCHANGED lvars
    BY <1>0, <1>3 DEF Exhaust, Replenish, GpuSchedules, objects, control, lvars
<1>4. CASE HpaScale
    BY <1>0, <1>4 DEF HpaScale, WriteDeployment
<1>5. CASE PodsFollow
    BY <1>0, <1>5 DEF PodsFollow
<1>6. ASSUME NEW r \in Requests, RequestStep(r) \/ ColdStartTimeout(r)
      PROVE  /\ pc' = pc /\ mem' = mem
             /\ depFresh' = {} \/ (dep' = dep /\ depFresh' = depFresh)
             /\ svcFresh' = {} \/ (svc' = svc /\ svcFresh' = svcFresh)
             /\ DOMAIN dep' = DOMAIN dep /\ DOMAIN svc' = DOMAIN svc
             /\ svc'.cmd = svc.cmd
    <2>1. CASE MarkActivity(r)
        BY <1>0, <2>1 DEF MarkActivity, WriteService
    <2>2. CASE Wake(r)
        BY <1>0, <2>2 DEF Wake, WriteDeployment, KeepDeployment
    <2>3. CASE Arrive(r) \/ Poll(r) \/ ColdStartTimeout(r)
        BY <2>3 DEF Arrive, Poll, ColdStartTimeout, objects, control
    <2>4. QED  BY <1>6, <2>1, <2>2, <2>3 DEF RequestStep
<1>7. QED
    BY <1>0, <1>1, <1>2, <1>3, <1>4, <1>5, <1>6 DEF Outside

(* Every step keeps ReconcileInv, for the one that acts and for the others. *)
LEMMA StepReconcile == ReconcileInv /\ [LNext]_lvars => ReconcileInv'
<1> SUFFICES ASSUME ReconcileInv, [LNext]_lvars PROVE ReconcileInv'
    OBVIOUS
<1>0. Shapes /\ \A g \in Workers : DepRead(g) /\ Decided(g)
    BY DEF ReconcileInv
<1>1. CASE Outside
    <2>1. Shapes'
        BY <1>0, <1>1, OutsideObjects DEF Shapes
    <2>2. ASSUME NEW g \in Workers PROVE DepRead(g)' /\ Decided(g)'
        <3>1. pc' = pc /\ mem' = mem
            BY <1>0, <1>1, OutsideObjects
        <3>2. g \in depFresh' => dep' = dep /\ g \in depFresh
            BY <1>0, <1>1, OutsideObjects
        <3>3. g \in svcFresh' => /\ svc'.cmd = svc.cmd /\ svc'.status = svc.status
                                 /\ g \in svcFresh
            BY <1>0, <1>1, OutsideObjects
        <3>4. QED  BY <1>0, <3>1, <3>2, <3>3, BystanderStep
    <2>3. QED  BY <2>1, <2>2 DEF ReconcileInv
<1>2. ASSUME NEW w \in Workers, Acting(w) PROVE ReconcileInv'
    <2>1. Shapes'
        <3>1. svc.cmd \in Commands /\ \A g \in Workers : DOMAIN mem[g] = MemFields
            BY <1>0 DEF Shapes
        <3>2. \A g \in Workers : DOMAIN mem'[g] = MemFields
            BY <1>0, <1>2, <3>1, ActingFrame
        <3>3. QED  BY <1>0, <1>2, <3>1, <3>2, ActingFrame, ActingObjects DEF Shapes
    <2>2. ASSUME NEW g \in Workers PROVE DepRead(g)' /\ Decided(g)'
        <3>1. CASE g = w
            BY <1>0, <1>2, <3>1, DepReadOwnStep, DecidedOwnStep
        <3>2. CASE g # w
            <4>1. pc'[g] = pc[g] /\ mem'[g] = mem[g]
                BY <1>0, <1>2, <3>2, ActingFrame
            <4>2. g \in depFresh' => dep' = dep /\ g \in depFresh
                BY <1>0, <1>2, <3>2, ActingObjects
            <4>3. g \in svcFresh' => svc' = svc /\ g \in svcFresh
                BY <1>0, <1>2, <3>2, ActingObjects
            <4>4. QED  BY <1>0, <4>1, <4>2, <4>3, BystanderStep
        <3>3. QED  BY <3>1, <3>2
    <2>3. QED  BY <2>1, <2>2 DEF ReconcileInv
<1>3. QED  BY <1>1, <1>2, EveryStep

(* ReconcileInv is an invariant: what each reconcile knows at each of its    *)
(* steps of the count of the Deployment and of the command it carries out.   *)
THEOREM ReconcileInvariance == LSpec => []ReconcileInv
BY InitReconcile, StepReconcile, PTL DEF LSpec

(* HandoffKeepsCount: under an autoscaler neither the handoff of the count's *)
(* ownership nor the template apply changes the count, except from zero.     *)
THEOREM HandoffThm == LSpec => HandoffKeepsCount
<1> DEFINE Keeps == \A w \in Workers :
                        /\ pc[w] \in {"handoff", "template"} /\ pc'[w] # pc[w]
                        /\ WantsHpa(w)
                        => dep.replicas \in {0, dep'.replicas}
<1>1. ReconcileInv /\ [LNext]_lvars => [Keeps]_lvars
    <2> SUFFICES ASSUME ReconcileInv, [LNext]_lvars, NEW w \in Workers,
                        pc[w] \in {"handoff", "template"}, pc'[w] # pc[w], WantsHpa(w)
                 PROVE  dep.replicas \in {0, dep'.replicas}
        OBVIOUS
    <2>0. Shapes /\ DepRead(w)
        BY DEF ReconcileInv
    <2>1. Acting(w)
        <3>1. ~Outside
            BY <2>0, OutsideObjects
        <3>2. PICK v \in Workers : Acting(v)
            BY <3>1, EveryStep
        <3>3. QED  BY <2>0, <3>2, ActingFrame
    <2>2. DOMAIN dep = {"exists", "replicas", "owners"}
        BY <2>0 DEF Shapes
    <2>3. CASE Handoff(w)
        <3>1. CASE HandsOff(w)
            <4>1. dep'.replicas = HandoffCount(w) /\ w \in depFresh /\ pc[w] = "handoff"
                BY <2>2, <2>3, <3>1 DEF Handoff, DeploymentFenced
            <4>2. dep.replicas = mem[w].replicas
                BY <2>0, <4>1 DEF DepRead
            <4>3. ~Suspended(w)
                BY DEF WantsHpa
            <4>4. CASE mem[w].replicas = 0
                BY <4>2, <4>4
            <4>5. CASE mem[w].replicas # 0
                BY <4>1, <4>2, <4>3, <4>5 DEF HandoffCount, WakeAutoscaler
            <4>6. QED  BY <4>4, <4>5
        <3>2. CASE ~HandsOff(w)
            BY <2>3, <3>2 DEF Handoff, KeepDeployment
        <3>3. QED  BY <3>1, <3>2
    <2>4. CASE ApplyTemplate(w)
        <3>1. dep.owners # {"main"}
            BY <2>0, <2>4 DEF ApplyTemplate, DeploymentFenced, DepRead
        <3>2. QED  BY <2>2, <2>4, <3>1 DEF ApplyTemplate, WriteDeployment
    <2>5. CASE Aborting(w)
        BY <2>5 DEF Aborting, ScalingConflict, StatusConflict, Fail, Abort, objects
    <2>6. QED
        <3>1. ~Observe(w) /\ ~Meter(w) /\ ~PatchStatus(w) /\ ~MarkFirstActivity(w)
            BY DEF Observe, Meter, PatchStatus, StatusSteps, MarkFirstActivity
        <3>2. ~DeleteAutoscaler(w) /\ ~ScaleToZero(w)
            BY DEF DeleteAutoscaler, ScaleToZero, AfterHpa, AfterZero
        <3>3. /\ ~GpuJob(w) /\ ~Inspect(w) /\ ~Waiting(w) /\ ~ReadDeployment(w)
              /\ ~CreateDeployment(w) /\ ~ApplyAutoscaler(w) /\ ~ListPods(w) /\ ~ReleaseJob(w)
            BY DEF GpuJob, Inspect, Waiting, WaitForVpc, WaitForImage, WaitForCapacity, WaitAt,
                   ReadDeployment, CreateDeployment, ApplyAutoscaler, ListPods, ReleaseJob
        <3>4. QED  BY <2>1, <2>3, <2>4, <2>5, <3>1, <3>2, <3>3 DEF Acting, Working
<1>2. QED
    BY <1>1, ReconcileInvariance, PTL DEF LSpec, HandoffKeepsCount

-----------------------------------------------------------------------------
(* Draining a stopped service.  With two controller replicas a stale         *)
(* reconcile may start Pods while the other one drains; a stop that gives up *)
(* the GPU leaves the job behind; a request admitted before a service got a  *)
(* GPU and was stopped may wake it between the list of its Pods and the      *)
(* release.  The three hypotheses exclude these, and each is needed.         *)

OneController == \A v, w \in Workers : v = w

(* A stopped service without GPU never had one. *)
StopKeepsGpu == \A c, d \in Commands : c.stopped /\ ~c.gpu => ~d.gpu

(* A request never wakes a service that may come to hold a GPU. *)
GpuIsNotWoken ==
    Requests = {} \/ \A c, d \in Commands : c.gpu /\ d.scaling = "zero" => d.gpu

Awake == "activator" \in dep.owners

NoGpuNoJob == (\A c \in Commands : ~c.gpu) => job = "none"

Draining(w) ==
    /\ pc[w] \in StopSteps \ {"stopHpa"} => ~hpa
    /\ pc[w] \in {"listPods", "releaseJob", "stopStatus"} => dep.replicas = 0 \/ Awake
    /\ pc[w] = "releaseJob" \/ (pc[w] = "stopStatus" /\ mem[w].seen = 0)
          => pods = 0 \/ Awake
    /\ pc[w] = "stopStatus" /\ mem[w].released => job = "none"

StatusTellsStopped == "stopped" \in DOMAIN svc.status

DrainInv ==
    /\ ReconcileInv /\ NoGpuNoJob /\ StatusTellsStopped
    /\ \A w \in Workers : Draining(w)

(* Nothing is being drained yet. *)
LEMMA InitDrain == LInit => DrainInv
<1> SUFFICES ASSUME LInit PROVE DrainInv
    OBVIOUS
<1>1. NoGpuNoJob /\ StatusTellsStopped
    BY DEF LInit, NoGpuNoJob, StatusTellsStopped, NoStatus
<1>2. \A w \in Workers : pc[w] = "idle"
    BY DEF LInit
<1>3. \A w \in Workers : Draining(w)
    BY <1>2 DEF Draining, StopSteps
<1>4. QED  BY <1>1, <1>3, InitReconcile DEF DrainInv

(* Nobody creates a job for commands without GPU. *)
LEMMA NoGpuNoJobStep ==
    ASSUME ReconcileInv, NoGpuNoJob, [LNext]_lvars PROVE NoGpuNoJob'
<1> SUFFICES ASSUME \A c \in Commands : ~c.gpu PROVE job' = "none"
    BY DEF NoGpuNoJob
<1>0. job = "none" /\ Shapes /\ \A w \in Workers : Decided(w)
    BY DEF NoGpuNoJob, ReconcileInv
<1>1. CASE Outside
    BY <1>0, <1>1 DEF Outside, Edit, GoIdle, Exhaust, Replenish, HpaScale, PodsFollow,
          GpuSchedules, RequestStep, Arrive, MarkActivity, Wake, Poll, ColdStartTimeout,
          objects, lvars
<1>2. ASSUME NEW w \in Workers, Acting(w) PROVE job' = "none"
    <2>1. CASE GpuJob(w)
        <3>1. ~mem[w].view.cmd.gpu
            BY <1>0, <2>1 DEF GpuJob, Decided
        <3>2. QED  BY <1>0, <2>1, <3>1 DEF GpuJob, JobDeleted
    <2>2. CASE ReleaseJob(w)
        BY <1>0, <2>2 DEF ReleaseJob, JobDeleted
    <2>3. CASE ~GpuJob(w) /\ ~ReleaseJob(w)
        BY <1>0, <1>2, <2>3 DEF Acting, Working, Aborting, Observe, Meter, DeleteAutoscaler,
              ScaleToZero, Inspect, Waiting, WaitForVpc, WaitForImage, WaitForCapacity,
              WaitAt, ReadDeployment, CreateDeployment, Handoff, ApplyTemplate,
              ApplyAutoscaler, ListPods, PatchStatus, MarkFirstActivity, ScalingConflict,
              StatusConflict, Fail, Abort, objects
    <2>4. QED  BY <2>1, <2>2, <2>3
<1>3. QED  BY <1>1, <1>2, EveryStep

(* While a reconcile drains, the autoscaler is gone, so that only a late     *)
(* wake-up raises the count.                                                 *)
LEMMA DrainingOutside ==
    ASSUME Shapes, NEW w \in Workers, Draining(w), Outside
    PROVE  Draining(w)'
<1>0. DOMAIN dep = {"exists", "replicas", "owners"}
    BY DEF Shapes
<1>1. pc' = pc /\ mem' = mem
    BY OutsideObjects
<1>2. CASE HpaScale
    <2>1. pc[w] \notin StopSteps \ {"stopHpa"}
        BY <1>2 DEF HpaScale, Draining
    <2>2. QED  BY <1>1, <2>1 DEF Draining, StopSteps
<1>3. CASE PodsFollow
    <2>1. dep' = dep /\ hpa' = hpa /\ job' = job /\ pods # dep.replicas
        BY <1>3 DEF PodsFollow
    <2>2. QED  BY <1>1, <2>1 DEF Draining, Awake
<1>4. CASE GpuSchedules
    <2>1. dep' = dep /\ hpa' = hpa /\ pods' = pods /\ (job = "none" => job' = "none")
        BY <1>4 DEF GpuSchedules
    <2>2. QED  BY <1>1, <2>1 DEF Draining, Awake
<1>5. ASSUME NEW r \in Requests, Wake(r) PROVE Draining(w)'
    <2>1. hpa' = hpa /\ job' = job /\ pods' = pods
        BY <1>5 DEF Wake
    <2>2. CASE dep.exists
        <3>1. dep'.owners = AppliedOwners("activator", 1)
            BY <1>0, <1>5, <2>2 DEF Wake, WriteDeployment
        <3>2. Awake'
            BY <3>1 DEF AppliedOwners, Awake
        <3>3. QED  BY <1>1, <2>1, <3>2 DEF Draining
    <2>3. CASE ~dep.exists
        <3>1. dep' = dep
            BY <1>5, <2>3 DEF Wake, KeepDeployment
        <3>2. QED  BY <1>1, <2>1, <3>1 DEF Draining, Awake
    <2>4. QED  BY <2>2, <2>3
<1>6. CASE UNCHANGED <<dep, hpa, job, pods>>
    BY <1>1, <1>6 DEF Draining, Awake
<1>7. QED
    BY <1>2, <1>3, <1>4, <1>5, <1>6 DEF Outside, Edit, GoIdle, Exhaust, Replenish,
       RequestStep, Arrive, MarkActivity, Poll, ColdStartTimeout, objects, lvars

(* One step of the draining reconcile after the other. *)
LEMMA DrainingOwnStep ==
    ASSUME StopKeepsGpu, ReconcileInv, NoGpuNoJob, NEW w \in Workers, Draining(w), Acting(w)
    PROVE  Draining(w)'
<1>0. /\ DOMAIN pc = Workers /\ DOMAIN mem = Workers /\ DOMAIN mem[w] = MemFields
      /\ DOMAIN dep = {"exists", "replicas", "owners"}
      /\ Shapes /\ Decided(w)
    BY DEF ReconcileInv, Shapes
<1>1. CASE DeleteAutoscaler(w)
    <2>1. /\ hpa' = FALSE
          /\ pc'[w] \in {"stopZero", "quotaZero", "queueZero", "readDep"}
        BY <1>0, <1>1 DEF DeleteAutoscaler, AfterHpa, Goto
    <2>2. QED  BY <2>1 DEF Draining
<1>2. CASE ScaleToZero(w)
    <2>1. /\ hpa' = hpa
          /\ pc'[w] \in {"listPods", "gpuJob", "queueStatus"}
          /\ pc'[w] = "listPods" => pc[w] = "stopZero"
        BY <1>0, <1>2 DEF ScaleToZero, AfterZero, Goto
    <2>2. dep'.replicas = 0
        BY <1>0, <1>2 DEF ScaleToZero, MustScale, WriteDeployment, KeepDeployment
    <2>3. QED  BY <2>1, <2>2 DEF Draining, StopSteps
<1>3. CASE ListPods(w)
    <2>1. /\ hpa' = hpa /\ dep' = dep /\ pods' = pods /\ job' = job
          /\ mem'[w].seen = pods /\ mem'[w].released = ~mem[w].view.cmd.gpu
        BY <1>0, <1>3 DEF ListPods, objects, MemFields
    <2>2. /\ pc'[w] \in {"status", "releaseJob", "stopStatus"}
          /\ pc'[w] # "status" => pc[w] = "listPods"
          /\ pc'[w] = "releaseJob" => pods = 0
        BY <1>0, <1>3 DEF ListPods, MayRelease, Goto
    <2>3. CASE pc'[w] = "status"
        BY <2>3 DEF Draining, StopSteps
    <2>4. CASE pc'[w] # "status"
        <3>1. mem[w].view.cmd \in Commands /\ mem[w].view.cmd.stopped
            BY <1>0, <2>2, <2>4 DEF Decided, StopSteps
        <3>2. ~mem[w].view.cmd.gpu => job = "none"
            BY <3>1 DEF StopKeepsGpu, NoGpuNoJob
        <3>3. ~hpa /\ (dep.replicas = 0 \/ Awake)
            BY <2>2, <2>4 DEF Draining, StopSteps
        <3>4. QED  BY <2>1, <2>2, <2>4, <3>2, <3>3 DEF Draining, StopSteps, Awake
    <2>5. QED  BY <2>3, <2>4
<1>4. CASE ReleaseJob(w)
    <2>1. /\ hpa' = hpa /\ dep' = dep /\ pods' = pods
          /\ pc[w] = "releaseJob" /\ pc'[w] = "stopStatus"
          /\ mem'[w].released = (job = "none") /\ (job = "none" => job' = "none")
        BY <1>0, <1>4 DEF ReleaseJob, JobDeleted, Goto, MemFields
    <2>2. QED  BY <2>1 DEF Draining, StopSteps, Awake
<1>5. CASE /\ ~DeleteAutoscaler(w) /\ ~ScaleToZero(w) /\ ~ListPods(w) /\ ~ReleaseJob(w)
           /\ Working(w)
    <2>1. pc[w] \notin StopSteps
        BY <1>5 DEF Working, GpuJob, Inspect, Waiting, WaitForVpc, WaitForImage,
              WaitForCapacity, WaitAt, ReadDeployment, CreateDeployment, Handoff,
              ApplyTemplate, ApplyAutoscaler, StopSteps
    <2>2. pc'[w] \notin StopSteps
        BY <1>0, <1>5, <2>1, WorkingBranch
    <2>3. QED  BY <2>2 DEF Draining, StopSteps
<1>6. CASE Observe(w) \/ Meter(w) \/ Aborting(w) \/ PatchStatus(w) \/ MarkFirstActivity(w)
    <2>1. pc'[w] \notin StopSteps \ {"stopHpa"}
        BY <1>0, <1>6 DEF Observe, Meter, Aborting, ScalingConflict, StatusConflict, Fail,
              Abort, PatchStatus, MarkFirstActivity, Finish, Goto, StopSteps
    <2>2. QED  BY <2>1 DEF Draining, StopSteps
<1>7. QED  BY <1>1, <1>2, <1>3, <1>4, <1>5, <1>6 DEF Acting, Working

(* Who writes the status writes of it whether the service is stopped, and    *)
(* says so only at the end of a stop, or as it was said before.              *)
LEMMA WrittenStatus ==
    ASSUME NEW w \in Workers, Decided(w), StatusTellsStopped, PatchStatus(w),
           NEW s \in Statuses(w)
    PROVE  /\ "stopped" \in DOMAIN s
           /\ s.stopped => \/ svc.status.stopped
                           \/ pc[w] = "stopStatus" /\ StopComplete(w)
<1>0. pc[w] \in StatusSteps /\ w \in svcFresh
    BY DEF PatchStatus, StatusFenced
<1>1. CASE pc[w] = "stopStatus"
    <2>1. s = StopStatus(w)
        BY <1>1 DEF Statuses
    <2>2. QED  BY <1>1, <2>1 DEF StopStatus, WaitStatus
<1>2. CASE pc[w] \in {"queueStatus", "waitStatus"}
    <2>1. s = WaitStatus(w)
        BY <1>2 DEF Statuses
    <2>2. QED  BY <2>1 DEF WaitStatus
<1>3. CASE pc[w] = "heldStatus"
    <2>1. s = HeldStatus(w)
        BY <1>3 DEF Statuses
    <2>2. mem[w].view.status = svc.status
        BY <1>0, <1>3 DEF Decided
    <2>3. QED  BY <2>1, <2>2 DEF HeldStatus, StatusTellsStopped
<1>4. CASE pc[w] = "rejectStatus"
    <2>1. s = RejectStatus(w)
        BY <1>4 DEF Statuses
    <2>2. QED  BY <2>1 DEF RejectStatus, WaitStatus
<1>5. CASE pc[w] = "status"
    <2>1. \E p \in Phases(w) : s = WorkloadStatus(w, p)
        BY <1>5 DEF Statuses
    <2>2. QED  BY <2>1 DEF WorkloadStatus, WaitStatus
<1>6. QED  BY <1>0, <1>1, <1>2, <1>3, <1>4, <1>5 DEF StatusSteps

(* Only patch_observed_status changes the status. *)
LEMMA StatusWriters ==
    ASSUME ReconcileInv, [LNext]_lvars
    PROVE  svc'.status = svc.status \/ \E w \in Workers : PatchStatus(w)
<1>0. DOMAIN svc = {"cmd", "gen", "activity", "status"}
    BY DEF ReconcileInv, Shapes
<1>1. CASE Outside
    <2>1. ASSUME NEW c \in Commands, Edit(c) PROVE svc'.status = svc.status
        BY <1>0, <2>1 DEF Edit, WriteService
    <2>2. CASE GoIdle
        BY <1>0, <2>2 DEF GoIdle
    <2>3. ASSUME NEW r \in Requests, MarkActivity(r) PROVE svc'.status = svc.status
        BY <1>0, <2>3 DEF MarkActivity, WriteService
    <2>4. QED
        BY <1>1, <2>1, <2>2, <2>3 DEF Outside, Exhaust, Replenish, HpaScale, PodsFollow,
           GpuSchedules, RequestStep, Arrive, Wake, Poll, ColdStartTimeout, objects, lvars
<1>2. ASSUME NEW w \in Workers, Acting(w)
      PROVE  svc'.status = svc.status \/ PatchStatus(w)
    <2>1. CASE MarkFirstActivity(w)
        BY <1>0, <2>1 DEF MarkFirstActivity, WriteService
    <2>2. CASE Observe(w) \/ Meter(w) \/ Working(w) \/ Aborting(w)
        BY <2>2 DEF Working, Aborting, Observe, Meter, DeleteAutoscaler, ScaleToZero, GpuJob,
              ReleaseJob, Inspect, Waiting, WaitForVpc, WaitForImage, WaitForCapacity,
              WaitAt, ReadDeployment, CreateDeployment, Handoff, ApplyTemplate,
              ApplyAutoscaler, ListPods, ScalingConflict, StatusConflict, Fail, Abort, objects
    <2>3. QED  BY <1>2, <2>1, <2>2 DEF Acting
<1>3. QED  BY <1>1, <1>2, EveryStep

(* Every status written says whether the service is stopped. *)
LEMMA StatusTellsStoppedStep ==
    ASSUME ReconcileInv, StatusTellsStopped, [LNext]_lvars PROVE StatusTellsStopped'
<1>1. CASE svc'.status = svc.status
    BY <1>1 DEF StatusTellsStopped
<1>2. ASSUME NEW w \in Workers, PatchStatus(w) PROVE StatusTellsStopped'
    <2>1. PICK s \in Statuses(w) : svc' = [svc EXCEPT !.status = s]
        BY <1>2 DEF PatchStatus, WriteService
    <2>2. "stopped" \in DOMAIN s
        BY <1>2, WrittenStatus DEF ReconcileInv
    <2>3. "status" \in DOMAIN svc
        BY DEF ReconcileInv, Shapes
    <2>4. QED  BY <2>1, <2>2, <2>3 DEF StatusTellsStopped
<1>3. QED  BY <1>1, <1>2, StatusWriters

(* DrainInv is an invariant: what one controller has established of the      *)
(* Deployment, the Pods and the job at each step of draining a service.      *)
THEOREM DrainInvariance ==
    ASSUME OneController, StopKeepsGpu PROVE LSpec => []DrainInv
<1>1. DrainInv /\ [LNext]_lvars => DrainInv'
    <2> SUFFICES ASSUME DrainInv, [LNext]_lvars PROVE DrainInv'
        OBVIOUS
    <2>0. /\ ReconcileInv /\ Shapes /\ NoGpuNoJob /\ StatusTellsStopped
          /\ \A w \in Workers : Draining(w)
        BY DEF DrainInv, ReconcileInv
    <2>1. ReconcileInv' /\ NoGpuNoJob' /\ StatusTellsStopped'
        BY <2>0, StepReconcile, NoGpuNoJobStep, StatusTellsStoppedStep
    <2>2. ASSUME NEW w \in Workers PROVE Draining(w)'
        <3>1. CASE Outside
            BY <2>0, <3>1, DrainingOutside
        <3>2. ASSUME NEW v \in Workers, Acting(v) PROVE Draining(w)'
            BY <2>0, <3>2, DrainingOwnStep DEF OneController
        <3>3. QED  BY <3>1, <3>2, EveryStep
    <2>3. QED  BY <2>1, <2>2 DEF DrainInv
<1>2. QED  BY <1>1, InitDrain, PTL DEF LSpec

(* StoppedMeansDrained: one controller reports a service as stopped only     *)
(* when it has no autoscaler, no reservation and no Pod and none will start. *)
THEOREM StoppedThm ==
    ASSUME OneController, StopKeepsGpu PROVE LSpec => StoppedMeansDrained
<1> DEFINE Drained ==
        ~svc.status.stopped /\ svc'.status.stopped
           => /\ svc.cmd.stopped /\ ~hpa /\ job = "none"
              /\ "activator" \notin dep.owners => pods = 0 /\ dep.replicas = 0
<1>1. DrainInv /\ [LNext]_lvars => [Drained]_lvars
    <2> SUFFICES ASSUME DrainInv, [LNext]_lvars, ~svc.status.stopped, svc'.status.stopped
                 PROVE  /\ svc.cmd.stopped /\ ~hpa /\ job = "none"
                        /\ "activator" \notin dep.owners => pods = 0 /\ dep.replicas = 0
        OBVIOUS
    <2>0. ReconcileInv /\ StatusTellsStopped
        BY DEF DrainInv
    <2>1. PICK w \in Workers : PatchStatus(w)
        BY <2>0, StatusWriters
    <2>2. Decided(w) /\ Draining(w) /\ "status" \in DOMAIN svc
        BY <2>0 DEF DrainInv, ReconcileInv, Shapes
    <2>3. PICK s \in Statuses(w) : svc' = [svc EXCEPT !.status = s]
        BY <2>1 DEF PatchStatus, WriteService
    <2>4. s.stopped
        BY <2>2, <2>3
    <2>5. pc[w] = "stopStatus" /\ StopComplete(w)
        BY <2>0, <2>1, <2>2, <2>4, WrittenStatus
    <2>6. svc.cmd.stopped
        BY <2>1, <2>2, <2>5 DEF PatchStatus, StatusFenced, Decided, StopSteps
    <2>7. QED  BY <2>2, <2>5, <2>6 DEF StopComplete, Draining, StopSteps, Awake
<1>2. QED
    BY <1>1, DrainInvariance, PTL DEF LSpec, StoppedMeansDrained

-----------------------------------------------------------------------------
(* No request is on its way to wake the Deployment. *)
NobodyWakes ==
    (\E c \in Commands : c.gpu) =>
        ~Awake /\ \A r \in Requests : rpc[r] \notin {"mark", "wake"}

(* A request to a service with GPU marks its activity and wakes nothing. *)
LEMMA NobodyWakesStep ==
    ASSUME GpuIsNotWoken, ReconcileInv, NobodyWakes, DOMAIN rpc = Requests, [LNext]_lvars
    PROVE  NobodyWakes' /\ DOMAIN rpc' = Requests
<1>0. /\ DOMAIN dep = {"exists", "replicas", "owners"} /\ svc.cmd \in Commands
    BY DEF ReconcileInv, Shapes
<1>1. ASSUME NEW r \in Requests, RequestStep(r) \/ ColdStartTimeout(r)
      PROVE  NobodyWakes' /\ DOMAIN rpc' = Requests
    <2>1. DOMAIN rpc' = Requests /\ \A q \in Requests \ {r} : rpc'[q] = rpc[q]
        BY <1>1 DEF RequestStep, Arrive, MarkActivity, Wake, Poll, ColdStartTimeout, Answer
    <2> SUFFICES ASSUME NEW c \in Commands, c.gpu
                 PROVE  ~Awake' /\ \A q \in Requests : rpc'[q] \notin {"mark", "wake"}
        BY <2>1 DEF NobodyWakes
    <2>2. ~Awake /\ \A q \in Requests : rpc[q] \notin {"mark", "wake"}
        BY DEF NobodyWakes
    <2>3. ~Wake(r)
        BY <2>2 DEF Wake
    <2>4. dep' = dep
        BY <1>1, <2>3 DEF RequestStep, Arrive, MarkActivity, Poll, ColdStartTimeout, objects
    <2>5. rpc'[r] \notin {"mark", "wake"}
        <3>1. CASE Arrive(r)
            <4>1. svc.cmd.scaling = "zero" => svc.cmd.gpu
                BY <1>0 DEF GpuIsNotWoken
            <4>2. QED  BY <3>1, <4>1 DEF Arrive, Wakeable, Answer
        <3>2. CASE MarkActivity(r)
            BY <2>2, <3>2 DEF MarkActivity
        <3>3. CASE Poll(r) \/ ColdStartTimeout(r)
            BY <3>3 DEF Poll, ColdStartTimeout, Answer
        <3>4. QED  BY <1>1, <2>3, <3>1, <3>2, <3>3 DEF RequestStep
    <2>6. QED  BY <2>1, <2>2, <2>4, <2>5 DEF Awake
<1>2. ASSUME rpc' = rpc, Awake' => Awake PROVE NobodyWakes' /\ DOMAIN rpc' = Requests
    BY <1>2 DEF NobodyWakes
<1>3. CASE /\ Outside
           /\ ~(\E r \in Requests : RequestStep(r) \/ ColdStartTimeout(r))
    <2>1. rpc' = rpc
        BY <1>3 DEF Outside, Edit, GoIdle, Exhaust, Replenish, HpaScale, PodsFollow,
              GpuSchedules, http, lvars
    <2>2. Awake' => Awake
        <3>1. CASE HpaScale
            BY <1>0, <3>1 DEF HpaScale, WriteDeployment, Awake
        <3>2. CASE ~HpaScale
            <4>1. dep' = dep
                BY <1>3, <3>2 DEF Outside, Edit, GoIdle, Exhaust, Replenish, PodsFollow,
                      GpuSchedules, objects, lvars
            <4>2. QED  BY <4>1 DEF Awake
        <3>3. QED  BY <3>1, <3>2
    <2>3. QED  BY <1>2, <2>1, <2>2
<1>4. ASSUME NEW w \in Workers, Acting(w) PROVE NobodyWakes' /\ DOMAIN rpc' = Requests
    <2>1. rpc' = rpc
        BY <1>4 DEF Acting, Working, Aborting, Observe, Meter, DeleteAutoscaler,
              ScaleToZero, GpuJob, ReleaseJob, Inspect, Waiting, WaitForVpc, WaitForImage,
              WaitForCapacity, WaitAt, ReadDeployment, CreateDeployment, Handoff,
              ApplyTemplate, ApplyAutoscaler, ListPods, PatchStatus, MarkFirstActivity,
              ScalingConflict, StatusConflict, Fail, Abort, http
    <2>2. Awake' => Awake
        <3>1. CASE ScaleToZero(w)
            <4>1. dep' = dep \/ dep'.owners = {"suspend"}
                BY <1>0, <3>1 DEF ScaleToZero, WriteDeployment, KeepDeployment
            <4>2. QED  BY <4>1 DEF Awake
        <3>2. CASE CreateDeployment(w)
            BY <1>0, <3>2 DEF CreateDeployment, AppliedOwners, Awake
        <3>3. CASE Handoff(w)
            <4>1. dep' = dep \/ dep'.owners = AppliedOwners("replicas", HandoffCount(w))
                BY <1>0, <3>3 DEF Handoff, KeepDeployment
            <4>2. QED  BY <4>1 DEF AppliedOwners, Awake
        <3>4. CASE ApplyTemplate(w)
            BY <1>0, <3>4 DEF ApplyTemplate, WriteDeployment, Awake
        <3>5. CASE dep' = dep
            BY <3>5 DEF Awake
        <3>6. QED
            BY <1>4, <3>1, <3>2, <3>3, <3>4, <3>5 DEF Acting, Working, Aborting, Observe,
               Meter, DeleteAutoscaler, GpuJob, ReleaseJob, Inspect, Waiting, WaitForVpc,
               WaitForImage, WaitForCapacity, WaitAt, ReadDeployment, ApplyAutoscaler,
               ListPods, PatchStatus, MarkFirstActivity, ScalingConflict, StatusConflict,
               Fail, Abort, objects
    <2>3. QED  BY <1>2, <2>1, <2>2
<1>5. QED  BY <1>1, <1>3, <1>4, EveryStep

(* ReservationOutlivesPods: one controller gives the reservation of a        *)
(* stopped service back only when its last Pod is gone.                      *)
THEOREM ReservationThm ==
    ASSUME OneController, StopKeepsGpu, GpuIsNotWoken
    PROVE  LSpec => ReservationOutlivesPods
<1> DEFINE Outlives ==
        \A w \in Workers :
           mem[w].view # NoView /\ mem[w].view.cmd.stopped /\ pc'[w] # pc[w] /\ job' # job
              => pods = 0
           Wakes == NobodyWakes /\ DOMAIN rpc = Requests
<1>1. LInit => Wakes
    BY DEF LInit, NobodyWakes, Awake, NoDeployment
<1>2. ReconcileInv /\ Wakes /\ [LNext]_lvars => Wakes'
    BY NobodyWakesStep
<1>3. DrainInv /\ Wakes /\ [LNext]_lvars => [Outlives]_lvars
    <2> SUFFICES ASSUME DrainInv, Wakes, [LNext]_lvars, NEW w \in Workers,
                        mem[w].view.cmd.stopped, pc'[w] # pc[w], job' # job
                 PROVE  pods = 0
        OBVIOUS
    <2>0. Shapes /\ Decided(w) /\ Draining(w)
        BY DEF DrainInv, ReconcileInv
    <2>1. Acting(w)
        <3>1. ~Outside
            BY <2>0, OutsideObjects
        <3>2. PICK v \in Workers : Acting(v)
            BY <3>1, EveryStep
        <3>3. QED  BY <2>0, <3>2, ActingFrame
    <2>2. GpuJob(w) \/ ReleaseJob(w)
        BY <2>1 DEF Acting, Working, Aborting, Observe, Meter, DeleteAutoscaler,
              ScaleToZero, Inspect, Waiting, WaitForVpc, WaitForImage,
              WaitForCapacity, WaitAt, ReadDeployment, CreateDeployment, Handoff,
              ApplyTemplate, ApplyAutoscaler, ListPods, PatchStatus, MarkFirstActivity,
              ScalingConflict, StatusConflict, Fail, Abort, objects
    <2>3. ~GpuJob(w)
        BY <2>0 DEF GpuJob, Decided, StopSteps
    <2>4. pc[w] = "releaseJob"
        BY <2>2, <2>3 DEF ReleaseJob
    <2>5. mem[w].view.cmd \in Commands /\ mem[w].view.cmd.gpu
        BY <2>0, <2>4 DEF Decided
    <2>6. ~Awake
        BY <2>5 DEF NobodyWakes
    <2>7. QED  BY <2>0, <2>4, <2>6 DEF Draining
<1>4. QED
    BY <1>1, <1>2, <1>3, ReconcileInvariance, DrainInvariance, PTL
       DEF LSpec, ReservationOutlivesPods
=============================================================================
