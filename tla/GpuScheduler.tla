---------------------------- MODULE GpuScheduler ----------------------------
(***************************************************************************)
(* The GPU scheduler of src/src/gpu_scheduler.rs: every controller replica *)
(* runs reconcile_job for each FlashGpuJob (at most one at a time per job) *)
(* and a maintenance loop.  There is no leader election: replicas meet only*)
(* in the Kubernetes objects, and between any two API calls of a reconcile *)
(* every other process may run.                                            *)
(*                                                                         *)
(* One step is one API call with the local decisions that follow it.       *)
(*                                                                         *)
(* resourceVersion: a process holds a version of an object it has read;    *)
(* `fresh` and `current` say which of those versions are still the         *)
(* server's.  A fenced write succeeds exactly when the version is, and     *)
(* outdates the version every process holds.                               *)
(***************************************************************************)
EXTENDS GpuQueue

CONSTANTS Replicas,      \* controller replicas
          Maintainers,   \* the replicas whose maintenance loop is modelled
          Lease,         \* GPU_LEASE_SECONDS
          RenewAt,       \* GPU_LEASE_RENEW_SECONDS
          Requests,      \* the gpu_types requests ask for, AnyType possibly
          AccessSets,    \* the sets of subjects the owner grants devices to
          MaxClock,      \* bound: the clock stops here
          MaxEvents      \* bound: edits, deletions, node changes, failures

ASSUME TimeAssumption ==
    /\ Lease \in Nat /\ RenewAt \in Nat /\ MaxClock \in Nat /\ MaxEvents \in Nat
    /\ RenewAt < Lease
ASSUME ReplicasAssumption == Maintainers \subseteq Replicas
ASSUME EnvironmentAssumption == AccessSets \subseteq SUBSET Subjects

VARIABLES clock,    \* wall-clock time
          ready,    \* node_is_gpu_ready of each device's node
          device,   \* FlashGpuDevice objects (access and status)
          job,      \* FlashGpuJob objects
          events,   \* environment events and failures left
          pc,       \* where each process stands
          now,      \* the clock it read when it began
          snap,     \* the FlashGpuJob it was called with
          current,  \* the processes whose snap is the server's version
          view,     \* device objects it holds: a list, or what it will write
          fresh,    \* the devices of which it holds the server's version
          target    \* the assignment it is validating, making or undoing

objects == <<ready, device, job>>
vars == <<clock, ready, device, job, events,
          pc, now, snap, current, view, fresh, target>>

Loop == -1                                \* the maintenance loop is no job's
Workers == (Replicas \X Jobs) \cup (Maintainers \X {Loop})
JobOf(w) == w[2]

Reservations == [job : Jobs, lease : Nat] \cup {NoReservation}
Assignments == [dev : Devices, lease : Nat] \cup {NoAssignment}

DeviceRecords == [healthy : BOOLEAN, users : SUBSET Subjects, res : Reservations,
                  at : Nat \cup {NoTime}, last : Principals \cup {NoPrincipal}]
Phases == {"Absent", "New", "Queued", "Held", "Retry", "Cancelled", "Rejected"}
JobRecords == [phase : Phases, type : Requests \cup {AnyType}, quota : BOOLEAN, queued : Nat,
               deleting : BOOLEAN, finalizer : BOOLEAN, asg : Assignments]

Steps == {"idle", "begin", "refresh", "relist", "reclaim", "validate",
          "renewRead", "renew", "settle", "inventory", "decide", "queue",
          "reserve", "publish", "release", "releaseWrite", "retry", "reject",
          "cancel", "unfinalize"}

(* A device as hardware automation creates it: open, status still empty. *)
NewDevice == [healthy |-> FALSE, users |-> Subjects, res |-> NoReservation,
              at |-> NoTime, last |-> NoPrincipal]
NoView == [d \in Devices |-> NewDevice]

Init ==
    /\ clock = 0
    /\ ready = [d \in Devices |-> TRUE]
    /\ device = [d \in Devices |-> NewDevice]
    /\ job = [j \in Jobs |-> NoJob]
    /\ events = MaxEvents
    /\ pc = [w \in Workers |-> "idle"]
    /\ now = [w \in Workers |-> 0]
    /\ snap = [w \in Workers |-> NoJob]
    /\ current = {}
    /\ view = [w \in Workers |-> NoView]
    /\ fresh = [w \in Workers |-> {}]
    /\ target = [w \in Workers |-> NoAssignment]

-----------------------------------------------------------------------------
(* Writes to the API server. *)

Outdated(f, D) == [w \in Workers |-> f[w] \ D]

(* replace_status on the devices of D, giving each d the record rec[d] *)
WriteDevices(D, rec) ==
    device' = [d \in Devices |-> IF d \in D THEN rec[d] ELSE device[d]]

(* Any write of job j outdates what every process holds of it. *)
WriteJob(j, rec) ==
    /\ job' = [job EXCEPT ![j] = rec]
    /\ current' = {w \in current : JobOf(w) # j}

Goto(w, step) == pc' = [pc EXCEPT ![w] = step]

(* The end of a reconcile, by return or by error: nothing local survives. *)
Return(w) ==
    /\ Goto(w, "idle")
    /\ now' = [now EXCEPT ![w] = 0]
    /\ snap' = [snap EXCEPT ![w] = NoJob]
    /\ view' = [view EXCEPT ![w] = NoView]
    /\ target' = [target EXCEPT ![w] = NoAssignment]

-----------------------------------------------------------------------------
(* reconcile_job up to its first branch. *)

(* The controller runtime hands out the object of the watch cache. *)
Observe(w) ==
    /\ pc[w] = "idle"
    /\ JobOf(w) \in Jobs
    /\ job[JobOf(w)] # NoJob
    /\ snap' = [snap EXCEPT ![w] = job[JobOf(w)]]
    /\ current' = current \cup {w}
    /\ Goto(w, "begin")
    /\ UNCHANGED <<clock, objects, events, now, view, fresh, target>>

BeginDeletion(w) ==
    /\ pc[w] = "begin"
    /\ snap[w].deleting
    /\ now' = [now EXCEPT ![w] = clock]
    /\ target' = [target EXCEPT ![w] = snap[w].asg]
    /\ Goto(w, "release")
    /\ UNCHANGED <<clock, objects, events, snap, current, view, fresh>>

(* ensure_finalizer: a merge patch without resourceVersion.  The API server  *)
(* refuses a new finalizer on an object under deletion.                      *)
EnsureFinalizer(w) ==
    /\ pc[w] = "begin"
    /\ ~snap[w].deleting
    /\ ~snap[w].finalizer
    /\ \/ /\ job[JobOf(w)] # NoJob
          /\ ~job[JobOf(w)].deleting
          /\ WriteJob(JobOf(w), [job[JobOf(w)] EXCEPT !.finalizer = TRUE])
       \/ /\ ~(job[JobOf(w)] # NoJob /\ ~job[JobOf(w)].deleting)
          /\ current' = current \ {w}
          /\ UNCHANGED job
    /\ Return(w)
    /\ UNCHANGED <<clock, ready, device, events, fresh>>

-----------------------------------------------------------------------------
(* refresh_inventory_health and reclaim_stale_leases, by a reconcile or by   *)
(* the maintenance loop: list, then replace what has changed.                *)

(* Hold, for each device that `to` changes, its version and the new record; *)
(* with nothing to write, go on.                                            *)
PlanWrites(w, to, write, next) ==
    LET D == {d \in Devices : to[d] # device[d]} IN
    /\ fresh' = [fresh EXCEPT ![w] = D]
    /\ view' = [view EXCEPT ![w] = IF D = {} THEN NoView ELSE to]
    /\ Goto(w, IF D = {} THEN next ELSE write)

RefreshHealth == [d \in Devices |-> [device[d] EXCEPT !.healthy = ready[d]]]

(* Mutant: a lease that ends now is not stale yet. *)
ReclaimedLate(t) ==
    [d \in Devices |-> IF device[d].res.lease >= t THEN device[d]
                       ELSE [device[d] EXCEPT !.res = NoReservation]]

Reclaimed(t) ==
    [d \in Devices |-> IF ReservationActive(device[d], t) THEN device[d]
                       ELSE [device[d] EXCEPT !.res = NoReservation]]

(* Where a process goes once the inventory is in order. *)
AfterReclaim(w) ==
    IF JobOf(w) = Loop THEN "idle"
    ELSE IF ~snap[w].quota THEN "release"
    ELSE IF snap[w].asg # NoAssignment THEN "validate"
    ELSE "inventory"

ListForRefresh(w) ==
    /\ \/ /\ pc[w] = "begin"
          /\ ~snap[w].deleting
          /\ snap[w].finalizer
          /\ now' = [now EXCEPT ![w] = clock]
          /\ target' = [target EXCEPT ![w] = snap[w].asg]
       \/ /\ pc[w] = "idle"
          /\ JobOf(w) = Loop
          /\ UNCHANGED <<now, target>>
    /\ PlanWrites(w, RefreshHealth, "refresh", "relist")
    /\ UNCHANGED <<clock, objects, events, snap, current>>

(* A reconcile reclaims by the clock it began with, the loop by a new one. *)
ListForReclaim(w) ==
    /\ pc[w] = "relist"
    /\ LET t == IF JobOf(w) = Loop THEN clock ELSE now[w]
       IN  PlanWrites(w, Reclaimed(t), "reclaim", AfterReclaim(w))
    /\ UNCHANGED <<clock, objects, events, now, snap, current, target>>

(* Mutant: the replace carries no resourceVersion. *)
ApplyPlannedUnfenced(w, next) ==
    /\ WriteDevices(Devices, view[w])
    /\ fresh' = [w2 \in Workers |-> {}]
    /\ view' = [view EXCEPT ![w] = NoView]
    /\ Goto(w, next)

(* One replace after another; a device that another process has replaced    *)
(* since the list (409) is left alone.                                      *)
ApplyPlanned(w, next) ==
    \/ \E d \in fresh[w] :
          /\ WriteDevices({d}, view[w])
          /\ fresh' = Outdated(fresh, {d})
          /\ UNCHANGED <<pc, view>>
    \/ /\ fresh[w] = {}
       /\ view' = [view EXCEPT ![w] = NoView]
       /\ Goto(w, next)
       /\ UNCHANGED <<device, fresh>>

RefreshWrite(w) ==
    /\ pc[w] = "refresh"
    /\ ApplyPlanned(w, "relist")
    /\ UNCHANGED <<clock, ready, job, events, now, snap, current, target>>

ReclaimWrite(w) ==
    /\ pc[w] = "reclaim"
    /\ ApplyPlanned(w, AfterReclaim(w))
    /\ UNCHANGED <<clock, ready, job, events, now, snap, current, target>>

-----------------------------------------------------------------------------
(* patch_job_status: a merge patch that carries the resourceVersion of the   *)
(* snapshot, left out when the snapshot already shows this status (phase and *)
(* assignment here; updated_at, attempts and message are not modelled, so    *)
(* the patch of an equal status may or may not be sent).                     *)

StatusIs(rec, phase, asg) == rec.phase = phase /\ rec.asg = asg

(* Mutant: the patch does not carry the resourceVersion. *)
FencedNever(w) == TRUE

Fenced(w) == w \in current

SendStatus(w, phase, asg) ==
    /\ Fenced(w)
    /\ WriteJob(JobOf(w), [job[JobOf(w)] EXCEPT !.phase = phase, !.asg = asg])

SkipStatus(w, phase, asg) ==
    /\ StatusIs(snap[w], phase, asg)
    /\ current' = current \ {w}
    /\ UNCHANGED job

StatusConflict(w) ==
    /\ w \notin current
    /\ UNCHANGED <<job, current>>

(* The reconciles that end with a status: conflict or not, they return and   *)
(* the job is reconciled again.                                              *)
FinishWith(w, phase, asg) ==
    /\ SendStatus(w, phase, asg) \/ SkipStatus(w, phase, asg) \/ StatusConflict(w)
    /\ Return(w)
    /\ fresh' = [fresh EXCEPT ![w] = {}]
    /\ UNCHANGED <<clock, ready, device, events>>

PatchQueued(w) == pc[w] = "queue" /\ FinishWith(w, "Queued", NoAssignment)
(* Mutant: a merge patch that does not null the assignment keeps it. *)
PatchRetryKeepsAssignment(w) ==
    pc[w] = "retry" /\ FinishWith(w, "Retry", snap[w].asg)

PatchRetry(w) == pc[w] = "retry" /\ FinishWith(w, "Retry", NoAssignment)
PatchRejected(w) == pc[w] = "reject" /\ FinishWith(w, "Rejected", NoAssignment)
PatchRenewed(w) == pc[w] = "settle" /\ FinishWith(w, "Held", target[w])

-----------------------------------------------------------------------------
(* release_assignment and release_device_assignment: of the assignment the   *)
(* snapshot shows, or of the one this reconcile made and could not publish.  *)

AfterRelease(w) ==
    IF snap[w].deleting THEN "cancel"
    ELSE IF ~snap[w].quota THEN "reject"
    ELSE IF snap[w].asg # NoAssignment THEN "retry"
    ELSE "idle"

Finish(w, step) ==
    IF step = "idle"
    THEN Return(w) /\ current' = current \ {w}
    ELSE Goto(w, step) /\ UNCHANGED <<now, snap, current, view, target>>

(* Ownership is by job name: an earlier job of the same name also owns. *)
Owns(w, dev) == dev.res # NoReservation /\ dev.res.job = JobOf(w)

MustRelease(w) == target[w] # NoAssignment /\ Owns(w, device[target[w].dev])

ReleaseRead(w) ==
    /\ pc[w] = "release"
    /\ \/ /\ MustRelease(w)
          /\ fresh' = [fresh EXCEPT ![w] = {target[w].dev}]
          /\ Goto(w, "releaseWrite")
          /\ UNCHANGED <<now, snap, current, view, target>>
       \/ /\ ~MustRelease(w)
          /\ Finish(w, AfterRelease(w))
          /\ UNCHANGED fresh
    /\ UNCHANGED <<clock, objects, events>>

ReleasedRecord(w, dev) ==
    [dev EXCEPT !.res = NoReservation, !.at = now[w]]

ReleaseWrite(w) ==
    LET d == target[w].dev IN
    /\ pc[w] = "releaseWrite"
    /\ \/ /\ d \in fresh[w]
          /\ WriteDevices({d}, [e \in Devices |-> ReleasedRecord(w, device[e])])
          /\ fresh' = [Outdated(fresh, {d}) EXCEPT ![w] = {}]
          /\ Finish(w, AfterRelease(w))
       \/ /\ d \notin fresh[w]                      \* 409: an error
          /\ fresh' = [fresh EXCEPT ![w] = {}]
          /\ Finish(w, "idle")
          /\ UNCHANGED device
    /\ UNCHANGED <<clock, ready, job, events>>

(* Mutant: the branch returns once the status says Cancelled. *)
PatchCancelledOnly(w) ==
    /\ pc[w] = "cancel"
    /\ \/ SendStatus(w, "Cancelled", NoAssignment)
       \/ SkipStatus(w, "Cancelled", NoAssignment)
       \/ StatusConflict(w)
    /\ Return(w)
    /\ UNCHANGED <<clock, ready, device, events, fresh>>

(* The deletion branch after the release. *)
PatchCancelled(w) ==
    /\ pc[w] = "cancel"
    /\ \/ /\ SendStatus(w, "Cancelled", NoAssignment)
          /\ Goto(w, "unfinalize")
          /\ UNCHANGED <<now, snap, view, target>>
       \/ /\ SkipStatus(w, "Cancelled", NoAssignment)
          /\ Goto(w, "unfinalize")
          /\ UNCHANGED <<now, snap, view, target>>
       \/ StatusConflict(w) /\ Return(w)
    /\ UNCHANGED <<clock, ready, device, events, fresh>>

(* remove_finalizer: a merge patch without resourceVersion.  It removes an   *)
(* object under deletion, and strips the finalizer of one created since.     *)
RemoveFinalizer(w) ==
    /\ pc[w] = "unfinalize"
    /\ LET o == job[JobOf(w)] IN
       \/ /\ o # NoJob
          /\ WriteJob(JobOf(w), IF o.deleting THEN NoJob
                                ELSE [o EXCEPT !.finalizer = FALSE])
       \/ o = NoJob /\ current' = current \ {w} /\ UNCHANGED job
    /\ Return(w)
    /\ UNCHANGED <<clock, ready, device, events, fresh>>

-----------------------------------------------------------------------------
(* A job that has an assignment: keep it, renew it, or lose it. *)

(* assignment_is_valid *)
AssignmentValid(w) ==
    LET dev == device[snap[w].asg.dev] IN
    /\ VisibleTo(dev, OwnerOf[JobOf(w)].subject)
    /\ TypeMatches(snap[w].type, snap[w].asg.dev)
    /\ dev.healthy
    /\ Owns(w, dev)
    /\ ReservationActive(dev, now[w])

Validate(w) ==
    /\ pc[w] = "validate"
    /\ Goto(w, IF ~AssignmentValid(w) THEN "release"
               ELSE IF snap[w].asg.lease - now[w] > RenewAt THEN "settle"
               ELSE "renewRead")
    /\ UNCHANGED <<clock, objects, events, now, snap, current, view, fresh, target>>

RenewRead(w) ==
    /\ pc[w] = "renewRead"
    /\ fresh' = [fresh EXCEPT ![w] = {target[w].dev}]
    /\ Goto(w, "renew")
    /\ UNCHANGED <<clock, objects, events, now, snap, current, view, target>>

(* Mutant: the lease is taken off the clock. *)
ReservedRecordBackwards(w, dev) ==
    [dev EXCEPT !.res = [job |-> JobOf(w), lease |-> now[w] - Lease],
                !.at = now[w], !.last = OwnerOf[JobOf(w)]]

(* Mutant: a renewal adds a lease to what is left of the old one. *)
ReservedRecordAccumulates(w, dev) ==
    LET from == IF dev.res = NoReservation THEN now[w] ELSE dev.res.lease IN
    [dev EXCEPT !.res = [job |-> JobOf(w), lease |-> from + Lease],
                !.at = now[w], !.last = OwnerOf[JobOf(w)]]

(* reserve_device *)
ReservedRecord(w, dev) ==
    [dev EXCEPT !.res = [job |-> JobOf(w), lease |-> now[w] + Lease],
                !.at = now[w], !.last = OwnerOf[JobOf(w)]]

(* Mutant: the replace carries no resourceVersion. *)
ReserveDeviceUnfenced(w, next) ==
    LET d == target[w].dev IN
    /\ WriteDevices({d}, [e \in Devices |-> ReservedRecord(w, device[e])])
    /\ fresh' = [Outdated(fresh, {d}) EXCEPT ![w] = {}]
    /\ target' = [target EXCEPT ![w] = [dev |-> d, lease |-> now[w] + Lease]]
    /\ Goto(w, next)
    /\ UNCHANGED <<now, snap, view, current>>

ReserveDevice(w, next) ==
    LET d == target[w].dev IN
    /\ d \in fresh[w]
    /\ WriteDevices({d}, [e \in Devices |-> ReservedRecord(w, device[e])])
    /\ fresh' = [Outdated(fresh, {d}) EXCEPT ![w] = {}]
    /\ target' = [target EXCEPT ![w] = [dev |-> d, lease |-> now[w] + Lease]]
    /\ Goto(w, next)
    /\ UNCHANGED <<now, snap, view, current>>

ReserveConflict(w) ==
    /\ target[w].dev \notin fresh[w]
    /\ Finish(w, "idle")
    /\ UNCHANGED <<device, fresh>>

Renew(w) ==
    /\ pc[w] = "renew"
    /\ ReserveDevice(w, "settle") \/ ReserveConflict(w)
    /\ UNCHANGED <<clock, ready, job, events>>

-----------------------------------------------------------------------------
(* A job that has no assignment: wait for its turn and take a device. *)

ListInventory(w) ==
    /\ pc[w] = "inventory"
    /\ view' = [view EXCEPT ![w] = device]
    /\ fresh' = [fresh EXCEPT ![w] = Devices]
    /\ Goto(w, "decide")
    /\ UNCHANGED <<clock, objects, events, now, snap, current, target>>

(* The jobs are listed after the devices; the turn goes by the listed jobs,  *)
(* the device by the request of the snapshot.                                *)
Takes(w, d) ==
    /\ NextSchedulable(job, view[w], now[w], JobOf(w))
    /\ FirstCandidate(view[w], JobOf(w), snap[w].type, now[w], d)

Decide(w) ==
    /\ pc[w] = "decide"
    /\ \/ \E d \in Devices :
             /\ Takes(w, d)
             /\ target' = [target EXCEPT ![w] = [dev |-> d, lease |-> 0]]
             /\ fresh' = [fresh EXCEPT ![w] = @ \cap {d}]
             /\ Goto(w, "reserve")
       \/ /\ \A d \in Devices : ~Takes(w, d)
          /\ fresh' = [fresh EXCEPT ![w] = {}]
          /\ Goto(w, "queue")
          /\ UNCHANGED target
    /\ view' = [view EXCEPT ![w] = NoView]
    /\ UNCHANGED <<clock, objects, events, now, snap, current>>

Reserve(w) ==
    /\ pc[w] = "reserve"
    /\ ReserveDevice(w, "publish") \/ ReserveConflict(w)
    /\ UNCHANGED <<clock, ready, job, events>>

(* Only the holder of the job's version publishes; the loser releases. *)
Publish(w) ==
    /\ pc[w] = "publish"
    /\ \/ SendStatus(w, "Held", target[w]) /\ Return(w)
       \/ /\ StatusConflict(w)
          /\ Goto(w, "release")
          /\ UNCHANGED <<now, snap, view, target>>
    /\ UNCHANGED <<clock, ready, device, events, fresh>>

-----------------------------------------------------------------------------
(* The environment. *)

(* A replica stops, or an API call fails, anywhere in a reconcile. *)
Fail(w) ==
    /\ pc[w] # "idle"
    /\ events > 0 /\ events' = events - 1
    /\ Return(w)
    /\ current' = current \ {w}
    /\ fresh' = [fresh EXCEPT ![w] = {}]
    /\ UNCHANGED <<clock, objects>>

(* The maintenance loop logs a failed refresh and reclaims all the same. *)
RefreshFails(w) ==
    /\ JobOf(w) = Loop
    /\ pc[w] \in {"idle", "refresh"}
    /\ events > 0 /\ events' = events - 1
    /\ view' = [view EXCEPT ![w] = NoView]
    /\ fresh' = [fresh EXCEPT ![w] = {}]
    /\ Goto(w, "relist")
    /\ UNCHANGED <<clock, objects, now, snap, current, target>>

(* The status is written but the answer is lost: an error to the caller. *)
PublishAnswerLost(w) ==
    /\ pc[w] = "publish"
    /\ events > 0 /\ events' = events - 1
    /\ SendStatus(w, "Held", target[w])
    /\ Goto(w, "release")
    /\ UNCHANGED <<clock, ready, device, now, snap, view, target, fresh>>

(* reconcile_gpu_job creates the job, *)
Submit(j, type) ==
    /\ job[j] = NoJob
    /\ WriteJob(j, [NoJob EXCEPT !.phase = "New", !.type = type, !.quota = TRUE,
                                 !.queued = clock])
    /\ UNCHANGED <<clock, ready, device, events, pc, now, snap, view, fresh, target>>

(* re-applies its spec (unfenced; a changed request goes to the back of the  *)
(* queue and keeps its old status),                                          *)
UpdateRequest(j, type, quota) ==
    /\ events > 0 /\ events' = events - 1
    /\ job[j] # NoJob
    /\ <<type, quota>> # <<job[j].type, job[j].quota>>
    /\ WriteJob(j, [job[j] EXCEPT !.type = type, !.quota = quota,
                                  !.queued = IF type = job[j].type THEN @ ELSE clock])
    /\ UNCHANGED <<clock, ready, device, pc, now, snap, view, fresh, target>>

(* or deletes it. *)
CancelRequest(j) ==
    /\ events > 0 /\ events' = events - 1
    /\ job[j] # NoJob /\ ~job[j].deleting
    /\ WriteJob(j, IF job[j].finalizer THEN [job[j] EXCEPT !.deleting = TRUE] ELSE NoJob)
    /\ UNCHANGED <<clock, ready, device, pc, now, snap, view, fresh, target>>

(* The owner API force-applies visibility and private_assignments. *)
UpdateAccess(d, users) ==
    /\ events > 0 /\ events' = events - 1
    /\ users # device[d].users
    /\ WriteDevices({d}, [e \in Devices |-> [device[e] EXCEPT !.users = users]])
    /\ fresh' = Outdated(fresh, {d})
    /\ UNCHANGED <<clock, ready, job, pc, now, snap, current, view, target>>

NodeChange(d) ==
    /\ events > 0 /\ events' = events - 1
    /\ ready' = [ready EXCEPT ![d] = ~@]
    /\ UNCHANGED <<clock, device, job, pc, now, snap, current, view, fresh, target>>

Tick ==
    /\ clock < MaxClock
    /\ clock' = clock + 1
    /\ UNCHANGED <<objects, events, pc, now, snap, current, view, fresh, target>>

-----------------------------------------------------------------------------
Step(w) ==
    \/ BeginDeletion(w) \/ EnsureFinalizer(w)
    \/ ListForRefresh(w) \/ RefreshWrite(w) \/ ListForReclaim(w) \/ ReclaimWrite(w)
    \/ PatchQueued(w) \/ PatchRetry(w) \/ PatchRejected(w) \/ PatchRenewed(w)
    \/ ReleaseRead(w) \/ ReleaseWrite(w) \/ PatchCancelled(w) \/ RemoveFinalizer(w)
    \/ Validate(w) \/ RenewRead(w) \/ Renew(w)
    \/ ListInventory(w) \/ Decide(w) \/ Reserve(w) \/ Publish(w)

Environment ==
    \/ \E w \in Workers : Fail(w) \/ RefreshFails(w) \/ PublishAnswerLost(w)
    \/ \E j \in Jobs : \E type \in Requests : Submit(j, type)
    \/ \E j \in Jobs : \E type \in Requests, quota \in BOOLEAN :
          UpdateRequest(j, type, quota)
    \/ \E j \in Jobs : CancelRequest(j)
    \/ \E d \in Devices : NodeChange(d)
    \/ \E d \in Devices, users \in AccessSets : UpdateAccess(d, users)

Next ==
    \/ \E w \in Workers : Observe(w) \/ Step(w)
    \/ Environment
    \/ Tick

Spec == Init /\ [][Next]_vars

(* Every process is scheduled: the runtime re-queues a job after every       *)
(* reconcile and the loop never ends; time passes.  The environment is not   *)
(* obliged to do anything.                                                   *)
Fairness ==
    /\ \A w \in Workers : WF_vars(Observe(w)) /\ WF_vars(Step(w))
    /\ WF_vars(Tick)

FairSpec == Spec /\ Fairness

-----------------------------------------------------------------------------
(* Types: the shape of the objects and of what each process holds. *)
TypeOK ==
    /\ clock \in Nat /\ events \in Nat
    /\ ready \in [Devices -> BOOLEAN]
    /\ device \in [Devices -> DeviceRecords]
    /\ job \in [Jobs -> JobRecords]
    /\ pc \in [Workers -> Steps]
    /\ now \in [Workers -> Nat]
    /\ snap \in [Workers -> JobRecords]
    /\ current \subseteq Workers
    /\ view \in [Workers -> [Devices -> DeviceRecords]]
    /\ fresh \in [Workers -> SUBSET Devices]
    /\ target \in [Workers -> Assignments]

(* However stale the lists a reconcile decided on, at the moment its         *)
(* reservation commits (reserve_device from the allocation path) the device  *)
(* is healthy, visible to the job's subject, of the requested type, and not  *)
(* under another active reservation.                                         *)
SoundAllocation(w, d) ==
    /\ device[d].healthy
    /\ VisibleTo(device[d], OwnerOf[JobOf(w)].subject)
    /\ TypeMatches(snap[w].type, d)
    /\ ~ReservationActive(device[d], clock)

AllocationSound ==
    [][\A w \in Workers : pc[w] = "reserve" /\ pc'[w] = "publish"
          => SoundAllocation(w, target[w].dev)]_vars

(* An assignment is published only for a request that still stands: when the *)
(* status of a job gains a device, the job is not under deletion, has quota  *)
(* left and, as it is now, asks for a type the device has.  Spec edits and   *)
(* deletions that race a reconcile are caught by the snapshot's version.     *)
PublishedRequestStands ==
    [][\A j \in Jobs : job[j].asg = NoAssignment /\ job'[j].asg # NoAssignment
          => /\ ~job'[j].deleting
             /\ job'[j].quota
             /\ TypeMatches(job'[j].type, job'[j].asg.dev)]_vars

(* No reservation and no published assignment promises a device for longer   *)
(* than one lease from now: whatever a crash leaves behind, reclaim_stale_   *)
(* leases can take back one lease later.                                     *)
LeaseBounded ==
    /\ \A d \in Devices : device[d].res.lease <= clock + Lease
    /\ \A j \in Jobs : job[j].asg.lease <= clock + Lease

(* An active reservation ends only by a release of its own job: no sweep of  *)
(* another process, however stale its list, clears it.                       *)
ActiveReservationKept ==
    [][\A d \in Devices :
          /\ ReservationActive(device[d], clock)
          /\ device'[d].res = NoReservation
          => \E w \in Workers : /\ pc[w] = "releaseWrite"
                                /\ JobOf(w) = device[d].res.job]_vars

(* docs/GPU_SCHEDULER.md: reservations "are reclaimed after expiry", and     *)
(* simultaneous attempts on a device have one winner.  So a device passes    *)
(* from one job to another only once the first one's lease is over.          *)
TakenOnlyAfterExpiry ==
    [][\A d \in Devices :
          /\ ReservationActive(device[d], clock)
          /\ device'[d].res # NoReservation
          => device'[d].res.job = device[d].res.job]_vars

(* A job under deletion goes away: its finalizer does not hold it forever,   *)
(* whatever conflicts the replicas cause each other.                         *)
DeletedJobGoes ==
    \A j \in Jobs : job[j].deleting ~> ~job[j].deleting

Backed(j) ==
    LET d == job[j].asg.dev
    IN  job[j].asg # NoAssignment /\ device[d].res # NoReservation
        /\ device[d].res.job = j

(* "Lost leases return the job to the queue": an assignment whose device is  *)
(* no longer reserved for the job does not stay in its status.               *)
LostLeaseRequeued ==
    \A j \in Jobs : (job[j].asg # NoAssignment /\ ~Backed(j))
                       ~> (job[j].asg = NoAssignment \/ Backed(j))

(* A reservation left by a crash, a lost answer or a lost race for a job     *)
(* that does not claim it is taken back, if its lease ends while the clock   *)
(* still runs.                                                               *)
Orphan(d, t) ==
    /\ device[d].res # NoReservation
    /\ device[d].res.lease = t
    /\ job[device[d].res.job] = NoJob

OrphanReclaimed ==
    \A d \in Devices, t \in 0..MaxClock : Orphan(d, t) ~> ~Orphan(d, t)
=============================================================================
