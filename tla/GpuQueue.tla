------------------------------ MODULE GpuQueue ------------------------------
(***************************************************************************)
(* The pure placement rules of src/src/gpu_scheduler.rs: which devices a   *)
(* job may use, in which order devices and jobs are considered, and which  *)
(* pending job is served next.  Everything is a function of two lists read *)
(* from the Kubernetes API (inventory and jobs) and of the caller's clock. *)
(*                                                                         *)
(* Names are natural numbers, ordered as the code orders resource names.   *)
(* An absent timestamp (Option::None) is NoTime, below every timestamp.    *)
(***************************************************************************)
EXTENDS Integers, FiniteSets

CONSTANTS Jobs,      \* names of FlashGpuJobs
          Devices,   \* names of FlashGpuDevices
          Orgs,      \* organization ids
          Subjects,  \* subject (user) ids
          OwnerOf,   \* [Jobs -> [org, subject]]: whose request a job is
          TypeOf,    \* [Devices -> GPU types]: spec.gpu_type of the hardware
          AnyType    \* a legacy request without gpu_type

ASSUME NamesAssumption == Jobs \subseteq Nat /\ Devices \subseteq Nat
ASSUME OwnersAssumption == OwnerOf \in [Jobs -> [org : Orgs, subject : Subjects]]

NoTime == -1
NoReservation == [job |-> -1, lease |-> NoTime]
NoPrincipal == [org |-> "none", subject |-> "none"]
NoAssignment == [dev |-> -1, lease |-> NoTime]

(* What stands for a FlashGpuJob that does not exist. *)
NoJob == [phase |-> "Absent", type |-> AnyType, quota |-> FALSE, queued |-> 0,
          deleting |-> FALSE, finalizer |-> FALSE, asg |-> NoAssignment]

Types == {TypeOf[d] : d \in Devices}
Principals == [org : Orgs, subject : Subjects]

-----------------------------------------------------------------------------
(* device_visible_to: `users` is every subject of an open device and the    *)
(* private_assignments of a private one.                                    *)
VisibleTo(dev, subject) == subject \in dev.users

ReservationActive(dev, now) ==
    dev.res # NoReservation /\ dev.res.lease > now

(* gpu_device_available *)
Available(dev, now) == dev.healthy /\ ~ReservationActive(dev, now)

TypeMatches(type, d) == type = AnyType \/ type = TypeOf[d]

(* candidate_devices, before the sort *)
Candidates(inventory, j, type, now) ==
    {d \in Devices : /\ VisibleTo(inventory[d], OwnerOf[j].subject)
                     /\ TypeMatches(type, d)
                     /\ Available(inventory[d], now)}

(* candidate_devices, the sort: least recently allocated, then by name *)
DeviceBefore(inventory, d, e) ==
    \/ inventory[d].at < inventory[e].at
    \/ inventory[d].at = inventory[e].at /\ d < e

(* d is the device reconcile_job takes: the head of candidate_devices *)
FirstCandidate(inventory, j, type, now, d) ==
    LET C == Candidates(inventory, j, type, now)
    IN  d \in C /\ \A e \in C \ {d} : DeviceBefore(inventory, d, e)

-----------------------------------------------------------------------------
(* pending_job *)
Pending(job) ==
    /\ job.phase # "Absent"
    /\ ~job.deleting
    /\ job.quota
    /\ job.phase \in {"New", "Queued", "Retry"} \/ job.asg = NoAssignment

(* Mutant: no tie-break by name. *)
JobBeforeByTime(jobs, i, k) == jobs[i].queued < jobs[k].queued

(* job_order *)
JobBefore(jobs, i, k) ==
    \/ jobs[i].queued < jobs[k].queued
    \/ jobs[i].queued = jobs[k].queued /\ i < k

Latest(T) == CHOOSE t \in T \cup {NoTime} : \A u \in T \cup {NoTime} : u <= t

(* principal_last_served: when the inventory remembers the organization, and *)
(* the user within it, to have been served.  A device remembers only the     *)
(* last principal it was given to.                                           *)
OrgLastServed(inventory, owner) ==
    Latest({inventory[d].at : d \in {e \in Devices : inventory[e].last.org = owner.org}})

SubjectLastServed(inventory, owner) ==
    Latest({inventory[d].at : d \in {e \in Devices : inventory[e].last = owner}})

ServedBefore(inventory, jobs, i, k) ==
    LET oi == OrgLastServed(inventory, OwnerOf[i])
        ok == OrgLastServed(inventory, OwnerOf[k])
        si == SubjectLastServed(inventory, OwnerOf[i])
        sk == SubjectLastServed(inventory, OwnerOf[k])
    IN  \/ oi < ok
        \/ oi = ok /\ si < sk
        \/ oi = ok /\ si = sk /\ JobBefore(jobs, i, k)

(* next_schedulable_job: the pending jobs with a candidate, the oldest of    *)
(* each principal, ordered by how long ago the principal was served.         *)
Schedulable(jobs, inventory, now) ==
    {j \in Jobs : /\ Pending(jobs[j])
                  /\ Candidates(inventory, j, jobs[j].type, now) # {}}

(* Mutant: the first of each principal is taken before the sort by age. *)
OldestOfPrincipalByName(jobs, S) ==
    {j \in S : \A k \in S \ {j} : OwnerOf[k] = OwnerOf[j] => j < k}

OldestOfPrincipal(jobs, S) ==
    {j \in S : \A k \in S \ {j} : OwnerOf[k] = OwnerOf[j] => JobBefore(jobs, j, k)}

NextSchedulable(jobs, inventory, now, j) ==
    LET heads == OldestOfPrincipal(jobs, Schedulable(jobs, inventory, now))
    IN  j \in heads /\ \A k \in heads \ {j} : ServedBefore(inventory, jobs, j, k)
=============================================================================
