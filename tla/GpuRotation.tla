---------------------------- MODULE GpuRotation -----------------------------
(***************************************************************************)
(* Turns over time: one scheduler serving the queue with the rules of      *)
(* GpuQueue, without races, so that only the order is in question.  Jobs   *)
(* arrive, the next one takes a device, and a finished job gives its       *)
(* device back.                                                            *)
(***************************************************************************)
EXTENDS GpuQueue

CONSTANTS MaxTime   \* bound: later events all happen in this second

ASSUME MaxTimeAssumption == MaxTime \in Nat

VARIABLES time, inventory, jobs

rvars == <<time, inventory, jobs>>

(* Leases of running jobs are renewed in time here. *)
Forever == MaxTime + 1

Later == IF time < MaxTime THEN time + 1 ELSE time

RInit ==
    /\ time = 0
    /\ inventory = [d \in Devices |-> [healthy |-> TRUE, users |-> Subjects,
                      res |-> NoReservation, at |-> NoTime, last |-> NoPrincipal]]
    /\ jobs = [j \in Jobs |-> NoJob]

Enqueue(j) ==
    /\ jobs[j] = NoJob
    /\ jobs' = [jobs EXCEPT ![j] = [NoJob EXCEPT !.phase = "New", !.quota = TRUE,
                                                 !.finalizer = TRUE, !.queued = time]]
    /\ time' \in {time, Later}
    /\ UNCHANGED inventory

(* reserve_device and the published status *)
Allocate(j, d) ==
    /\ NextSchedulable(jobs, inventory, time, j)
    /\ FirstCandidate(inventory, j, jobs[j].type, time, d)
    /\ inventory' = [inventory EXCEPT ![d] =
          [@ EXCEPT !.res = [job |-> j, lease |-> Forever],
                    !.at = time, !.last = OwnerOf[j]]]
    /\ jobs' = [jobs EXCEPT ![j] = [@ EXCEPT !.phase = "Held",
                                             !.asg = [dev |-> d, lease |-> Forever]]]
    /\ time' \in {time, Later}

(* The deletion branch: the release stamps the device with its own time but  *)
(* leaves the principal it was last given to.                                *)
Complete(j) ==
    /\ jobs[j].asg # NoAssignment
    /\ inventory' = [inventory EXCEPT ![jobs[j].asg.dev] =
          [@ EXCEPT !.res = NoReservation, !.at = time]]
    /\ jobs' = [jobs EXCEPT ![j] = NoJob]
    /\ time' \in {time, Later}

RNext ==
    \/ \E j \in Jobs : Enqueue(j)
    \/ \E j \in Jobs, d \in Devices : Allocate(j, d)
    \/ \E j \in Jobs : Complete(j)

RSpec == RInit /\ [][RNext]_rvars

-----------------------------------------------------------------------------
(* "These stable tie-breakers make placement deterministic": whenever some   *)
(* job can be placed, exactly one job is next and it has exactly one first   *)
(* device, so every replica that reads the same lists makes the same move    *)
(* and none waits for nobody.                                                *)
OneMove ==
    Schedulable(jobs, inventory, time) # {} =>
       Cardinality({m \in Jobs \X Devices :
                       /\ NextSchedulable(jobs, inventory, time, m[1])
                       /\ FirstCandidate(inventory, m[1], jobs[m[1]].type, time, m[2])}) = 1

(* Users do not overtake themselves: the job that is served is the oldest    *)
(* placeable job of its principal.                                           *)
OldestServed ==
    [][\A j \in Jobs : jobs[j].asg = NoAssignment /\ jobs'[j].asg # NoAssignment
          => \A k \in Schedulable(jobs, inventory, time) :
                OwnerOf[k] = OwnerOf[j] => jobs[j].queued <= jobs[k].queued]_rvars
=============================================================================
