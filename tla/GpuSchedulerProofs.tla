------------------------- MODULE GpuSchedulerProofs -------------------------
(***************************************************************************)
(* TLAPS proofs about GpuScheduler, for any numbers of replicas, jobs and  *)
(* devices, any lease and any interleaving; and, first, about the order in *)
(* which GpuQueue serves jobs, over the histories of GpuRotation.          *)
(***************************************************************************)
EXTENDS GpuScheduler, GpuRotation, LeastElements

-----------------------------------------------------------------------------
(* Turns: the rules of GpuQueue pick one job and one device.                  *)
(*                                                                           *)
(* RTypeOK bounds every stamp by the clock; the rest is the order itself,    *)
(* which is total and has a least element.                                   *)

(* Latest is well defined on the stamps of an inventory: they are bounded by  *)
(* the clock, so its CHOOSE has something to choose.                          *)
LEMMA LatestIsMember ==
    ASSUME NEW T \in SUBSET Int, NEW b \in Int, \A t \in T : t <= b
    PROVE  /\ Latest(T) \in T \cup {NoTime}
           /\ \A t \in T \cup {NoTime} : t <= Latest(T)
  <1>. DEFINE c == IF b < NoTime THEN NoTime ELSE b
              U == T \cup {NoTime}
  <1>1. U \in SUBSET Int /\ U # {} /\ c \in Int /\ \A t \in U : t <= c
    BY DEF NoTime
  <1>. HIDE DEF c
  <1>2. \E m \in U : \A n \in U : n <= m
    BY <1>1, GreatestInt
  <1>. QED BY <1>2, Zenon DEF Latest

-----------------------------------------------------------------------------
(* What the placement rules need of the two lists: queue times, and stamps   *)
(* that are NoTime or a time not after b.                                     *)
QueueTyped(js, inv, b) ==
    /\ \A j \in Jobs : js[j].queued \in Nat
    /\ \A d \in Devices : inv[d].at \in NoTime..b

(* candidate_devices has one head: by stamp and then by name, one of a job's  *)
(* candidates comes before all the others, whatever ties there are.           *)
LEMMA OneFirstCandidate ==
    ASSUME NEW js, NEW inv, NEW b \in Int, QueueTyped(js, inv, b), NEW t, NEW j \in Jobs,
           NEW n, Candidates(inv, j, t, n) # {}
    PROVE  \E d \in Devices : \A e \in Devices : FirstCandidate(inv, j, t, n, e) <=> e = d
  <1>. DEFINE C == Candidates(inv, j, t, n)
              key == [d \in C |-> inv[d].at]
  <1>1. C \in SUBSET Nat /\ C # {} /\ C \subseteq Devices
    BY NamesAssumption DEF Candidates
  <1>2. \A d \in C : inv[d].at \in Int /\ NoTime <= inv[d].at
    BY <1>1 DEF QueueTyped, NoTime
  <1>3. key \in [C -> Int] /\ \A d \in C : NoTime <= key[d]
    BY <1>2
  <1>4. NoTime \in Int
    BY DEF NoTime
  <1>. HIDE DEF C
  <1>5. PICK d \in C : \A e \in C \ {d} : key[d] < key[e] \/ (key[d] = key[e] /\ d < e)
    <2>. HIDE DEF key
    <2>. QED BY <1>1, <1>3, <1>4, LeastByKey
  <1>6. \A e \in C \ {d} : inv[d].at < inv[e].at \/ (inv[d].at = inv[e].at /\ d < e)
    BY <1>5
  <1>7. FirstCandidate(inv, j, t, n, d)
    BY <1>6 DEF FirstCandidate, C, DeviceBefore
  <1>8. ASSUME NEW e \in Devices, FirstCandidate(inv, j, t, n, e), e # d PROVE FALSE
    <2>1. e \in C /\ \A f \in C \ {e} : DeviceBefore(inv, e, f)
      BY <1>8, Zenon DEF FirstCandidate, C
    <2>2. DeviceBefore(inv, e, d)
      BY <2>1, <1>8
    <2>3. inv[d].at < inv[e].at \/ (inv[d].at = inv[e].at /\ d < e)
      BY <1>6, <1>8, <2>1
    <2>4. inv[d].at \in Int /\ inv[e].at \in Int /\ d \in Nat /\ e \in Nat
      BY <2>1, <1>1, <1>2
    <2>. QED BY <2>2, <2>3, <2>4 DEF DeviceBefore
  <1>9. d \in Devices
    BY <1>1
  <1>. QED BY <1>7, <1>8, <1>9

(* Among placeable jobs somebody is the oldest of its principal. *)
LEMMA OldestExists ==
    ASSUME NEW js, NEW S \in SUBSET Jobs, S # {}, \A j \in Jobs : js[j].queued \in Nat
    PROVE  OldestOfPrincipal(js, S) # {}
  <1>. DEFINE key == [j \in S |-> js[j].queued]
  <1>1. S \in SUBSET Nat
    BY NamesAssumption
  <1>2. key \in [S -> Int] /\ \A j \in S : 0 <= key[j]
    OBVIOUS
  <1>3. PICK j \in S : \A k \in S \ {j} : key[j] < key[k] \/ (key[j] = key[k] /\ j < k)
    <2>. HIDE DEF key
    <2>. QED BY <1>1, <1>2, LeastByKey
  <1>4. \A k \in S \ {j} : JobBefore(js, j, k)
    BY <1>3 DEF JobBefore
  <1>. QED BY <1>4 DEF OldestOfPrincipal

(* principal_last_served is a time or NoTime for every principal. *)
LEMMA ServedTimes ==
    ASSUME NEW js, NEW inv, NEW b \in Int, QueueTyped(js, inv, b), NEW o
    PROVE  /\ OrgLastServed(inv, o) \in Int /\ NoTime <= OrgLastServed(inv, o)
           /\ SubjectLastServed(inv, o) \in Int /\ NoTime <= SubjectLastServed(inv, o)
  <1>1. \A E \in SUBSET Devices :
           /\ {inv[d].at : d \in E} \in SUBSET Int
           /\ \A t \in {inv[d].at : d \in E} : t <= b
    <2>1. \A d \in Devices : inv[d].at \in Int /\ inv[d].at <= b
      BY DEF QueueTyped, NoTime
    <2>. QED BY <2>1
  <1>2. ASSUME NEW E \in SUBSET Devices
        PROVE  Latest({inv[d].at : d \in E}) \in Int /\ NoTime <= Latest({inv[d].at : d \in E})
    <2>. DEFINE T == {inv[d].at : d \in E}
    <2>1. T \in SUBSET Int /\ \A t \in T : t <= b
      BY <1>1
    <2>. HIDE DEF T
    <2>2. Latest(T) \in T \cup {NoTime} /\ \A t \in T \cup {NoTime} : t <= Latest(T)
      BY <2>1, LatestIsMember
    <2>3. NoTime \in Int
      BY DEF NoTime
    <2>4. Latest(T) \in Int /\ NoTime <= Latest(T)
      BY <2>1, <2>2, <2>3
    <2>. QED BY <2>4 DEF T
  <1>3. {e \in Devices : inv[e].last.org = o.org} \in SUBSET Devices
    OBVIOUS
  <1>4. {e \in Devices : inv[e].last = o} \in SUBSET Devices
    OBVIOUS
  <1>5. OrgLastServed(inv, o) \in Int /\ NoTime <= OrgLastServed(inv, o)
    BY <1>2, <1>3, Zenon DEF OrgLastServed
  <1>6. SubjectLastServed(inv, o) \in Int /\ NoTime <= SubjectLastServed(inv, o)
    BY <1>2, <1>4, Zenon DEF SubjectLastServed
  <1>. QED BY <1>5, <1>6

(* next_schedulable_job has one answer: organization, user, age and name       *)
(* order the oldest jobs of the principals totally.                           *)
LEMMA OneNextSchedulable ==
    ASSUME NEW js, NEW inv, NEW b \in Int, QueueTyped(js, inv, b), NEW n,
           Schedulable(js, inv, n) # {}
    PROVE  \E j \in Schedulable(js, inv, n) :
              \A k \in Jobs : NextSchedulable(js, inv, n, k) <=> k = j
  <1>. DEFINE S == Schedulable(js, inv, n)
              H == OldestOfPrincipal(js, S)
              O(j) == OrgLastServed(inv, OwnerOf[j])
              U(j) == SubjectLastServed(inv, OwnerOf[j])
              fo == [j \in H |-> O(j)]
  <1>1. S \in SUBSET Jobs /\ S # {}
    BY DEF Schedulable
  <1>2. \A j \in Jobs : js[j].queued \in Nat
    BY DEF QueueTyped
  <1>. HIDE DEF S
  <1>3. H # {} /\ H \subseteq S
    BY <1>1, <1>2, OldestExists DEF OldestOfPrincipal
  <1>4. \A j : O(j) \in Int /\ NoTime <= O(j) /\ U(j) \in Int /\ NoTime <= U(j)
    BY ServedTimes, Zenon
  <1>5. NoTime \in Int
    BY DEF NoTime
  <1>. HIDE DEF H, O, U
  <1>6. PICK p \in H : \A y \in H : O(p) <= O(y)
    <2>1. fo \in [H -> Int] /\ \A x \in H : NoTime <= fo[x]
      BY <1>4
    <2>. HIDE DEF fo
    <2>2. PICK p \in H : \A y \in H : fo[p] <= fo[y]
      BY <2>1, <1>3, <1>5, LeastValue
    <2>. QED BY <2>2 DEF fo
  <1>. DEFINE H1 == {j \in H : O(j) = O(p)}
              fu == [j \in H1 |-> U(j)]
  <1>7. PICK q \in H1 : \A y \in H1 : U(q) <= U(y)
    <2>1. H1 # {} /\ fu \in [H1 -> Int] /\ \A x \in H1 : NoTime <= fu[x]
      BY <1>4
    <2>. HIDE DEF fu, H1
    <2>2. PICK r \in H1 : \A y \in H1 : fu[r] <= fu[y]
      BY <2>1, <1>5, LeastValue
    <2>. QED BY <2>2 DEF fu
  <1>. DEFINE H2 == {j \in H1 : U(j) = U(q)}
              fq == [j \in H2 |-> js[j].queued]
  <1>8. H2 \subseteq Jobs /\ H2 \in SUBSET Nat /\ H2 # {} /\ q \in H2
    BY <1>1, <1>3, <1>7, NamesAssumption
  <1>9. PICK z \in H2 : \A y \in H2 \ {z} : JobBefore(js, z, y)
    <2>1. fq \in [H2 -> Int] /\ \A x \in H2 : 0 <= fq[x]
      BY <1>2, <1>8
    <2>. HIDE DEF fq, H2
    <2>2. PICK x \in H2 : \A y \in H2 \ {x} : fq[x] < fq[y] \/ (fq[x] = fq[y] /\ x < y)
      <3>1. H2 \in SUBSET Nat /\ H2 # {}
        BY <1>8
      <3>. QED BY <2>1, <3>1, LeastByKey
    <2>3. \A y \in H2 \ {x} : JobBefore(js, x, y)
      BY <2>2 DEF fq, JobBefore
    <2>. QED BY <2>3
  <1>10. ASSUME NEW y \in H \ {z} PROVE ServedBefore(inv, js, z, y)
    <2>1. O(z) = O(p) /\ U(z) = U(q)
      OBVIOUS
    <2>2. O(z) <= O(y)
      BY <1>6, <2>1
    <2>3. O(y) = O(z) => U(z) <= U(y)
      BY <1>7, <2>1
    <2>4. O(y) = O(z) /\ U(y) = U(z) => JobBefore(js, z, y)
      BY <1>9, <2>1
    <2>5. O(z) \in Int /\ O(y) \in Int /\ U(z) \in Int /\ U(y) \in Int
      BY <1>4
    <2>6. \/ O(z) < O(y)
          \/ O(z) = O(y) /\ U(z) < U(y)
          \/ O(z) = O(y) /\ U(z) = U(y) /\ JobBefore(js, z, y)
      BY <2>2, <2>3, <2>4, <2>5
    <2>. QED BY <2>6, Zenon DEF ServedBefore, O, U
  <1>11. NextSchedulable(js, inv, n, z)
    BY <1>10 DEF NextSchedulable, H, S
  <1>12. ASSUME NEW k \in Jobs, NextSchedulable(js, inv, n, k), k # z PROVE FALSE
    <2>1. k \in H /\ \A y \in H \ {k} : ServedBefore(inv, js, k, y)
      BY <1>12, Zenon DEF NextSchedulable, H, S
    <2>2. ServedBefore(inv, js, k, z) /\ ServedBefore(inv, js, z, k)
      BY <2>1, <1>10, <1>12
    <2>3. \A x, y : ServedBefore(inv, js, x, y) =>
             \/ O(x) < O(y)
             \/ O(x) = O(y) /\ U(x) < U(y)
             \/ O(x) = O(y) /\ U(x) = U(y) /\ JobBefore(js, x, y)
      BY Zenon DEF ServedBefore, O, U
    <2>4. O(z) \in Int /\ O(k) \in Int /\ U(z) \in Int /\ U(k) \in Int
      BY <1>4
    <2>5. JobBefore(js, k, z) /\ JobBefore(js, z, k)
      BY <2>2, <2>3, <2>4
    <2>6. k \in Nat /\ z \in Nat /\ js[k].queued \in Nat /\ js[z].queued \in Nat
      BY <1>2, <1>8, NamesAssumption
    <2>. QED BY <2>5, <2>6 DEF JobBefore
  <1>13. z \in S
    BY <1>3
  <1>. QED BY <1>11, <1>12, <1>13 DEF S
-----------------------------------------------------------------------------
(* What the scheduler of GpuRotation keeps: stamps never lie in the future.   *)
RDevice == [healthy : {TRUE}, users : {Subjects},
            res : [job : Jobs, lease : {Forever}] \cup {NoReservation},
            at : NoTime..MaxTime, last : Principals \cup {NoPrincipal}]
RJob == [phase : {"Absent", "New", "Held"}, type : {AnyType}, quota : BOOLEAN,
         queued : 0..MaxTime, deleting : {FALSE}, finalizer : BOOLEAN,
         asg : [dev : Devices, lease : {Forever}] \cup {NoAssignment}]
RTypeOK ==
    /\ time \in 0..MaxTime
    /\ inventory \in [Devices -> RDevice]
    /\ jobs \in [Jobs -> RJob]

(* The records Allocate and Complete write have their types. *)
LEMMA REdits ==
    ASSUME NEW t \in 0..MaxTime, NEW v \in RDevice, NEW x \in RJob,
           NEW j \in Jobs, NEW d \in Devices
    PROVE  /\ [v EXCEPT !.res = [job |-> j, lease |-> Forever], !.at = t,
                       !.last = OwnerOf[j]] \in RDevice
           /\ [v EXCEPT !.res = NoReservation, !.at = t] \in RDevice
           /\ [x EXCEPT !.phase = "Held", !.asg = [dev |-> d, lease |-> Forever]] \in RJob
  <1>1. OwnerOf[j] \in Principals
    BY OwnersAssumption DEF Principals
  <1>2. t \in NoTime..MaxTime
    BY MaxTimeAssumption DEF NoTime
  <1>3. [v EXCEPT !.res = [job |-> j, lease |-> Forever], !.at = t,
                  !.last = OwnerOf[j]] \in RDevice
    BY <1>1, <1>2 DEF RDevice
  <1>4. [v EXCEPT !.res = NoReservation, !.at = t] \in RDevice
    BY <1>2 DEF RDevice
  <1>5. [x EXCEPT !.phase = "Held", !.asg = [dev |-> d, lease |-> Forever]] \in RJob
    BY DEF RJob
  <1>. QED BY <1>3, <1>4, <1>5

(* The clock stays within its bound. *)
LEMMA LaterTypes ==
    ASSUME time \in 0..MaxTime, time' \in {time, Later}
    PROVE  time' \in 0..MaxTime
  BY MaxTimeAssumption DEF Later

(* The rotation starts with every record of its type ... *)
LEMMA RTypeInit == RInit => RTypeOK
  <1> SUFFICES ASSUME RInit PROVE RTypeOK
    OBVIOUS
  <1>1. NoJob \in RJob
    BY MaxTimeAssumption DEF NoJob, RJob
  <1>2. [healthy |-> TRUE, users |-> Subjects, res |-> NoReservation, at |-> NoTime,
         last |-> NoPrincipal] \in RDevice
    BY MaxTimeAssumption DEF RDevice, NoTime
  <1>3. time \in 0..MaxTime
    BY MaxTimeAssumption DEF RInit
  <1>. QED BY <1>1, <1>2, <1>3 DEF RInit, RTypeOK

(* ... and its actions keep them so, *)
LEMMA RTypeStep == RTypeOK /\ [RNext]_rvars => RTypeOK'
  <1> SUFFICES ASSUME RTypeOK, [RNext]_rvars PROVE RTypeOK'
    OBVIOUS
  <1>0. time \in 0..MaxTime /\ inventory \in [Devices -> RDevice] /\ jobs \in [Jobs -> RJob]
    BY DEF RTypeOK
  <1>1. ASSUME NEW j \in Jobs, Enqueue(j) PROVE RTypeOK'
    <2>1. time' \in 0..MaxTime
      BY <1>0, <1>1, LaterTypes DEF Enqueue
    <2>2. [NoJob EXCEPT !.phase = "New", !.quota = TRUE, !.finalizer = TRUE,
                        !.queued = time] \in RJob
      BY <1>0, MaxTimeAssumption DEF NoJob, RJob
    <2>3. jobs' \in [Jobs -> RJob] /\ inventory' = inventory
      BY <1>0, <1>1, <2>2 DEF Enqueue
    <2>. QED BY <1>0, <2>1, <2>3 DEF RTypeOK
  <1>2. ASSUME NEW j \in Jobs, NEW d \in Devices, Allocate(j, d) PROVE RTypeOK'
    <2>1. time' \in 0..MaxTime
      BY <1>0, <1>2, LaterTypes DEF Allocate
    <2>2. [inventory[d] EXCEPT !.res = [job |-> j, lease |-> Forever], !.at = time,
                               !.last = OwnerOf[j]] \in RDevice
      BY <1>0, REdits
    <2>3. [jobs[j] EXCEPT !.phase = "Held", !.asg = [dev |-> d, lease |-> Forever]] \in RJob
      BY <1>0, REdits
    <2>4. inventory' \in [Devices -> RDevice]
      BY <1>0, <1>2, <2>2 DEF Allocate
    <2>5. jobs' \in [Jobs -> RJob]
      BY <1>0, <1>2, <2>3 DEF Allocate
    <2>. QED BY <2>1, <2>4, <2>5 DEF RTypeOK
  <1>3. ASSUME NEW j \in Jobs, Complete(j) PROVE RTypeOK'
    <2>1. time' \in 0..MaxTime
      BY <1>0, <1>3, LaterTypes DEF Complete
    <2>2. jobs[j].asg.dev \in Devices
      BY <1>0, <1>3 DEF Complete, RJob
    <2>3. [inventory[jobs[j].asg.dev] EXCEPT !.res = NoReservation, !.at = time] \in RDevice
      BY <1>0, <2>2, REdits
    <2>4. inventory' \in [Devices -> RDevice]
      BY <1>0, <1>3, <2>3 DEF Complete
    <2>5. jobs' \in [Jobs -> RJob]
      <3>1. NoJob \in RJob
        BY MaxTimeAssumption DEF NoJob, RJob
      <3>. QED BY <1>0, <1>3, <3>1 DEF Complete
    <2>. QED BY <2>1, <2>4, <2>5 DEF RTypeOK
  <1>4. CASE UNCHANGED rvars
    BY <1>4 DEF rvars, RTypeOK
  <1>. QED BY <1>1, <1>2, <1>3, <1>4 DEF RNext

(* in every behaviour. *)
LEMMA RTypeSpec == RSpec => []RTypeOK
  BY RTypeInit, RTypeStep, PTL DEF RSpec

(* What RTypeOK gives the queue lemmas. *)
LEMMA RTypeQueue == RTypeOK => QueueTyped(jobs, inventory, MaxTime)
  <1> SUFFICES ASSUME RTypeOK PROVE QueueTyped(jobs, inventory, MaxTime)
    OBVIOUS
  <1>0. 0..MaxTime \subseteq Nat
    BY MaxTimeAssumption
  <1>1. \A j \in Jobs : jobs[j].queued \in Nat
    <2>1. \A j \in Jobs : jobs[j].queued \in 0..MaxTime
      BY DEF RTypeOK, RJob
    <2>. QED BY <1>0, <2>1
  <1>2. \A d \in Devices : inventory[d].at \in NoTime..MaxTime
    BY DEF RTypeOK, RDevice
  <1>. QED BY <1>1, <1>2 DEF QueueTyped

(* Existence and uniqueness of the next job and its first device are one move. *)
LEMMA OneMoveHolds == RTypeOK => OneMove
  <1> SUFFICES ASSUME RTypeOK, Schedulable(jobs, inventory, time) # {}
               PROVE  Cardinality({m \in Jobs \X Devices :
                       /\ NextSchedulable(jobs, inventory, time, m[1])
                       /\ FirstCandidate(inventory, m[1], jobs[m[1]].type, time, m[2])}) = 1
    BY DEF OneMove
  <1>1. QueueTyped(jobs, inventory, MaxTime) /\ MaxTime \in Int
    BY RTypeQueue, MaxTimeAssumption
  <1>2. PICK j \in Schedulable(jobs, inventory, time) :
           \A k \in Jobs : NextSchedulable(jobs, inventory, time, k) <=> k = j
    BY <1>1, OneNextSchedulable
  <1>3. j \in Jobs /\ Candidates(inventory, j, jobs[j].type, time) # {}
    BY DEF Schedulable
  <1>4. PICK d \in Devices : \A e \in Devices :
           FirstCandidate(inventory, j, jobs[j].type, time, e) <=> e = d
    BY <1>1, <1>3, OneFirstCandidate
  <1>. DEFINE M == {m \in Jobs \X Devices :
                       /\ NextSchedulable(jobs, inventory, time, m[1])
                       /\ FirstCandidate(inventory, m[1], jobs[m[1]].type, time, m[2])}
  <1>5. M = {<<j, d>>}
    <2>1. ASSUME NEW m \in M PROVE m = <<j, d>>
      <3>1. m[1] \in Jobs /\ m[2] \in Devices /\ m = <<m[1], m[2]>>
        OBVIOUS
      <3>2. m[1] = j
        BY <1>2, <3>1
      <3>3. m[2] = d
        BY <1>4, <3>1, <3>2
      <3>. QED BY <3>1, <3>2, <3>3
    <2>2. <<j, d>> \in M
      BY <1>2, <1>3, <1>4
    <2>. QED BY <2>1, <2>2
  <1>6. Cardinality({<<j, d>>}) = 1
    BY FS_Singleton
  <1>. QED BY <1>5, <1>6

(* OneMove, for any jobs, devices, owners and any history of the inventory:  *)
(* when a job can be placed, next_schedulable_job and candidate_devices      *)
(* agree on exactly one job and one device, so no two replicas that read the *)
(* same lists differ and none waits for a job that is not served.            *)
THEOREM OneMoveCorrect == RSpec => []OneMove
  BY RTypeSpec, OneMoveHolds, PTL

(* Only Allocate gives a device, to a job that heads its principal's queue. *)
LEMMA OldestServedStep ==
    ASSUME RTypeOK, [RNext]_rvars, NEW j \in Jobs,
           jobs[j].asg = NoAssignment, jobs'[j].asg # NoAssignment,
           NEW k \in Schedulable(jobs, inventory, time), OwnerOf[k] = OwnerOf[j]
    PROVE  jobs[j].queued <= jobs[k].queued
  <1>0. jobs \in [Jobs -> RJob]
    BY DEF RTypeOK
  <1>1. ASSUME NEW i \in Jobs, Enqueue(i) PROVE FALSE
    <2>. DEFINE new == [NoJob EXCEPT !.phase = "New", !.quota = TRUE, !.finalizer = TRUE,
                                     !.queued = time]
    <2>1. new.asg = NoAssignment
      BY DEF NoJob
    <2>2. jobs' = [jobs EXCEPT ![i] = new]
      BY <1>1 DEF Enqueue
    <2>. HIDE DEF new
    <2>3. jobs'[j] = IF j = i THEN new ELSE jobs[j]
      BY <1>0, <2>2
    <2>. QED BY <2>1, <2>3
  <1>2. ASSUME NEW i \in Jobs, Complete(i) PROVE FALSE
    <2>1. jobs'[j] = IF j = i THEN NoJob ELSE jobs[j]
      BY <1>0, <1>2 DEF Complete
    <2>. QED BY <2>1 DEF NoJob
  <1>3. ASSUME UNCHANGED rvars PROVE FALSE
    BY <1>3 DEF rvars
  <1>4. PICK i \in Jobs, d \in Devices : Allocate(i, d)
    BY <1>1, <1>2, <1>3 DEF RNext
  <1>5. i = j
    BY <1>0, <1>4 DEF Allocate
  <1>6. j \in OldestOfPrincipal(jobs, Schedulable(jobs, inventory, time))
    BY <1>4, <1>5 DEF Allocate, NextSchedulable
  <1>7. k = j \/ JobBefore(jobs, j, k)
    BY <1>6 DEF OldestOfPrincipal
  <1>8. k \in Jobs
    BY DEF Schedulable
  <1>9. jobs[j].queued \in Nat /\ jobs[k].queued \in Nat
    BY <1>8, RTypeQueue DEF QueueTyped
  <1>. QED BY <1>7, <1>9 DEF JobBefore

(* OldestServed: an allocation never lets a principal's younger placeable    *)
(* job overtake an older one, in the order in which job_order sorts them.    *)
THEOREM OldestServedCorrect == RSpec => OldestServed
  <1>1. RTypeOK /\ [RNext]_rvars =>
           [\A j \in Jobs : jobs[j].asg = NoAssignment /\ jobs'[j].asg # NoAssignment
              => \A k \in Schedulable(jobs, inventory, time) :
                    OwnerOf[k] = OwnerOf[j] => jobs[j].queued <= jobs[k].queued]_rvars
    BY OldestServedStep
  <1>. QED BY <1>1, RTypeSpec, PTL DEF RSpec, OldestServed

-----------------------------------------------------------------------------
(* The scheduler with its races. *)

USE NamesAssumption, OwnersAssumption, TimeAssumption, ReplicasAssumption,
    EnvironmentAssumption

(* The records the actions write have their types. *)

LEMMA ConstantTypes ==
    /\ NoJob \in JobRecords
    /\ NewDevice \in DeviceRecords
    /\ NoView \in [Devices -> DeviceRecords]
    /\ NoAssignment \in Assignments
    /\ NoReservation \in Reservations
  BY DEF NoJob, JobRecords, Phases, Assignments, NewDevice, DeviceRecords,
         Reservations, NoView

LEMMA WorkerJobs ==
    ASSUME NEW w \in Workers
    PROVE  JobOf(w) \in Jobs \/ JobOf(w) = Loop
  BY DEF Workers, JobOf

LEMMA LoopIsNoJob == Loop \notin Jobs
  BY DEF Loop

LEMMA OwnerTypes ==
    ASSUME NEW j \in Jobs
    PROVE  OwnerOf[j] \in Principals
  BY DEF Principals

LEMMA AssignmentTypes ==
    ASSUME NEW a \in Assignments
    PROVE  /\ a.lease \in Int
           /\ a # NoAssignment => a.dev \in Devices /\ a.lease \in Nat
  BY DEF Assignments, NoAssignment, NoTime

LEMMA ReservationTypes ==
    ASSUME NEW r \in Reservations
    PROVE  /\ r.lease \in Int
           /\ r # NoReservation => r.job \in Jobs /\ r.lease \in Nat
  BY DEF Reservations, NoReservation, NoTime

LEMMA StatusTypes ==
    ASSUME NEW r \in JobRecords, NEW phase \in Phases, NEW asg \in Assignments
    PROVE  [r EXCEPT !.phase = phase, !.asg = asg] \in JobRecords
  BY DEF JobRecords

LEMMA FlagTypes ==
    ASSUME NEW r \in JobRecords, NEW b \in BOOLEAN
    PROVE  /\ [r EXCEPT !.finalizer = b] \in JobRecords
           /\ [r EXCEPT !.deleting = b] \in JobRecords
  BY DEF JobRecords

LEMMA DeviceEditTypes ==
    ASSUME NEW r \in DeviceRecords, NEW t \in Nat
    PROVE  /\ [r EXCEPT !.res = NoReservation] \in DeviceRecords
           /\ [r EXCEPT !.res = NoReservation, !.at = t] \in DeviceRecords
           /\ \A b \in BOOLEAN : [r EXCEPT !.healthy = b] \in DeviceRecords
           /\ \A users \in SUBSET Subjects : [r EXCEPT !.users = users] \in DeviceRecords
<1>1. NoReservation \in Reservations
  BY ConstantTypes
<1> QED BY <1>1 DEF DeviceRecords

LEMMA WriteJobTypes ==
    ASSUME TypeOK, NEW j \in Jobs, NEW rec \in JobRecords, WriteJob(j, rec)
    PROVE  job' \in [Jobs -> JobRecords] /\ current' \subseteq Workers
  BY DEF TypeOK, WriteJob

LEMMA WriteDevicesTypes ==
    ASSUME TypeOK, NEW D \in SUBSET Devices, NEW rec,
           \A d \in D : rec[d] \in DeviceRecords, WriteDevices(D, rec)
    PROVE  device' \in [Devices -> DeviceRecords]
  BY DEF TypeOK, WriteDevices

LEMMA ReturnTypes ==
    ASSUME TypeOK, NEW w \in Workers, Return(w)
    PROVE  /\ pc' \in [Workers -> Steps]
           /\ now' \in [Workers -> Nat]
           /\ snap' \in [Workers -> JobRecords]
           /\ view' \in [Workers -> [Devices -> DeviceRecords]]
           /\ target' \in [Workers -> Assignments]
  BY ConstantTypes DEF TypeOK, Return, Goto, Steps

LEMMA FinishTypes ==
    ASSUME TypeOK, NEW w \in Workers, NEW step \in Steps, Finish(w, step)
    PROVE  /\ pc' \in [Workers -> Steps]
           /\ now' \in [Workers -> Nat]
           /\ snap' \in [Workers -> JobRecords]
           /\ current' \subseteq Workers
           /\ view' \in [Workers -> [Devices -> DeviceRecords]]
           /\ target' \in [Workers -> Assignments]
<1>1. CASE step = "idle"
  BY <1>1, ReturnTypes DEF TypeOK, Finish
<1>2. CASE step # "idle"
  BY <1>2 DEF TypeOK, Finish, Goto
<1> QED BY <1>1, <1>2

LEMMA SendStatusTypes ==
    ASSUME TypeOK, NEW w \in Workers, JobOf(w) \in Jobs,
           NEW phase \in Phases, NEW asg \in Assignments, SendStatus(w, phase, asg)
    PROVE  job' \in [Jobs -> JobRecords] /\ current' \subseteq Workers
<1>1. [job[JobOf(w)] EXCEPT !.phase = phase, !.asg = asg] \in JobRecords
  BY StatusTypes DEF TypeOK
<1> QED BY <1>1, WriteJobTypes DEF SendStatus

LEMMA FinishWithTypes ==
    ASSUME TypeOK, NEW w \in Workers, JobOf(w) \in Jobs,
           NEW phase \in Phases, NEW asg \in Assignments, FinishWith(w, phase, asg)
    PROVE  TypeOK'
<1>1. job' \in [Jobs -> JobRecords] /\ current' \subseteq Workers
  BY SendStatusTypes DEF FinishWith, SkipStatus, StatusConflict, TypeOK
<1> QED BY <1>1, ReturnTypes DEF FinishWith, TypeOK

LEMMA ReserveDeviceTypes ==
    ASSUME TypeOK, NEW w \in Workers, JobOf(w) \in Jobs, NEW next \in Steps,
           ReserveDevice(w, next)
    PROVE  /\ device' \in [Devices -> DeviceRecords]
           /\ fresh' \in [Workers -> SUBSET Devices]
           /\ target' \in [Workers -> Assignments]
           /\ pc' \in [Workers -> Steps]
<1> DEFINE d == target[w].dev
           rec == [e \in Devices |-> ReservedRecord(w, device[e])]
<1>1. d \in Devices /\ now[w] + Lease \in Nat
  BY DEF TypeOK, ReserveDevice
<1>2. rec[d] \in DeviceRecords
  <2> DEFINE r == [job |-> JobOf(w), lease |-> now[w] + Lease]
  <2>1. r \in Reservations /\ now[w] \in Nat /\ OwnerOf[JobOf(w)] \in Principals
    BY <1>1, OwnerTypes DEF TypeOK, Reservations
  <2>2. device[d] \in DeviceRecords
    BY <1>1 DEF TypeOK
  <2>3. rec[d] = [device[d] EXCEPT !.res = r, !.at = now[w], !.last = OwnerOf[JobOf(w)]]
    BY <1>1 DEF ReservedRecord
  <2> HIDE DEF r, rec, d
  <2> QED BY <2>1, <2>2, <2>3 DEF DeviceRecords
<1>3. device' \in [Devices -> DeviceRecords]
  <2>1. {d} \in SUBSET Devices
    BY <1>1
  <2>2. \A e \in {d} : rec[e] \in DeviceRecords
    BY <1>2
  <2>3. WriteDevices({d}, rec)
    BY DEF ReserveDevice
  <2> HIDE DEF d, rec
  <2> QED BY <2>1, <2>2, <2>3, WriteDevicesTypes
<1>4. fresh' \in [Workers -> SUBSET Devices] /\ pc' \in [Workers -> Steps]
  BY DEF TypeOK, ReserveDevice, Outdated, Goto
<1>5. [dev |-> d, lease |-> now[w] + Lease] \in Assignments
  BY <1>1 DEF Assignments
<1>6. target' \in [Workers -> Assignments]
  BY <1>5 DEF TypeOK, ReserveDevice
<1> QED BY <1>3, <1>4, <1>6

-----------------------------------------------------------------------------
(* What a process holds at each step of a reconcile. *)

(* Only the steps of refresh and reclaim are the maintenance loop's. *)
LoopSteps == {"idle", "refresh", "relist", "reclaim"}

Shape(w) ==
    /\ JobOf(w) \notin Jobs
          => pc[w] \in LoopSteps /\ snap[w] = NoJob /\ target[w] = NoAssignment
    /\ pc[w] \in {"refresh", "relist", "reclaim"}
          => ~snap[w].deleting /\ target[w] = snap[w].asg
    /\ pc[w] \in {"validate", "renewRead", "renew"}
          => snap[w].asg # NoAssignment /\ target[w] = snap[w].asg
    /\ pc[w] = "settle"
          => snap[w].asg # NoAssignment /\ target[w] # NoAssignment
    /\ pc[w] \in {"inventory", "decide", "reserve", "publish"}
          => ~snap[w].deleting /\ snap[w].quota /\ snap[w].asg = NoAssignment
    /\ pc[w] \in {"reserve", "publish"}
          => target[w] # NoAssignment /\ TypeMatches(snap[w].type, target[w].dev)
    /\ pc[w] = "releaseWrite" => target[w] # NoAssignment

TypeInv == TypeOK /\ \A w \in Workers : Shape(w)

LEMMA TypeInit == Init => TypeInv
<1> SUFFICES ASSUME Init PROVE TypeInv
  OBVIOUS
<1>1. TypeOK
  BY ConstantTypes DEF Init, TypeOK, Steps
<1>2. \A w \in Workers : Shape(w)
  BY DEF Init, Shape, LoopSteps, NoJob, NoAssignment
<1> QED BY <1>1, <1>2 DEF TypeInv

(* A process acts only on its own local state. *)
Acts(w) == Observe(w) \/ Step(w) \/ Fail(w) \/ RefreshFails(w) \/ PublishAnswerLost(w)

Undisturbed(v) ==
    /\ pc'[v] = pc[v] /\ now'[v] = now[v] /\ snap'[v] = snap[v]
    /\ view'[v] = view[v] /\ target'[v] = target[v]
    /\ fresh'[v] \subseteq fresh[v]
    /\ v \in current' => v \in current

LEMMA OthersUndisturbed ==
    ASSUME TypeOK, NEW w \in Workers, Acts(w), NEW v \in Workers, v # w
    PROVE  Undisturbed(v)
<1> USE DEF TypeOK, Undisturbed, Goto
<1>1. CASE Observe(w)
  BY <1>1 DEF Observe
<1>2. CASE BeginDeletion(w)
  BY <1>2 DEF BeginDeletion
<1>3. CASE EnsureFinalizer(w)
  BY <1>3 DEF EnsureFinalizer, WriteJob, Return
<1>4. CASE ListForRefresh(w)
  BY <1>4 DEF ListForRefresh, PlanWrites
<1>5. CASE RefreshWrite(w)
  BY <1>5 DEF RefreshWrite, ApplyPlanned, Outdated
<1>6. CASE ListForReclaim(w)
  BY <1>6 DEF ListForReclaim, PlanWrites
<1>7. CASE ReclaimWrite(w)
  BY <1>7 DEF ReclaimWrite, ApplyPlanned, Outdated
<1>8. CASE PatchQueued(w)
  BY <1>8 DEF PatchQueued, FinishWith, SendStatus, SkipStatus,
         StatusConflict, WriteJob, Return
<1>9. CASE PatchRetry(w)
  BY <1>9 DEF PatchRetry, FinishWith, SendStatus, SkipStatus,
         StatusConflict, WriteJob, Return
<1>10. CASE PatchRejected(w)
  BY <1>10 DEF PatchRejected, FinishWith, SendStatus, SkipStatus,
         StatusConflict, WriteJob, Return
<1>11. CASE PatchRenewed(w)
  BY <1>11 DEF PatchRenewed, FinishWith, SendStatus, SkipStatus,
         StatusConflict, WriteJob, Return
<1>12. CASE ReleaseRead(w)
  BY <1>12 DEF ReleaseRead, Finish, Return
<1>13. CASE ReleaseWrite(w)
  BY <1>13, ZenonT(40) DEF ReleaseWrite, Outdated, Finish, Return
<1>14. CASE PatchCancelled(w)
  BY <1>14 DEF PatchCancelled, SendStatus, SkipStatus, StatusConflict,
         WriteJob, Return
<1>15. CASE RemoveFinalizer(w)
  BY <1>15 DEF RemoveFinalizer, WriteJob, Return
<1>16. CASE Validate(w)
  BY <1>16 DEF Validate
<1>17. CASE RenewRead(w)
  BY <1>17 DEF RenewRead
<1>18. CASE Renew(w)
  <2>1. CASE ReserveDevice(w, "settle")
    BY <2>1 DEF ReserveDevice, Outdated
  <2>2. CASE ReserveConflict(w)
    BY <2>2 DEF ReserveConflict, Finish, Return
  <2> QED BY <1>18, <2>1, <2>2 DEF Renew
<1>19. CASE ListInventory(w)
  BY <1>19 DEF ListInventory
<1>20. CASE Decide(w)
  BY <1>20 DEF Decide
<1>21. CASE Reserve(w)
  <2>1. CASE ReserveDevice(w, "publish")
    BY <2>1 DEF ReserveDevice, Outdated
  <2>2. CASE ReserveConflict(w)
    BY <2>2 DEF ReserveConflict, Finish, Return
  <2> QED BY <1>21, <2>1, <2>2 DEF Reserve
<1>22. CASE Publish(w)
  BY <1>22 DEF Publish, SendStatus, StatusConflict, WriteJob, Return
<1>23. CASE Fail(w)
  BY <1>23 DEF Fail, Return
<1>24. CASE PublishAnswerLost(w)
  BY <1>24 DEF PublishAnswerLost, SendStatus, WriteJob
<1>25. CASE RefreshFails(w)
  BY <1>25 DEF RefreshFails
<1> QED
  BY <1>1, <1>2, <1>3, <1>4, <1>5, <1>6, <1>7, <1>8, <1>9, <1>10,
     <1>11, <1>12, <1>13, <1>14, <1>15, <1>16, <1>17, <1>18, <1>19,
     <1>20, <1>21, <1>22, <1>23, <1>24, <1>25 DEF Acts, Step

LEMMA ShapeFrame ==
    ASSUME NEW v \in Workers, Shape(v), Undisturbed(v)
    PROVE  Shape(v)'
  BY DEF Shape, Undisturbed

LEMMA ReturnShape ==
    ASSUME TypeOK, NEW w \in Workers, Shape(w), Return(w)
    PROVE  Shape(w)'
  BY DEF TypeOK, Return, Goto, Shape, LoopSteps

LEMMA FinishWithShape ==
    ASSUME TypeOK, NEW w \in Workers, Shape(w),
           NEW phase, NEW asg, FinishWith(w, phase, asg)
    PROVE  Shape(w)'
  BY ReturnShape DEF FinishWith

(* Each action of a process keeps the types and the shape of its own state. *)
LEMMA ActsType ==
    ASSUME TypeInv, NEW w \in Workers, Acts(w)
    PROVE  TypeOK' /\ Shape(w)'
<1>0. TypeOK /\ Shape(w) /\ Steps # {}
  BY DEF TypeInv, Steps
<1>j. pc[w] \notin LoopSteps => JobOf(w) \in Jobs
  BY <1>0 DEF Shape
<1> USE <1>0
<1>1. CASE Observe(w)
  <2>1. TypeOK'
    BY <1>1 DEF Observe, Goto, TypeOK, Steps, objects
  <2>2. Shape(w)'
    BY <1>1 DEF Observe, Goto, TypeOK, Shape
  <2> QED BY <2>1, <2>2
<1>2. CASE BeginDeletion(w)
  <2>1. TypeOK'
    BY <1>2 DEF BeginDeletion, Goto, TypeOK, Steps, JobRecords, objects
  <2>2. Shape(w)'
    BY <1>2, <1>j DEF BeginDeletion, Goto, TypeOK, Shape, LoopSteps
  <2> QED BY <2>1, <2>2
<1>3. CASE EnsureFinalizer(w)
  <2>1. JobOf(w) \in Jobs
    BY <1>3, <1>j DEF EnsureFinalizer, LoopSteps
  <2>2. [job[JobOf(w)] EXCEPT !.finalizer = TRUE] \in JobRecords
    BY <2>1, FlagTypes DEF TypeOK
  <2>3. job' \in [Jobs -> JobRecords] /\ current' \subseteq Workers
    BY <1>3, <2>1, <2>2, WriteJobTypes DEF EnsureFinalizer, TypeOK
  <2> QED BY <1>3, <2>3, ReturnTypes, ReturnShape DEF EnsureFinalizer, TypeOK
<1>4. CASE ListForRefresh(w)
  <2>1. RefreshHealth \in [Devices -> DeviceRecords]
    BY DeviceEditTypes DEF RefreshHealth, TypeOK
  <2>2. TypeOK'
    BY <1>4, <2>1, ConstantTypes
    DEF ListForRefresh, PlanWrites, Goto, TypeOK, Steps, JobRecords, objects
  <2>3. Shape(w)'
    BY <1>4 DEF ListForRefresh, PlanWrites, Goto, TypeOK, Shape, LoopSteps, Loop, NoJob
  <2> QED BY <2>2, <2>3
<1>5. CASE RefreshWrite(w)
  <2>1. device' \in [Devices -> DeviceRecords]
    <3>1. ASSUME NEW d \in fresh[w], WriteDevices({d}, view[w])
          PROVE  device' \in [Devices -> DeviceRecords]
      <4>1. {d} \in SUBSET Devices /\ \A e \in {d} : view[w][e] \in DeviceRecords
        BY DEF TypeOK
      <4> QED BY <3>1, <4>1, WriteDevicesTypes
    <3> QED BY <1>5, <3>1 DEF RefreshWrite, ApplyPlanned, TypeOK
  <2>2. TypeOK'
    <3>0. "relist" \in Steps
      BY DEF Steps
    <3>1. CASE fresh[w] = {}
      BY <1>5, <2>1, <3>0, <3>1, ConstantTypes, ZenonT(40) DEF RefreshWrite, ApplyPlanned, Goto, TypeOK
    <3>2. CASE fresh[w] # {}
      BY <1>5, <2>1, <3>2 DEF RefreshWrite, ApplyPlanned, Outdated, TypeOK
    <3> QED BY <3>1, <3>2
  <2>3. Shape(w)'
    BY <1>5 DEF RefreshWrite, ApplyPlanned, Goto, TypeOK, Shape, LoopSteps
  <2> QED BY <2>2, <2>3
<1>a. /\ AfterReclaim(w) \in Steps
      /\ AfterReclaim(w) = "idle" => JobOf(w) = Loop
      /\ JobOf(w) \notin Jobs => AfterReclaim(w) = "idle"
      /\ AfterReclaim(w) \in {"idle", "release", "validate", "inventory"}
      /\ AfterReclaim(w) = "validate" => snap[w].asg # NoAssignment
      /\ AfterReclaim(w) = "inventory" => snap[w].quota /\ snap[w].asg = NoAssignment
  BY WorkerJobs, LoopIsNoJob DEF AfterReclaim, Steps, TypeOK, JobRecords
<1>6. CASE ListForReclaim(w)
  <2>1. ASSUME NEW t PROVE Reclaimed(t) \in [Devices -> DeviceRecords]
    BY DeviceEditTypes DEF Reclaimed, TypeOK
  <2>2. TypeOK'
    BY <1>6, <2>1, <1>a, ConstantTypes
    DEF ListForReclaim, PlanWrites, Goto, TypeOK, Steps, objects
  <2>3. /\ pc'[w] \in {AfterReclaim(w), "reclaim"}
        /\ snap'[w] = snap[w] /\ target'[w] = target[w] /\ pc[w] = "relist"
    BY <1>6 DEF ListForReclaim, PlanWrites, Goto, TypeOK
  <2>4. Shape(w)'
    BY <2>3, <1>a DEF Shape, LoopSteps
  <2> QED BY <2>2, <2>4
<1>7. CASE ReclaimWrite(w)
  <2>1. device' \in [Devices -> DeviceRecords]
    <3>1. ASSUME NEW d \in fresh[w], WriteDevices({d}, view[w])
          PROVE  device' \in [Devices -> DeviceRecords]
      <4>1. {d} \in SUBSET Devices /\ \A e \in {d} : view[w][e] \in DeviceRecords
        BY DEF TypeOK
      <4> QED BY <3>1, <4>1, WriteDevicesTypes
    <3> QED BY <1>7, <3>1 DEF ReclaimWrite, ApplyPlanned, TypeOK
  <2>2. TypeOK'
    BY <1>7, <1>a, <2>1, ConstantTypes
    DEF ReclaimWrite, ApplyPlanned, Outdated, Goto, TypeOK
  <2>3. /\ pc'[w] \in {AfterReclaim(w), "reclaim"}
        /\ snap'[w] = snap[w] /\ target'[w] = target[w] /\ pc[w] = "reclaim"
    BY <1>7 DEF ReclaimWrite, ApplyPlanned, Goto, TypeOK
  <2>4. Shape(w)'
    BY <2>3, <1>a DEF Shape, LoopSteps
  <2> QED BY <2>2, <2>4
<1>8. CASE PatchQueued(w)
  BY <1>8, <1>j, FinishWithTypes, FinishWithShape, ConstantTypes
  DEF PatchQueued, LoopSteps, Phases
<1>9. CASE PatchRetry(w)
  BY <1>9, <1>j, FinishWithTypes, FinishWithShape, ConstantTypes
  DEF PatchRetry, LoopSteps, Phases
<1>10. CASE PatchRejected(w)
  BY <1>10, <1>j, FinishWithTypes, FinishWithShape, ConstantTypes
  DEF PatchRejected, LoopSteps, Phases
<1>11. CASE PatchRenewed(w)
  <2>1. target[w] \in Assignments
    BY DEF TypeOK
  <2> QED BY <1>11, <2>1, <1>j, FinishWithTypes, FinishWithShape
          DEF PatchRenewed, LoopSteps, Phases
<1>b. /\ AfterRelease(w) \in Steps
      /\ AfterRelease(w) \in {"idle", "cancel", "reject", "retry"}
  BY DEF AfterRelease, Steps
<1>c. ASSUME pc[w] \notin LoopSteps, NEW step \in {"idle", "cancel", "reject", "retry"},
             Finish(w, step)
      PROVE  Shape(w)'
  <2>1. CASE step = "idle"
    BY <1>c, <2>1, ReturnShape DEF Finish
  <2>2. CASE step # "idle"
    BY <1>c, <2>2, <1>j DEF Finish, Goto, TypeOK, Shape
  <2> QED BY <2>1, <2>2
<1>12. CASE ReleaseRead(w)
  <2>1. CASE MustRelease(w) /\ fresh' = [fresh EXCEPT ![w] = {target[w].dev}]
             /\ Goto(w, "releaseWrite") /\ UNCHANGED <<now, snap, current, view, target>>
    <3>1. target[w] # NoAssignment /\ target[w] \in Assignments /\ JobOf(w) \in Jobs
      BY <1>12, <2>1, <1>j DEF MustRelease, TypeOK, ReleaseRead, LoopSteps
    <3>2. target[w].dev \in Devices
      BY <3>1, AssignmentTypes
    <3>3. TypeOK'
      BY <1>12, <2>1, <3>2 DEF ReleaseRead, Goto, TypeOK, Steps, objects
    <3>4. Shape(w)'
      BY <2>1, <3>1 DEF Goto, TypeOK, Shape
    <3> QED BY <3>3, <3>4
  <2>2. CASE Finish(w, AfterRelease(w)) /\ UNCHANGED fresh
    BY <1>12, <2>2, <1>b, <1>c, FinishTypes DEF ReleaseRead, LoopSteps, TypeOK, objects
  <2> QED BY <1>12, <2>1, <2>2 DEF ReleaseRead
<1>13. CASE ReleaseWrite(w)
  <2> DEFINE d == target[w].dev
             rec == [e \in Devices |-> ReleasedRecord(w, device[e])]
  <2>1. CASE d \in fresh[w] /\ WriteDevices({d}, rec)
             /\ fresh' = [Outdated(fresh, {d}) EXCEPT ![w] = {}]
             /\ Finish(w, AfterRelease(w))
    <3>1. d \in Devices
      BY <2>1 DEF TypeOK
    <3>2. device[d] \in DeviceRecords /\ now[w] \in Nat /\ rec[d] = ReleasedRecord(w, device[d])
      BY <3>1 DEF TypeOK
    <3>3. rec[d] \in DeviceRecords
      BY <3>2, DeviceEditTypes DEF ReleasedRecord
    <3>4. device' \in [Devices -> DeviceRecords]
      <4>1. {d} \in SUBSET Devices /\ \A e \in {d} : rec[e] \in DeviceRecords
        BY <3>1, <3>3
      <4>2. WriteDevices({d}, rec)
        BY <2>1
      <4> HIDE DEF d, rec
      <4> QED BY <4>1, <4>2, WriteDevicesTypes
    <3>5. fresh' \in [Workers -> SUBSET Devices]
      BY <2>1 DEF TypeOK, Outdated
    <3> QED BY <1>13, <2>1, <3>4, <3>5, <1>b, <1>c, FinishTypes
            DEF ReleaseWrite, LoopSteps, TypeOK
  <2>2. CASE /\ d \notin fresh[w] /\ fresh' = [fresh EXCEPT ![w] = {}]
             /\ Finish(w, "idle") /\ UNCHANGED device
    BY <1>13, <2>2, <1>c, FinishTypes DEF ReleaseWrite, LoopSteps, TypeOK, Steps
  <2> QED BY <1>13, <2>1, <2>2 DEF ReleaseWrite
<1>14. CASE PatchCancelled(w)
  <2>1. JobOf(w) \in Jobs
    BY <1>14, <1>j DEF PatchCancelled, LoopSteps
  <2>2. job' \in [Jobs -> JobRecords] /\ current' \subseteq Workers
    BY <1>14, <2>1, SendStatusTypes, ConstantTypes
    DEF PatchCancelled, SkipStatus, StatusConflict, TypeOK, Phases
  <2>3. CASE Return(w)
    BY <1>14, <2>2, <2>3, ReturnTypes, ReturnShape DEF PatchCancelled, TypeOK
  <2>4. CASE Goto(w, "unfinalize") /\ UNCHANGED <<now, snap, view, target>>
    <3>1. TypeOK'
      BY <1>14, <2>2, <2>4 DEF PatchCancelled, TypeOK, Goto, Steps
    <3>2. Shape(w)'
      BY <2>1, <2>4 DEF TypeOK, Goto, Shape
    <3> QED BY <3>1, <3>2
  <2> QED BY <1>14, <2>3, <2>4 DEF PatchCancelled
<1>15. CASE RemoveFinalizer(w)
  <2>1. JobOf(w) \in Jobs
    BY <1>15, <1>j DEF RemoveFinalizer, LoopSteps
  <2>2. [job[JobOf(w)] EXCEPT !.finalizer = FALSE] \in JobRecords
    BY <2>1, FlagTypes DEF TypeOK
  <2>3. job' \in [Jobs -> JobRecords] /\ current' \subseteq Workers
    BY <1>15, <2>1, <2>2, WriteJobTypes, ConstantTypes DEF RemoveFinalizer, TypeOK
  <2> QED BY <1>15, <2>3, ReturnTypes, ReturnShape DEF RemoveFinalizer, TypeOK
<1>16. CASE Validate(w)
  <2>1. TypeOK'
    BY <1>16 DEF Validate, Goto, TypeOK, Steps, objects
  <2>2. /\ pc'[w] \in {"release", "settle", "renewRead"} /\ pc[w] = "validate"
        /\ snap'[w] = snap[w] /\ target'[w] = target[w]
    BY <1>16 DEF Validate, Goto, TypeOK
  <2>3. Shape(w)'
    BY <2>2, <1>j DEF Shape, LoopSteps
  <2> QED BY <2>1, <2>3
<1>17. CASE RenewRead(w)
  <2>1. target[w] # NoAssignment /\ target[w] \in Assignments
    BY <1>17 DEF RenewRead, Shape, TypeOK
  <2>2. target[w].dev \in Devices
    BY <2>1, AssignmentTypes
  <2>3. TypeOK'
    BY <1>17, <2>2 DEF RenewRead, Goto, TypeOK, Steps, objects
  <2>4. Shape(w)'
    BY <1>17, <1>j DEF RenewRead, Goto, TypeOK, Shape, LoopSteps
  <2> QED BY <2>3, <2>4
<1>d. ASSUME pc[w] \notin LoopSteps, NEW next \in Steps, ReserveDevice(w, next)
      PROVE  target'[w] # NoAssignment /\ target'[w].dev = target[w].dev
             /\ pc'[w] = next /\ snap'[w] = snap[w]
  <2>1. target'[w] = [dev |-> target[w].dev, lease |-> now[w] + Lease]
        /\ pc'[w] = next /\ snap'[w] = snap[w] /\ now[w] \in Nat
    BY <1>d DEF ReserveDevice, Goto, TypeOK
  <2> QED BY <2>1 DEF NoAssignment, NoTime
<1>18. CASE Renew(w)
  <2>0. JobOf(w) \in Jobs
    BY <1>18, <1>j DEF Renew, LoopSteps
  <2>1. CASE ReserveDevice(w, "settle")
    <3>1. TypeOK'
      BY <1>18, <2>0, <2>1, ReserveDeviceTypes DEF Renew, ReserveDevice, TypeOK, Steps
    <3>2. pc'[w] = "settle" /\ target'[w] # NoAssignment /\ snap'[w] = snap[w]
      BY <1>18, <2>1, <1>d DEF Renew, LoopSteps, Steps
    <3>3. Shape(w)'
      BY <1>18, <2>0, <3>2 DEF Renew, Shape
    <3> QED BY <3>1, <3>3
  <2>2. CASE ReserveConflict(w)
    BY <1>18, <2>2, <1>c, FinishTypes DEF Renew, ReserveConflict, TypeOK, Steps, LoopSteps
  <2> QED BY <1>18, <2>1, <2>2 DEF Renew
<1>19. CASE ListInventory(w)
  <2>1. TypeOK'
    BY <1>19 DEF ListInventory, Goto, TypeOK, Steps, objects
  <2>2. Shape(w)'
    BY <1>19, <1>j DEF ListInventory, Goto, TypeOK, Shape, LoopSteps
  <2> QED BY <2>1, <2>2
<1>20. CASE Decide(w)
  <2>0. JobOf(w) \in Jobs
    BY <1>20, <1>j DEF Decide, LoopSteps
  <2>1. ASSUME NEW d \in Devices, Takes(w, d),
               target' = [target EXCEPT ![w] = [dev |-> d, lease |-> 0]],
               fresh' = [fresh EXCEPT ![w] = @ \cap {d}], Goto(w, "reserve")
        PROVE  TypeOK' /\ Shape(w)'
    <3>1. [dev |-> d, lease |-> 0] \in Assignments /\ [dev |-> d, lease |-> 0] # NoAssignment
      BY DEF Assignments, NoAssignment, NoTime
    <3>2. TypeOK'
      BY <1>20, <2>1, <3>1, ConstantTypes DEF Decide, Goto, TypeOK, Steps, objects
    <3>3. TypeMatches(snap[w].type, d)
      BY <2>1 DEF Takes, FirstCandidate, Candidates
    <3>4. /\ target'[w] = [dev |-> d, lease |-> 0] /\ pc'[w] = "reserve"
          /\ snap'[w] = snap[w] /\ pc[w] = "decide"
      BY <1>20, <2>1 DEF Decide, Goto, TypeOK
    <3>5. Shape(w)'
      BY <2>0, <3>1, <3>3, <3>4 DEF Shape
    <3> QED BY <3>2, <3>5
  <2>2. CASE fresh' = [fresh EXCEPT ![w] = {}] /\ Goto(w, "queue") /\ UNCHANGED target
    <3>1. TypeOK'
      BY <1>20, <2>2, ConstantTypes DEF Decide, Goto, TypeOK, Steps, objects
    <3>2. Shape(w)'
      BY <1>20, <2>0, <2>2 DEF Decide, Goto, TypeOK, Shape
    <3> QED BY <3>1, <3>2
  <2> QED BY <1>20, <2>1, <2>2 DEF Decide
<1>21. CASE Reserve(w)
  <2>0. JobOf(w) \in Jobs
    BY <1>21, <1>j DEF Reserve, LoopSteps
  <2>1. CASE ReserveDevice(w, "publish")
    <3>1. TypeOK'
      BY <1>21, <2>0, <2>1, ReserveDeviceTypes DEF Reserve, ReserveDevice, TypeOK, Steps
    <3>2. /\ pc'[w] = "publish" /\ target'[w] # NoAssignment
          /\ target'[w].dev = target[w].dev /\ snap'[w] = snap[w]
      BY <1>21, <2>1, <1>d DEF Reserve, LoopSteps, Steps
    <3>3. Shape(w)'
      BY <1>21, <2>0, <3>2 DEF Reserve, Shape
    <3> QED BY <3>1, <3>3
  <2>2. CASE ReserveConflict(w)
    BY <1>21, <2>2, <1>c, FinishTypes DEF Reserve, ReserveConflict, TypeOK, Steps, LoopSteps
  <2> QED BY <1>21, <2>1, <2>2 DEF Reserve
<1>e. ASSUME pc[w] = "publish", SendStatus(w, "Held", target[w])
      PROVE  job' \in [Jobs -> JobRecords] /\ current' \subseteq Workers
  <2>1. JobOf(w) \in Jobs /\ target[w] \in Assignments /\ "Held" \in Phases
    BY <1>e, <1>j DEF LoopSteps, TypeOK, Phases
  <2> QED BY <1>e, <2>1, SendStatusTypes
<1>22. CASE Publish(w)
  <2>1. CASE SendStatus(w, "Held", target[w]) /\ Return(w)
    BY <1>22, <2>1, <1>e, ReturnTypes, ReturnShape DEF Publish, TypeOK
  <2>2. CASE StatusConflict(w) /\ Goto(w, "release") /\ UNCHANGED <<now, snap, view, target>>
    <3>1. TypeOK'
      BY <1>22, <2>2 DEF Publish, StatusConflict, Goto, TypeOK, Steps
    <3>2. Shape(w)'
      BY <1>22, <2>2, <1>j DEF Publish, Goto, TypeOK, Shape, LoopSteps
    <3> QED BY <3>1, <3>2
  <2> QED BY <1>22, <2>1, <2>2 DEF Publish
<1>23. CASE Fail(w)
  BY <1>23, ReturnTypes, ReturnShape DEF Fail, TypeOK, objects
<1>24. CASE PublishAnswerLost(w)
  <2>1. job' \in [Jobs -> JobRecords] /\ current' \subseteq Workers
    BY <1>24, <1>e DEF PublishAnswerLost
  <2>2. TypeOK'
    BY <1>24, <2>1 DEF PublishAnswerLost, Goto, TypeOK, Steps
  <2>3. Shape(w)'
    BY <1>24, <1>j DEF PublishAnswerLost, Goto, TypeOK, Shape, LoopSteps
  <2> QED BY <2>2, <2>3
<1>25. CASE RefreshFails(w)
  <2>1. TypeOK'
    BY <1>25, ConstantTypes DEF RefreshFails, Goto, TypeOK, Steps, objects
  <2>2. Shape(w)'
    BY <1>25, LoopIsNoJob, <1>0
    DEF RefreshFails, Goto, TypeOK, Shape, LoopSteps, NoJob
  <2> QED BY <2>1, <2>2
<1> QED
  BY <1>1, <1>2, <1>3, <1>4, <1>5, <1>6, <1>7, <1>8, <1>9, <1>10,
     <1>11, <1>12, <1>13, <1>14, <1>15, <1>16, <1>17, <1>18, <1>19,
     <1>20, <1>21, <1>22, <1>23, <1>24, <1>25 DEF Acts, Step

(* What the rest of the world does. *)
World ==
    \/ \E j \in Jobs : \E type \in Requests : Submit(j, type)
    \/ \E j \in Jobs : \E type \in Requests, quota \in BOOLEAN :
          UpdateRequest(j, type, quota)
    \/ \E j \in Jobs : CancelRequest(j)
    \/ \E d \in Devices : NodeChange(d)
    \/ \E d \in Devices, users \in AccessSets : UpdateAccess(d, users)
    \/ Tick

LEMMA NextCases == Next <=> World \/ \E w \in Workers : Acts(w)
  BY DEF Next, Environment, World, Acts

LEMMA WorldUndisturbed ==
    ASSUME TypeOK, World, NEW v \in Workers
    PROVE  Undisturbed(v)
<1> USE DEF TypeOK, Undisturbed
<1>1. ASSUME NEW j \in Jobs, NEW type \in Requests, Submit(j, type)
      PROVE  Undisturbed(v)
  BY <1>1 DEF Submit, WriteJob
<1>2. ASSUME NEW j \in Jobs, NEW type \in Requests, NEW quota \in BOOLEAN,
             UpdateRequest(j, type, quota)
      PROVE  Undisturbed(v)
  BY <1>2 DEF UpdateRequest, WriteJob
<1>3. ASSUME NEW j \in Jobs, CancelRequest(j)
      PROVE  Undisturbed(v)
  BY <1>3 DEF CancelRequest, WriteJob
<1>4. ASSUME NEW d \in Devices, NodeChange(d)
      PROVE  Undisturbed(v)
  BY <1>4 DEF NodeChange
<1>5. ASSUME NEW d \in Devices, NEW users \in AccessSets, UpdateAccess(d, users)
      PROVE  Undisturbed(v)
  BY <1>5 DEF UpdateAccess, Outdated
<1>6. CASE Tick
  BY <1>6 DEF Tick
<1> QED BY <1>1, <1>2, <1>3, <1>4, <1>5, <1>6 DEF World

LEMMA WorldType ==
    ASSUME TypeOK, World
    PROVE  TypeOK'
<1> USE DEF objects
<1>1. ASSUME NEW j \in Jobs, NEW type \in Requests, Submit(j, type)
      PROVE  TypeOK'
  <2>1. [NoJob EXCEPT !.phase = "New", !.type = type, !.quota = TRUE, !.queued = clock]
          \in JobRecords
    BY ConstantTypes DEF TypeOK, JobRecords, Phases, NoJob
  <2> QED BY <1>1, <2>1, WriteJobTypes DEF Submit, TypeOK
<1>2. ASSUME NEW j \in Jobs, NEW type \in Requests, NEW quota \in BOOLEAN,
             UpdateRequest(j, type, quota)
      PROVE  TypeOK'
  <2>1. job[j] \in JobRecords /\ clock \in Nat
    BY DEF TypeOK
  <2>2. ASSUME NEW q \in Nat
        PROVE  [job[j] EXCEPT !.type = type, !.quota = quota, !.queued = q] \in JobRecords
    BY <2>1 DEF JobRecords
  <2>3. [job[j] EXCEPT !.type = type, !.quota = quota,
                       !.queued = IF type = job[j].type THEN @ ELSE clock] \in JobRecords
    BY <2>1, <2>2 DEF JobRecords
  <2> QED BY <1>2, <2>3, WriteJobTypes DEF UpdateRequest, TypeOK
<1>3. ASSUME NEW j \in Jobs, CancelRequest(j)
      PROVE  TypeOK'
  <2>1. [job[j] EXCEPT !.deleting = TRUE] \in JobRecords
    BY FlagTypes DEF TypeOK
  <2> QED BY <1>3, <2>1, WriteJobTypes, ConstantTypes DEF CancelRequest, TypeOK
<1>4. ASSUME NEW d \in Devices, NodeChange(d)
      PROVE  TypeOK'
  BY <1>4 DEF NodeChange, TypeOK
<1>5. ASSUME NEW d \in Devices, NEW users \in AccessSets, UpdateAccess(d, users)
      PROVE  TypeOK'
  <2> DEFINE rec == [e \in Devices |-> [device[e] EXCEPT !.users = users]]
  <2>1. users \in SUBSET Subjects /\ device[d] \in DeviceRecords /\ 0 \in Nat
    BY DEF TypeOK
  <2>2. {d} \in SUBSET Devices /\ \A e \in {d} : rec[e] \in DeviceRecords
    BY <2>1, DeviceEditTypes
  <2>3. WriteDevices({d}, rec)
    BY <1>5 DEF UpdateAccess
  <2> HIDE DEF rec
  <2>4. device' \in [Devices -> DeviceRecords]
    BY <2>2, <2>3, WriteDevicesTypes
  <2> QED BY <1>5, <2>4 DEF UpdateAccess, Outdated, TypeOK
<1>6. CASE Tick
  BY <1>6 DEF Tick, TypeOK
<1> QED BY <1>1, <1>2, <1>3, <1>4, <1>5, <1>6 DEF World

LEMMA TypeStep == TypeInv /\ [Next]_vars => TypeInv'
<1> SUFFICES ASSUME TypeInv, [Next]_vars PROVE TypeInv'
  OBVIOUS
<1>1. CASE World
  BY <1>1, WorldType, WorldUndisturbed, ShapeFrame DEF TypeInv
<1>2. ASSUME NEW w \in Workers, Acts(w) PROVE TypeInv'
  <2>1. TypeOK' /\ Shape(w)'
    BY <1>2, ActsType
  <2>2. ASSUME NEW v \in Workers, v # w PROVE Shape(v)'
    BY <1>2, <2>2, OthersUndisturbed, ShapeFrame DEF TypeInv
  <2> QED BY <2>1, <2>2 DEF TypeInv
<1>3. CASE UNCHANGED vars
  BY <1>3 DEF vars, TypeInv, TypeOK, Shape
<1> QED BY <1>1, <1>2, <1>3, NextCases

(* Type correctness: whatever replicas, users and nodes do, the objects keep *)
(* the shape crd.rs declares, and a process never acts on an assignment it   *)
(* does not hold.                                                            *)
THEOREM TypeCorrect == Spec => []TypeOK
<1>1. TypeInv => TypeOK
  BY DEF TypeInv
<1> QED BY <1>1, TypeInit, TypeStep, PTL DEF Spec

-----------------------------------------------------------------------------
(* Fencing: a process that still holds an object's version after a step sees *)
(* an object that the step did not change.                                   *)

DeviceFence(v) == \A d \in Devices : d \in fresh'[v] => device'[d] = device[d]
JobFence(v) ==
    v \in current' /\ JobOf(v) \in Jobs => job'[JobOf(v)] = job[JobOf(v)]

LEMMA WriteJobFence ==
    ASSUME TypeOK, NEW j \in Jobs, NEW rec, WriteJob(j, rec), NEW v \in Workers
    PROVE  JobFence(v)
  BY DEF TypeOK, WriteJob, JobFence

LEMMA ActsFence ==
    ASSUME TypeInv, NEW w \in Workers, Acts(w), NEW v \in Workers
    PROVE  DeviceFence(v) /\ JobFence(v)
<1>0. TypeOK /\ (pc[w] \notin LoopSteps => JobOf(w) \in Jobs)
  BY DEF TypeInv, Shape
<1> USE <1>0 DEF TypeOK, DeviceFence, JobFence, Goto, objects
<1>1. CASE Observe(w)
  BY <1>1 DEF Observe
<1>2. CASE BeginDeletion(w)
  BY <1>2 DEF BeginDeletion
<1>3. CASE EnsureFinalizer(w)
  BY <1>3, WriteJobFence
  DEF EnsureFinalizer, LoopSteps
<1>4. CASE ListForRefresh(w)
  BY <1>4 DEF ListForRefresh, PlanWrites
<1>5. CASE RefreshWrite(w)
  BY <1>5 DEF RefreshWrite, ApplyPlanned, WriteDevices, Outdated
<1>6. CASE ListForReclaim(w)
  BY <1>6 DEF ListForReclaim, PlanWrites
<1>7. CASE ReclaimWrite(w)
  BY <1>7 DEF ReclaimWrite, ApplyPlanned, WriteDevices, Outdated
<1>8. CASE PatchQueued(w)
  BY <1>8, WriteJobFence
  DEF PatchQueued, FinishWith, SendStatus, SkipStatus, StatusConflict,
      LoopSteps
<1>9. CASE PatchRetry(w)
  BY <1>9, WriteJobFence
  DEF PatchRetry, FinishWith, SendStatus, SkipStatus, StatusConflict,
      LoopSteps
<1>10. CASE PatchRejected(w)
  BY <1>10, WriteJobFence
  DEF PatchRejected, FinishWith, SendStatus, SkipStatus,
      StatusConflict, LoopSteps
<1>11. CASE PatchRenewed(w)
  BY <1>11, WriteJobFence
  DEF PatchRenewed, FinishWith, SendStatus, SkipStatus, StatusConflict,
      LoopSteps
<1>12. CASE ReleaseRead(w)
  BY <1>12 DEF ReleaseRead, Finish, Return
<1>13. CASE ReleaseWrite(w)
  <2>1. DeviceFence(v)
    BY <1>13 DEF ReleaseWrite, WriteDevices, Outdated
  <2>2. JobFence(v)
    BY <1>13 DEF ReleaseWrite
  <2> QED BY <2>1, <2>2
<1>14. CASE PatchCancelled(w)
  BY <1>14, WriteJobFence
  DEF PatchCancelled, SendStatus, SkipStatus, StatusConflict,
      LoopSteps
<1>15. CASE RemoveFinalizer(w)
  BY <1>15, WriteJobFence
  DEF RemoveFinalizer, LoopSteps
<1>16. CASE Validate(w)
  BY <1>16 DEF Validate
<1>17. CASE RenewRead(w)
  BY <1>17 DEF RenewRead
<1>18. CASE Renew(w)
  <2>1. CASE ReserveDevice(w, "settle")
    BY <1>18, <2>1 DEF Renew, ReserveDevice, WriteDevices, Outdated
  <2>2. CASE ReserveConflict(w)
    BY <1>18, <2>2 DEF Renew, ReserveConflict, Finish, Return
  <2> QED BY <1>18, <2>1, <2>2 DEF Renew
<1>19. CASE ListInventory(w)
  BY <1>19 DEF ListInventory
<1>20. CASE Decide(w)
  BY <1>20 DEF Decide
<1>21. CASE Reserve(w)
  <2>1. CASE ReserveDevice(w, "publish")
    BY <1>21, <2>1 DEF Reserve, ReserveDevice, WriteDevices, Outdated
  <2>2. CASE ReserveConflict(w)
    BY <1>21, <2>2 DEF Reserve, ReserveConflict, Finish, Return
  <2> QED BY <1>21, <2>1, <2>2 DEF Reserve
<1>22. CASE Publish(w)
  BY <1>22, WriteJobFence
  DEF Publish, SendStatus, StatusConflict, LoopSteps
<1>23. CASE Fail(w)
  BY <1>23 DEF Fail, Return
<1>24. CASE PublishAnswerLost(w)
  BY <1>24, WriteJobFence
  DEF PublishAnswerLost, SendStatus, LoopSteps
<1>25. CASE RefreshFails(w)
  BY <1>25 DEF RefreshFails
<1> QED
  BY <1>1, <1>2, <1>3, <1>4, <1>5, <1>6, <1>7, <1>8, <1>9, <1>10,
     <1>11, <1>12, <1>13, <1>14, <1>15, <1>16, <1>17, <1>18, <1>19,
     <1>20, <1>21, <1>22, <1>23, <1>24, <1>25 DEF Acts, Step

LEMMA WorldFence ==
    ASSUME TypeOK, World, NEW v \in Workers
    PROVE  DeviceFence(v) /\ JobFence(v)
<1> USE WriteJobFence DEF TypeOK, DeviceFence, JobFence, objects
<1>1. ASSUME NEW j \in Jobs, NEW type \in Requests, Submit(j, type)
      PROVE  DeviceFence(v) /\ JobFence(v)
  BY <1>1 DEF Submit
<1>2. ASSUME NEW j \in Jobs, NEW type \in Requests, NEW quota \in BOOLEAN,
             UpdateRequest(j, type, quota)
      PROVE  DeviceFence(v) /\ JobFence(v)
  BY <1>2 DEF UpdateRequest
<1>3. ASSUME NEW j \in Jobs, CancelRequest(j)
      PROVE  DeviceFence(v) /\ JobFence(v)
  BY <1>3 DEF CancelRequest
<1>4. ASSUME NEW d \in Devices, NodeChange(d)
      PROVE  DeviceFence(v) /\ JobFence(v)
  BY <1>4 DEF NodeChange
<1>5. ASSUME NEW d \in Devices, NEW users \in AccessSets, UpdateAccess(d, users)
      PROVE  DeviceFence(v) /\ JobFence(v)
  BY <1>5 DEF UpdateAccess, WriteDevices, Outdated
<1>6. CASE Tick
  BY <1>6 DEF Tick
<1> QED BY <1>1, <1>2, <1>3, <1>4, <1>5, <1>6 DEF World

-----------------------------------------------------------------------------
(* The inductive invariant: what the versions a process holds tell it about  *)
(* the objects, and how far its clock and its leases can be off.             *)

SnapCurrent(v) == v \in current => JobOf(v) \in Jobs /\ snap[v] = job[JobOf(v)]

Planned(v) ==
    pc[v] \in {"refresh", "reclaim"} =>
       \A d \in fresh[v] :
          \/ view[v][d].res = device[d].res
          \/ view[v][d].res = NoReservation /\ ~ReservationActive(device[d], clock)

Listed(v) == pc[v] = "decide" => \A d \in fresh[v] : view[v][d] = device[d]

Chosen(v) ==
    pc[v] = "reserve" /\ target[v].dev \in fresh[v] =>
       /\ device[target[v].dev].healthy
       /\ VisibleTo(device[target[v].dev], OwnerOf[JobOf(v)].subject)
       /\ ~ReservationActive(device[target[v].dev], now[v])

Owned(v) ==
    pc[v] = "releaseWrite" /\ target[v].dev \in fresh[v] =>
       Owns(v, device[target[v].dev])

Knows(v) == SnapCurrent(v) /\ Planned(v) /\ Listed(v) /\ Chosen(v) /\ Owned(v)

LeasesHeld(v) ==
    /\ now[v] <= clock
    /\ target[v].lease <= clock + Lease
    /\ snap[v].asg.lease <= clock + Lease
    /\ \A d \in Devices : view[v][d].res.lease <= clock + Lease

IInv ==
    /\ TypeInv
    /\ LeaseBounded
    /\ \A v \in Workers : Knows(v) /\ LeasesHeld(v)

LEMMA ClockGrows ==
    ASSUME TypeInv, [Next]_vars
    PROVE  clock' \in Nat /\ clock \in Nat /\ clock' >= clock
<1>1. TypeOK /\ TypeOK'
  BY TypeStep DEF TypeInv
<1>2. CASE Tick
  BY <1>1, <1>2 DEF Tick, TypeOK
<1>3. ASSUME NEW w \in Workers, Acts(w) PROVE clock' = clock
  BY <1>3 DEF Acts, Step, Observe, Fail, RefreshFails, PublishAnswerLost, BeginDeletion, EnsureFinalizer,
     ListForRefresh, RefreshWrite, ListForReclaim, ReclaimWrite, PatchQueued, PatchRetry,
     PatchRejected, PatchRenewed, FinishWith, ReleaseRead, ReleaseWrite, PatchCancelled,
     RemoveFinalizer, Validate, RenewRead, Renew, ListInventory, Decide, Reserve, Publish
<1>4. CASE World /\ ~Tick
  <2>1. clock' = clock
    BY <1>4 DEF World, Submit, UpdateRequest, CancelRequest, NodeChange, UpdateAccess
  <2> QED BY <2>1, <1>1 DEF TypeOK
<1>5. CASE UNCHANGED vars
  BY <1>5, <1>1 DEF vars, TypeOK
<1> QED BY <1>1, <1>2, <1>3, <1>4, <1>5, NextCases DEF TypeOK

(* The knowledge of a process that does not act survives any step. *)
LEMMA KnowsFrame ==
    ASSUME TypeInv, clock' >= clock, clock \in Nat, clock' \in Nat, NEW v \in Workers,
           Knows(v), Undisturbed(v), DeviceFence(v), JobFence(v)
    PROVE  Knows(v)'
<1>0. TypeOK
  BY DEF TypeInv
<1>1. SnapCurrent(v)'
  BY DEF Knows, SnapCurrent, Undisturbed, JobFence
<1>2. Planned(v)'
  <2> SUFFICES ASSUME pc'[v] \in {"refresh", "reclaim"}, NEW d \in fresh'[v]
               PROVE  \/ view'[v][d].res = device'[d].res
                      \/ view'[v][d].res = NoReservation
                         /\ ~ReservationActive(device'[d], clock')
    BY DEF Planned, ReservationActive
  <2>1. d \in fresh[v] /\ d \in Devices /\ device'[d] = device[d] /\ view'[v] = view[v]
        /\ pc[v] = pc'[v]
    BY <1>0 DEF Undisturbed, DeviceFence, TypeOK
  <2>2. device[d].res \in Reservations
    BY <1>0, <2>1 DEF TypeOK, DeviceRecords
  <2>3. ~ReservationActive(device[d], clock) => ~ReservationActive(device[d], clock')
    BY <2>2, ReservationTypes DEF ReservationActive
  <2> QED BY <2>1, <2>3 DEF Knows, Planned
<1>3. Listed(v)'
  BY <1>0 DEF Knows, Listed, Undisturbed, DeviceFence, TypeOK
<1>4. Chosen(v)'
  BY <1>0 DEF Knows, Chosen, Undisturbed, DeviceFence, TypeOK, ReservationActive, VisibleTo
<1>5. Owned(v)'
  BY <1>0 DEF Knows, Owned, Undisturbed, DeviceFence, TypeOK, Owns
<1> QED BY <1>1, <1>2, <1>3, <1>4, <1>5 DEF Knows

(* And a process that acts knows what it has just read. *)
LEMMA ActsKnows ==
    ASSUME IInv, NEW w \in Workers, Acts(w)
    PROVE  Knows(w)'
<1>0. /\ TypeOK /\ Shape(w) /\ Knows(w) /\ now[w] <= clock /\ clock \in Nat
      /\ (pc[w] \notin LoopSteps => JobOf(w) \in Jobs)
  BY DEF IInv, TypeInv, Shape, LeasesHeld, TypeOK
<1>f. DeviceFence(w) /\ JobFence(w)
  BY ActsFence DEF IInv
<1>s. ASSUME w \in current' => w \in current /\ snap'[w] = snap[w]
      PROVE  SnapCurrent(w)'
  BY <1>s, <1>0, <1>f DEF Knows, SnapCurrent, JobFence
<1>p. ASSUME pc'[w] \notin {"refresh", "reclaim", "decide", "reserve", "releaseWrite"}
      PROVE  Planned(w)' /\ Listed(w)' /\ Chosen(w)' /\ Owned(w)'
  BY <1>p DEF Planned, Listed, Chosen, Owned
<1>q. ASSUME w \in current' => w \in current /\ snap'[w] = snap[w],
             pc'[w] \notin {"refresh", "reclaim", "decide", "reserve", "releaseWrite"}
      PROVE  Knows(w)'
  BY <1>q, <1>s, <1>p DEF Knows
<1>r. ASSUME Return(w), w \notin current' PROVE Knows(w)'
  BY <1>r, <1>q, <1>0 DEF Return, Goto, TypeOK
<1>w. ASSUME NEW phase, NEW asg, SendStatus(w, phase, asg)
      PROVE  w \notin current'
  BY <1>w DEF SendStatus, WriteJob
<1>x. ASSUME NEW phase, NEW asg, FinishWith(w, phase, asg)
      PROVE  Knows(w)'
  BY <1>x, <1>r, <1>w DEF FinishWith, SkipStatus, StatusConflict
<1>y. ASSUME NEW step \in {"idle", "cancel", "reject", "retry"}, Finish(w, step)
      PROVE  Knows(w)'
  <2>1. CASE step = "idle"
    BY <1>y, <2>1, <1>r DEF Finish
  <2>2. CASE step # "idle"
    BY <1>y, <2>2, <1>q, <1>0 DEF Finish, Goto, TypeOK
  <2> QED BY <2>1, <2>2
<1>z. AfterRelease(w) \in {"idle", "cancel", "reject", "retry"}
  BY DEF AfterRelease
<1>1. CASE Observe(w)
  <2>1. SnapCurrent(w)'
    BY <1>1, <1>0 DEF Observe, SnapCurrent, TypeOK, objects
  <2>2. pc'[w] = "begin"
    BY <1>1, <1>0 DEF Observe, Goto, TypeOK
  <2> QED BY <2>1, <2>2, <1>p DEF Knows
<1>2. CASE BeginDeletion(w)
  BY <1>2, <1>q, <1>0 DEF BeginDeletion, Goto, TypeOK
<1>3. CASE EnsureFinalizer(w)
  BY <1>3, <1>r DEF EnsureFinalizer, WriteJob
<1>4. CASE ListForRefresh(w)
  <2>1. SnapCurrent(w)'
    BY <1>4, <1>s DEF ListForRefresh
  <2>2. ASSUME pc'[w] = "refresh", NEW d \in fresh'[w]
        PROVE  view'[w][d].res = device'[d].res
    <3>1. view'[w] = RefreshHealth /\ d \in Devices /\ device' = device
      BY <1>4, <2>2, <1>0 DEF ListForRefresh, PlanWrites, Goto, TypeOK, objects
    <3>2. device[d] \in DeviceRecords
      BY <3>1, <1>0 DEF TypeOK
    <3> QED BY <3>1, <3>2 DEF RefreshHealth, DeviceRecords
  <2>3. pc'[w] \in {"refresh", "relist"}
    BY <1>4, <1>0 DEF ListForRefresh, PlanWrites, Goto, TypeOK
  <2> QED BY <2>1, <2>2, <2>3 DEF Knows, Planned, Listed, Chosen, Owned
<1>n. ASSUME NEW next \in {"relist", "idle", "release", "validate", "inventory"},
             ApplyPlanned(w, next), pc[w] \in {"refresh", "reclaim"},
             UNCHANGED <<clock, snap, current>>
      PROVE  Knows(w)'
  <2>1. CASE fresh[w] = {}
    BY <1>n, <2>1, <1>q, <1>0 DEF ApplyPlanned, Goto, TypeOK
  <2>2. CASE fresh[w] # {}
    <3>1. pc' = pc /\ view' = view /\ fresh'[w] \subseteq fresh[w]
      BY <1>n, <2>2, <1>0 DEF ApplyPlanned, Outdated, TypeOK
    <3>2. \A d \in fresh'[w] : d \in fresh[w] /\ d \in Devices /\ device'[d] = device[d]
      BY <3>1, <1>f, <1>0 DEF DeviceFence, TypeOK
    <3>3. SnapCurrent(w)'
      BY <1>n, <1>s
    <3>4. Planned(w)'
      BY <1>n, <3>1, <3>2, <1>0 DEF Knows, Planned, ReservationActive
    <3> QED BY <1>n, <3>1, <3>3, <3>4 DEF Knows, Listed, Chosen, Owned
  <2> QED BY <2>1, <2>2
<1>5. CASE RefreshWrite(w)
  BY <1>5, <1>n DEF RefreshWrite
<1>a. AfterReclaim(w) \in {"idle", "release", "validate", "inventory"}
  BY DEF AfterReclaim
<1>6. CASE ListForReclaim(w)
  <2> DEFINE t == IF JobOf(w) = Loop THEN clock ELSE now[w]
  <2>1. SnapCurrent(w)'
    BY <1>6, <1>s DEF ListForReclaim
  <2>2. t <= clock /\ t \in Nat
    BY <1>0 DEF TypeOK
  <2>3. ASSUME pc'[w] = "reclaim", NEW d \in fresh'[w]
        PROVE  \/ view'[w][d].res = device'[d].res
               \/ view'[w][d].res = NoReservation /\ ~ReservationActive(device'[d], clock')
    <3>1. /\ view'[w] = Reclaimed(t) /\ d \in Devices /\ device' = device /\ clock' = clock
      BY <1>6, <2>3, <1>0, <1>a DEF ListForReclaim, PlanWrites, Goto, TypeOK, objects
    <3>2. device[d] \in DeviceRecords /\ device[d].res \in Reservations
      BY <3>1, <1>0 DEF TypeOK, DeviceRecords
    <3>3. CASE ReservationActive(device[d], t)
      BY <3>1, <3>3 DEF Reclaimed
    <3>4. CASE ~ReservationActive(device[d], t)
      <4>1. view'[w][d].res = NoReservation
        BY <3>1, <3>2, <3>4 DEF Reclaimed, DeviceRecords
      <4>2. ~ReservationActive(device[d], clock)
        BY <3>2, <3>4, <2>2, <1>0, ReservationTypes DEF ReservationActive
      <4> QED BY <4>1, <4>2, <3>1
    <3> QED BY <3>3, <3>4
  <2>4. pc'[w] \in {"reclaim", AfterReclaim(w)}
    BY <1>6, <1>0 DEF ListForReclaim, PlanWrites, Goto, TypeOK
  <2>5. Planned(w)'
    BY <2>3, <2>4, <1>a DEF Planned, ReservationActive
  <2> QED BY <2>1, <2>4, <2>5, <1>a DEF Knows, Listed, Chosen, Owned
<1>7. CASE ReclaimWrite(w)
  BY <1>7, <1>n, <1>a DEF ReclaimWrite
<1>8. CASE PatchQueued(w)
  BY <1>8, <1>x DEF PatchQueued
<1>9. CASE PatchRetry(w)
  BY <1>9, <1>x DEF PatchRetry
<1>10. CASE PatchRejected(w)
  BY <1>10, <1>x DEF PatchRejected
<1>11. CASE PatchRenewed(w)
  BY <1>11, <1>x DEF PatchRenewed
<1>12. CASE ReleaseRead(w)
  <2>1. CASE MustRelease(w) /\ fresh' = [fresh EXCEPT ![w] = {target[w].dev}]
             /\ Goto(w, "releaseWrite") /\ UNCHANGED <<now, snap, current, view, target>>
    <3>1. SnapCurrent(w)'
      BY <2>1, <1>s
    <3>2. pc'[w] = "releaseWrite" /\ target' = target /\ device' = device
      BY <1>12, <2>1, <1>0 DEF Goto, TypeOK, ReleaseRead, objects
    <3>3. Owns(w, device[target[w].dev])
      BY <2>1 DEF MustRelease
    <3>4. Owned(w)'
      BY <3>2, <3>3 DEF Owned, Owns
    <3> QED BY <3>1, <3>2, <3>4 DEF Knows, Planned, Listed, Chosen
  <2>2. CASE Finish(w, AfterRelease(w))
    BY <2>2, <1>y, <1>z
  <2> QED BY <1>12, <2>1, <2>2 DEF ReleaseRead
<1>13. CASE ReleaseWrite(w)
  BY <1>13, <1>y, <1>z DEF ReleaseWrite
<1>14. CASE PatchCancelled(w)
  <2>1. CASE Return(w) /\ StatusConflict(w)
    BY <2>1, <1>r DEF StatusConflict
  <2>2. CASE Goto(w, "unfinalize") /\ UNCHANGED <<now, snap, view, target>>
             /\ w \notin current'
    BY <2>2, <1>q, <1>0 DEF Goto, TypeOK
  <2> QED BY <1>14, <2>1, <2>2, <1>w DEF PatchCancelled, SkipStatus
<1>15. CASE RemoveFinalizer(w)
  BY <1>15, <1>r DEF RemoveFinalizer, WriteJob
<1>16. CASE Validate(w)
  BY <1>16, <1>q, <1>0 DEF Validate, Goto, TypeOK
<1>17. CASE RenewRead(w)
  BY <1>17, <1>q, <1>0 DEF RenewRead, Goto, TypeOK
<1>18. CASE Renew(w)
  <2>1. CASE ReserveDevice(w, "settle")
    BY <2>1, <1>q, <1>0 DEF ReserveDevice, Goto, TypeOK
  <2>2. CASE ReserveConflict(w)
    BY <2>2, <1>y DEF ReserveConflict
  <2> QED BY <1>18, <2>1, <2>2 DEF Renew
<1>19. CASE ListInventory(w)
  <2>1. SnapCurrent(w)'
    BY <1>19, <1>s DEF ListInventory
  <2>2. pc'[w] = "decide" /\ view'[w] = device /\ device' = device
    BY <1>19, <1>0 DEF ListInventory, Goto, TypeOK, objects
  <2>3. Listed(w)'
    BY <2>2 DEF Listed
  <2> QED BY <2>1, <2>2, <2>3 DEF Knows, Planned, Chosen, Owned
<1>20. CASE Decide(w)
  <2>1. ASSUME NEW d \in Devices, Takes(w, d),
               target' = [target EXCEPT ![w] = [dev |-> d, lease |-> 0]],
               fresh' = [fresh EXCEPT ![w] = @ \cap {d}], Goto(w, "reserve")
        PROVE  Knows(w)'
    <3>1. SnapCurrent(w)'
      BY <1>20, <1>s DEF Decide
    <3>2. /\ pc'[w] = "reserve" /\ target'[w] = [dev |-> d, lease |-> 0]
          /\ fresh'[w] = fresh[w] \cap {d} /\ now' = now /\ device' = device
          /\ pc[w] = "decide"
      BY <1>20, <2>1, <1>0 DEF Decide, Goto, TypeOK, objects
    <3>3. /\ view[w][d].healthy /\ VisibleTo(view[w][d], OwnerOf[JobOf(w)].subject)
          /\ ~ReservationActive(view[w][d], now[w])
      BY <2>1 DEF Takes, FirstCandidate, Candidates, Available
    <3>4. d \in fresh[w] => view[w][d] = device[d]
      BY <3>2, <1>0 DEF Knows, Listed
    <3>5. Chosen(w)'
      BY <3>2, <3>3, <3>4 DEF Chosen, VisibleTo, ReservationActive
    <3> QED BY <3>1, <3>2, <3>5 DEF Knows, Planned, Listed, Owned
  <2>2. CASE Goto(w, "queue")
    BY <1>20, <2>2, <1>q, <1>0 DEF Decide, Goto, TypeOK
  <2> QED BY <1>20, <2>1, <2>2 DEF Decide
<1>21. CASE Reserve(w)
  <2>1. CASE ReserveDevice(w, "publish")
    BY <2>1, <1>q, <1>0 DEF ReserveDevice, Goto, TypeOK
  <2>2. CASE ReserveConflict(w)
    BY <2>2, <1>y DEF ReserveConflict
  <2> QED BY <1>21, <2>1, <2>2 DEF Reserve
<1>22. CASE Publish(w)
  <2>1. CASE SendStatus(w, "Held", target[w]) /\ Return(w)
    BY <2>1, <1>r, <1>w
  <2>2. CASE StatusConflict(w) /\ Goto(w, "release") /\ UNCHANGED <<now, snap, view, target>>
    BY <2>2, <1>q, <1>0 DEF StatusConflict, Goto, TypeOK
  <2> QED BY <1>22, <2>1, <2>2 DEF Publish
<1>23. CASE Fail(w)
  BY <1>23, <1>r DEF Fail
<1>24. CASE PublishAnswerLost(w)
  BY <1>24, <1>q, <1>w, <1>0 DEF PublishAnswerLost, Goto, TypeOK
<1>25. CASE RefreshFails(w)
  BY <1>25, <1>q, <1>0 DEF RefreshFails, Goto, TypeOK
<1> QED
  BY <1>1, <1>2, <1>3, <1>4, <1>5, <1>6, <1>7, <1>8, <1>9, <1>10,
     <1>11, <1>12, <1>13, <1>14, <1>15, <1>16, <1>17, <1>18, <1>19,
     <1>20, <1>21, <1>22, <1>23, <1>24, <1>25 DEF Acts, Step

-----------------------------------------------------------------------------
(* Leases are counted from a clock already read, so none exceeds one lease.  *)

LEMMA LeasesFrame ==
    ASSUME TypeInv, clock' >= clock, clock \in Nat, clock' \in Nat, NEW v \in Workers,
           LeasesHeld(v), Undisturbed(v)
    PROVE  LeasesHeld(v)'
<1>1. /\ now[v] \in Nat /\ target[v].lease \in Int /\ snap[v].asg.lease \in Int
      /\ \A d \in Devices : view[v][d].res.lease \in Int
  BY AssignmentTypes, ReservationTypes
  DEF TypeInv, TypeOK, JobRecords, DeviceRecords
<1> QED BY <1>1 DEF LeasesHeld, Undisturbed

Bounded(t) == t \in Int /\ t <= clock + Lease

(* Every reservation a process writes was bounded when it was read or made. *)
LEMMA ActsDeviceLeases ==
    ASSUME IInv, NEW w \in Workers, Acts(w), NEW d \in Devices
    PROVE  Bounded(device'[d].res.lease)
<1>0. /\ TypeOK /\ device[d] \in DeviceRecords /\ view[w][d] \in DeviceRecords
      /\ now[w] \in Nat /\ now[w] <= clock /\ clock \in Nat
  BY DEF IInv, TypeInv, TypeOK, LeasesHeld
<1>1. Bounded(device[d].res.lease) /\ Bounded(view[w][d].res.lease)
  BY <1>0, ReservationTypes DEF IInv, LeaseBounded, LeasesHeld, Bounded, DeviceRecords
<1>2. Bounded(NoReservation.lease) /\ Bounded(now[w] + Lease)
  BY <1>0 DEF Bounded, NoReservation, NoTime
<1>3. CASE device' = device
  BY <1>3, <1>1
<1>4. CASE RefreshWrite(w) \/ ReclaimWrite(w)
  BY <1>4, <1>1, <1>0 DEF RefreshWrite, ReclaimWrite, ApplyPlanned, WriteDevices
<1>5. CASE ReleaseWrite(w)
  <2>1. device'[d] \in {device[d], ReleasedRecord(w, device[d])}
    BY <1>5, <1>0 DEF ReleaseWrite, WriteDevices
  <2>2. ReleasedRecord(w, device[d]).res = NoReservation
    BY <1>0 DEF ReleasedRecord, DeviceRecords
  <2> QED BY <2>1, <2>2, <1>1, <1>2
<1>6. ASSUME NEW next, ReserveDevice(w, next)
      PROVE  Bounded(device'[d].res.lease)
  <2>1. device'[d] \in {device[d], ReservedRecord(w, device[d])}
    BY <1>6, <1>0 DEF ReserveDevice, WriteDevices
  <2>2. ReservedRecord(w, device[d]).res.lease = now[w] + Lease
    BY <1>0 DEF ReservedRecord, DeviceRecords
  <2> QED BY <2>1, <2>2, <1>1, <1>2
<1>7. CASE Renew(w) \/ Reserve(w)
  BY <1>7, <1>6, <1>3 DEF Renew, Reserve, ReserveConflict
<1> QED BY <1>3, <1>4, <1>5, <1>7
    DEF Acts, Step, Observe, Fail, RefreshFails, PublishAnswerLost, BeginDeletion, EnsureFinalizer,
     ListForRefresh, ListForReclaim, PatchQueued, PatchRetry, PatchRejected, PatchRenewed,
     FinishWith, ReleaseRead, PatchCancelled, RemoveFinalizer, Validate, RenewRead,
     ListInventory, Decide, Publish, objects

LEMMA ActsJobLeases ==
    ASSUME IInv, NEW w \in Workers, Acts(w), NEW j \in Jobs
    PROVE  Bounded(job'[j].asg.lease)
<1>0. /\ TypeOK /\ job[j] \in JobRecords /\ target[w] \in Assignments /\ clock \in Nat
      /\ (pc[w] \notin LoopSteps => JobOf(w) \in Jobs)
  BY DEF IInv, TypeInv, TypeOK, Shape
<1>1. Bounded(job[j].asg.lease) /\ Bounded(target[w].lease) /\ Bounded(NoAssignment.lease)
  <2>1. job[j].asg \in Assignments
    BY <1>0 DEF JobRecords
  <2>2. job[j].asg.lease \in Int /\ target[w].lease \in Int
    BY <1>0, <2>1, AssignmentTypes
  <2>3. job[j].asg.lease <= clock + Lease /\ target[w].lease <= clock + Lease
    BY DEF IInv, LeaseBounded, LeasesHeld
  <2>4. NoAssignment.lease = -1
    BY DEF NoAssignment, NoTime
  <2> QED BY <1>0, <2>2, <2>3, <2>4 DEF Bounded
<1>2. ASSUME NEW phase, NEW asg, Bounded(asg.lease), SendStatus(w, phase, asg),
             JobOf(w) \in Jobs
      PROVE  Bounded(job'[j].asg.lease)
  <2>1. job[JobOf(w)] \in JobRecords
    BY <1>2, <1>0 DEF TypeOK
  <2>2. [job[JobOf(w)] EXCEPT !.phase = phase, !.asg = asg].asg = asg
    BY <2>1 DEF JobRecords
  <2>3. job'[j] \in {job[j], [job[JobOf(w)] EXCEPT !.phase = phase, !.asg = asg]}
    BY <1>2, <1>0 DEF SendStatus, WriteJob, TypeOK
  <2> QED BY <2>2, <2>3, <1>1, <1>2
<1>3. CASE job' = job
  BY <1>3, <1>1
<1>4. ASSUME NEW b \in BOOLEAN
      PROVE  Bounded(job[j].asg.lease) /\ Bounded([job[j] EXCEPT !.finalizer = b].asg.lease)
             /\ Bounded(NoJob.asg.lease)
  BY <1>0, <1>1 DEF JobRecords, NoJob
<1>5. CASE EnsureFinalizer(w) \/ RemoveFinalizer(w)
  <2>1. JobOf(w) \in Jobs
    BY <1>5, <1>0 DEF EnsureFinalizer, RemoveFinalizer, LoopSteps
  <2>2. job'[j] \in {job[j], NoJob, [job[j] EXCEPT !.finalizer = TRUE],
                     [job[j] EXCEPT !.finalizer = FALSE]}
    BY <1>5, <2>1, <1>0 DEF EnsureFinalizer, RemoveFinalizer, WriteJob, TypeOK
  <2> QED BY <2>2, <1>4
<1>6. ASSUME NEW phase, NEW asg, Bounded(asg.lease), FinishWith(w, phase, asg),
             JobOf(w) \in Jobs
      PROVE  Bounded(job'[j].asg.lease)
  BY <1>6, <1>2, <1>3 DEF FinishWith, SkipStatus, StatusConflict
<1>7. CASE PatchQueued(w) \/ PatchRetry(w) \/ PatchRejected(w) \/ PatchRenewed(w)
  BY <1>7, <1>6, <1>1, <1>0
  DEF PatchQueued, PatchRetry, PatchRejected, PatchRenewed, LoopSteps
<1>8. CASE PatchCancelled(w) \/ Publish(w) \/ PublishAnswerLost(w)
  <2>1. JobOf(w) \in Jobs
    BY <1>8, <1>0 DEF PatchCancelled, Publish, PublishAnswerLost, LoopSteps
  <2> QED BY <1>8, <2>1, <1>2, <1>3, <1>1
          DEF PatchCancelled, Publish, PublishAnswerLost, SkipStatus, StatusConflict
<1> QED BY <1>3, <1>5, <1>7, <1>8
    DEF Acts, Step, Observe, Fail, RefreshFails, BeginDeletion, ListForRefresh, RefreshWrite,
     ListForReclaim, ReclaimWrite, ReleaseRead, ReleaseWrite, Validate, RenewRead, Renew,
     ListInventory, Decide, Reserve, objects

LEMMA ActsLeasesHeld ==
    ASSUME IInv, NEW w \in Workers, Acts(w), clock' = clock
    PROVE  LeasesHeld(w)'
<1>0. /\ TypeOK /\ TypeOK' /\ Shape(w) /\ LeasesHeld(w) /\ clock \in Nat
      /\ (pc[w] \notin LoopSteps => JobOf(w) \in Jobs)
  BY ActsType DEF IInv, TypeInv, TypeOK, Shape
<1>1. now'[w] <= clock
  BY <1>0 DEF LeasesHeld, TypeOK, Acts, Step, Observe, Fail, RefreshFails, PublishAnswerLost,
     BeginDeletion, EnsureFinalizer, ListForRefresh, RefreshWrite, ListForReclaim,
     ReclaimWrite, PatchQueued, PatchRetry, PatchRejected, PatchRenewed, FinishWith,
     ReleaseRead, ReleaseWrite, PatchCancelled, RemoveFinalizer, Validate, RenewRead,
     Renew, ListInventory, Decide, Reserve, Publish, ReserveDevice, ReserveConflict,
     Finish, Return
<1>2. target'[w].lease <= clock + Lease
  <2>1. /\ target[w].lease <= clock + Lease /\ snap[w].asg.lease <= clock + Lease
        /\ NoAssignment.lease <= clock + Lease /\ 0 <= clock + Lease
        /\ now[w] + Lease <= clock + Lease
    BY <1>0 DEF LeasesHeld, NoAssignment, NoTime, TypeOK
  <2>2. \/ target'[w] \in {target[w], snap[w].asg, NoAssignment}
        \/ target'[w].lease \in {0, now[w] + Lease}
    BY <1>0 DEF TypeOK, Acts, Step, Observe, Fail, RefreshFails, PublishAnswerLost,
     BeginDeletion, EnsureFinalizer, ListForRefresh, RefreshWrite, ListForReclaim,
     ReclaimWrite, PatchQueued, PatchRetry, PatchRejected, PatchRenewed, FinishWith,
     ReleaseRead, ReleaseWrite, PatchCancelled, RemoveFinalizer, Validate, RenewRead,
     Renew, ListInventory, Decide, Reserve, Publish, ReserveDevice, ReserveConflict,
     Finish, Return
  <2> QED BY <2>1, <2>2
<1>3. snap'[w].asg.lease <= clock + Lease
  <2>1. NoJob.asg.lease <= clock + Lease /\ snap[w].asg.lease <= clock + Lease
    BY <1>0 DEF LeasesHeld, NoJob, NoAssignment, NoTime
  <2>2. CASE Observe(w)
    BY <2>2, <1>0 DEF Observe, TypeOK, IInv, LeaseBounded
  <2>3. CASE snap'[w] \in {snap[w], NoJob}
    BY <2>3, <2>1
  <2>4. snap'[w] \in {snap[w], NoJob} \/ Observe(w)
    BY <1>0 DEF TypeOK, Acts, Step, Fail, RefreshFails, PublishAnswerLost,
     BeginDeletion, EnsureFinalizer, ListForRefresh, RefreshWrite, ListForReclaim,
     ReclaimWrite, PatchQueued, PatchRetry, PatchRejected, PatchRenewed, FinishWith,
     ReleaseRead, ReleaseWrite, PatchCancelled, RemoveFinalizer, Validate, RenewRead,
     Renew, ListInventory, Decide, Reserve, Publish, ReserveDevice, ReserveConflict,
     Finish, Return
  <2> QED BY <2>2, <2>3, <2>4
<1>4. ASSUME NEW d \in Devices PROVE view'[w][d].res.lease <= clock + Lease
  <2>1. /\ device[d].res.lease <= clock + Lease /\ view[w][d].res.lease <= clock + Lease
        /\ NoReservation.lease <= clock + Lease /\ device[d] \in DeviceRecords
    BY <1>0 DEF IInv, LeaseBounded, LeasesHeld, NoReservation, NoTime, TypeOK
  <2>2. ASSUME NEW t PROVE Reclaimed(t)[d].res.lease <= clock + Lease
    BY <2>1 DEF Reclaimed, DeviceRecords
  <2>3. RefreshHealth[d].res.lease <= clock + Lease /\ NoView[d].res.lease <= clock + Lease
    BY <2>1 DEF RefreshHealth, DeviceRecords, NoView, NewDevice
  <2>4. CASE ListForRefresh(w)
    BY <2>4, <2>3, <1>0 DEF ListForRefresh, PlanWrites, TypeOK
  <2>5. CASE ListForReclaim(w)
    BY <2>5, <2>2, <2>3, <1>0 DEF ListForReclaim, PlanWrites, TypeOK
  <2>6. CASE ListInventory(w)
    BY <2>6, <2>1, <1>0 DEF ListInventory, TypeOK
  <2>7. CASE view'[w] \in {view[w], NoView}
    BY <2>7, <2>1, <2>3
  <2>8. \/ view'[w] \in {view[w], NoView}
        \/ ListForRefresh(w) \/ ListForReclaim(w) \/ ListInventory(w)
    BY <1>0 DEF TypeOK, Acts, Step, Observe, Fail, RefreshFails, PublishAnswerLost,
     BeginDeletion, EnsureFinalizer, RefreshWrite, ApplyPlanned,
     ReclaimWrite, PatchQueued, PatchRetry, PatchRejected, PatchRenewed, FinishWith,
     ReleaseRead, ReleaseWrite, PatchCancelled, RemoveFinalizer, Validate, RenewRead,
     Renew, Decide, Reserve, Publish, ReserveDevice, ReserveConflict, Finish, Return
  <2> QED BY <2>4, <2>5, <2>6, <2>7, <2>8
<1> QED BY <1>1, <1>2, <1>3, <1>4 DEF LeasesHeld

LEMMA WorldLeases ==
    ASSUME IInv, World, clock' >= clock, clock \in Nat, clock' \in Nat
    PROVE  LeaseBounded'
<1>0. /\ TypeOK
      /\ \A d \in Devices : device[d] \in DeviceRecords /\ device[d].res.lease \in Int
      /\ \A j \in Jobs : job[j] \in JobRecords /\ job[j].asg.lease \in Int
  BY ReservationTypes, AssignmentTypes DEF IInv, TypeInv, TypeOK, DeviceRecords, JobRecords
<1>1. /\ \A d \in Devices : device[d].res.lease <= clock + Lease
      /\ \A j \in Jobs : job[j].asg.lease <= clock + Lease
  BY DEF IInv, LeaseBounded
<1>2. ASSUME NEW d \in Devices PROVE device'[d].res = device[d].res
  <2>1. CASE device' = device
    BY <2>1
  <2>2. ASSUME NEW e \in Devices, NEW users \in AccessSets, UpdateAccess(e, users)
        PROVE  device'[d].res = device[d].res
    BY <2>2, <1>0 DEF UpdateAccess, WriteDevices, DeviceRecords
  <2> QED BY <2>1, <2>2
          DEF World, Submit, UpdateRequest, CancelRequest, NodeChange, Tick, objects
<1>3. ASSUME NEW j \in Jobs PROVE job'[j].asg \in {job[j].asg, NoAssignment}
  <2>1. CASE job' = job
    BY <2>1
  <2>2. ASSUME NEW k \in Jobs, NEW type \in Requests, Submit(k, type)
        PROVE  job'[j].asg \in {job[j].asg, NoAssignment}
    BY <2>2, <1>0 DEF Submit, WriteJob, NoJob, TypeOK
  <2>3. ASSUME NEW k \in Jobs, NEW type \in Requests, NEW quota \in BOOLEAN,
               UpdateRequest(k, type, quota)
        PROVE  job'[j].asg \in {job[j].asg, NoAssignment}
    BY <2>3, <1>0 DEF UpdateRequest, WriteJob, JobRecords, TypeOK
  <2>4. ASSUME NEW k \in Jobs, CancelRequest(k)
        PROVE  job'[j].asg \in {job[j].asg, NoAssignment}
    BY <2>4, <1>0 DEF CancelRequest, WriteJob, NoJob, JobRecords, TypeOK
  <2> QED BY <2>1, <2>2, <2>3, <2>4 DEF World, NodeChange, UpdateAccess, Tick, objects
<1>4. NoAssignment.lease = -1
  BY DEF NoAssignment, NoTime
<1>5. ASSUME NEW d \in Devices PROVE device'[d].res.lease <= clock' + Lease
  BY <1>0, <1>1, <1>2
<1>6. ASSUME NEW j \in Jobs PROVE job'[j].asg.lease <= clock' + Lease
  BY <1>0, <1>1, <1>3, <1>4
<1> QED BY <1>5, <1>6 DEF LeaseBounded

LEMMA ClockKept ==
    ASSUME NEW w \in Workers, Acts(w)
    PROVE  clock' = clock
  BY DEF Acts, Step, Observe, Fail, RefreshFails, PublishAnswerLost, BeginDeletion, EnsureFinalizer,
     ListForRefresh, RefreshWrite, ListForReclaim, ReclaimWrite, PatchQueued, PatchRetry,
     PatchRejected, PatchRenewed, FinishWith, ReleaseRead, ReleaseWrite, PatchCancelled,
     RemoveFinalizer, Validate, RenewRead, Renew, ListInventory, Decide, Reserve, Publish

LEMMA InvInit == Init => IInv
<1> SUFFICES ASSUME Init PROVE IInv
  OBVIOUS
<1>1. TypeInv
  BY TypeInit
<1>2. LeaseBounded
  BY DEF Init, LeaseBounded, NewDevice, NoReservation, NoJob, NoAssignment, NoTime
<1>3. ASSUME NEW v \in Workers PROVE Knows(v)
  BY DEF Init, Knows, SnapCurrent, Planned, Listed, Chosen, Owned
<1>4. ASSUME NEW v \in Workers PROVE LeasesHeld(v)
  BY DEF Init, LeasesHeld, NoView, NewDevice, NoReservation, NoJob, NoAssignment, NoTime
<1> QED BY <1>1, <1>2, <1>3, <1>4 DEF IInv

LEMMA InvStep == IInv /\ [Next]_vars => IInv'
<1> SUFFICES ASSUME IInv, [Next]_vars PROVE IInv'
  OBVIOUS
<1>1. TypeInv /\ TypeInv' /\ clock \in Nat /\ clock' \in Nat /\ clock' >= clock
  BY TypeStep, ClockGrows DEF IInv
<1>2. CASE World
  <2>1. ASSUME NEW v \in Workers PROVE Knows(v)' /\ LeasesHeld(v)'
    BY <1>1, <1>2, WorldUndisturbed, WorldFence, KnowsFrame, LeasesFrame DEF IInv, TypeInv
  <2> QED BY <1>1, <1>2, <2>1, WorldLeases DEF IInv
<1>3. ASSUME NEW w \in Workers, Acts(w) PROVE IInv'
  <2>1. Knows(w)' /\ LeasesHeld(w)'
    BY <1>3, ActsKnows, ActsLeasesHeld, ClockKept
  <2>2. ASSUME NEW v \in Workers, v # w PROVE Knows(v)' /\ LeasesHeld(v)'
    BY <1>1, <1>3, <2>2, OthersUndisturbed, ActsFence, KnowsFrame, LeasesFrame
    DEF IInv, TypeInv
  <2>3. LeaseBounded'
    BY <1>3, ActsDeviceLeases, ActsJobLeases, ClockKept DEF LeaseBounded, Bounded
  <2> QED BY <1>1, <2>1, <2>2, <2>3 DEF IInv
<1>4. CASE UNCHANGED vars
  BY <1>1, <1>4 DEF vars, IInv, LeaseBounded, Knows, LeasesHeld, SnapCurrent, Planned,
     Listed, Chosen, Owned, Owns, ReservationActive, VisibleTo
<1> QED BY <1>2, <1>3, <1>4, NextCases

THEOREM Invariance == Spec => []IInv
  BY InvInit, InvStep, PTL DEF Spec

-----------------------------------------------------------------------------
(* A crash, a lost answer or a lost race leaves at most one lease behind:    *)
(* no reservation or published assignment runs past clock + Lease.           *)
THEOREM LeasesAreBounded == Spec => []LeaseBounded
<1>1. IInv => LeaseBounded
  BY DEF IInv
<1> QED BY <1>1, Invariance, PTL

(* Every reservation of the allocation path takes a device that, when the    *)
(* write commits, is healthy, visible to the subject, of the requested type  *)
(* and under no active lease, however stale the lists it was chosen from.    *)
THEOREM AllocationIsSound == Spec => AllocationSound
<1>1. ASSUME IInv, [Next]_vars, NEW w \in Workers, pc[w] = "reserve", pc'[w] = "publish"
      PROVE  SoundAllocation(w, target[w].dev)
  <2>0. TypeInv /\ TypeOK /\ Shape(w) /\ Knows(w) /\ now[w] <= clock /\ now[w] \in Nat
        /\ clock \in Nat
    BY <1>1 DEF IInv, TypeInv, LeasesHeld, TypeOK
  <2>1. Acts(w)
    BY <1>1, <2>0, NextCases, WorldUndisturbed, OthersUndisturbed DEF Undisturbed, vars
  <2>2. Reserve(w)
    BY <1>1, <2>0, <2>1 DEF TypeOK, Goto, Return, Acts, Step, Observe, Fail, RefreshFails,
       PublishAnswerLost, BeginDeletion, EnsureFinalizer, ListForRefresh, RefreshWrite,
       ListForReclaim, ReclaimWrite, PatchQueued, PatchRetry, PatchRejected, PatchRenewed,
       ReleaseRead, ReleaseWrite, PatchCancelled, RemoveFinalizer, Validate, RenewRead,
       Renew, ListInventory, Decide, Publish
  <2>3. target[w].dev \in fresh[w]
    BY <1>1, <2>0, <2>2 DEF Reserve, ReserveDevice, ReserveConflict, Finish, Return, Goto,
       TypeOK
  <2>4. /\ device[target[w].dev].healthy
        /\ VisibleTo(device[target[w].dev], OwnerOf[JobOf(w)].subject)
        /\ ~ReservationActive(device[target[w].dev], now[w])
        /\ TypeMatches(snap[w].type, target[w].dev)
    BY <1>1, <2>0, <2>3 DEF Knows, Chosen, Shape
  <2>5. device[target[w].dev].res \in Reservations
    BY <2>0, <2>3 DEF TypeOK, DeviceRecords
  <2>6. ~ReservationActive(device[target[w].dev], clock)
    BY <2>0, <2>4, <2>5, ReservationTypes DEF ReservationActive
  <2> QED BY <2>4, <2>6 DEF SoundAllocation
<1>2. IInv /\ [Next]_vars
        => [\A w \in Workers : pc[w] = "reserve" /\ pc'[w] = "publish"
               => SoundAllocation(w, target[w].dev)]_vars
  BY <1>1
<1> QED BY <1>2, Invariance, PTL DEF Spec, AllocationSound

(* An active reservation ends only by a release of its own job. *)
THEOREM ActiveReservationIsKept == Spec => ActiveReservationKept
<1>1. ASSUME IInv, [Next]_vars, NEW d \in Devices, ReservationActive(device[d], clock),
             device'[d].res = NoReservation
      PROVE  \E w \in Workers : pc[w] = "releaseWrite" /\ JobOf(w) = device[d].res.job
  <2>0. TypeInv /\ TypeOK /\ device[d] \in DeviceRecords /\ device[d].res # NoReservation
    BY <1>1 DEF IInv, TypeInv, TypeOK, ReservationActive
  <2>1. device' # device
    BY <1>1, <2>0
  <2>2. ASSUME NEW e \in Devices, NEW users \in AccessSets, UpdateAccess(e, users)
        PROVE  FALSE
    BY <1>1, <2>0, <2>2 DEF UpdateAccess, WriteDevices, DeviceRecords
  <2>3. PICK w \in Workers : Acts(w)
    BY <1>1, <2>1, <2>2, NextCases
    DEF vars, World, Submit, UpdateRequest, CancelRequest, NodeChange, Tick, objects
  <2>4. Knows(w) /\ (pc[w] \notin LoopSteps => JobOf(w) \in Jobs)
    BY <1>1 DEF IInv, TypeInv, Shape
  <2>5. CASE RefreshWrite(w) \/ ReclaimWrite(w)
    <3>1. d \in fresh[w] /\ device'[d] = view[w][d] /\ pc[w] \in {"refresh", "reclaim"}
      BY <1>1, <2>0, <2>5 DEF RefreshWrite, ReclaimWrite, ApplyPlanned, WriteDevices
    <3> QED BY <3>1, <2>4, <1>1, <2>0 DEF Knows, Planned
  <2>6. ASSUME NEW next, ReserveDevice(w, next) PROVE FALSE
    <3>1. device'[d] \in {device[d], ReservedRecord(w, device[d])}
      BY <2>6 DEF ReserveDevice, WriteDevices
    <3>2. ReservedRecord(w, device[d]).res.lease = now[w] + Lease /\ now[w] \in Nat
      BY <2>0 DEF ReservedRecord, DeviceRecords, TypeOK
    <3> QED BY <3>1, <3>2, <1>1, <2>0 DEF NoReservation, NoTime
  <2>7. CASE ReleaseWrite(w)
    <3>1. target[w].dev \in fresh[w] /\ d = target[w].dev /\ pc[w] = "releaseWrite"
      BY <1>1, <2>0, <2>1, <2>7 DEF ReleaseWrite, WriteDevices
    <3> QED BY <3>1, <2>4 DEF Knows, Owned, Owns
  <2>8. ~(Renew(w) \/ Reserve(w))
    BY <2>1, <2>6 DEF Renew, Reserve, ReserveConflict
  <2> QED BY <2>1, <2>3, <2>5, <2>7, <2>8
      DEF Acts, Step, Observe, Fail, RefreshFails, PublishAnswerLost, BeginDeletion, EnsureFinalizer,
       ListForRefresh, ListForReclaim, PatchQueued, PatchRetry, PatchRejected, PatchRenewed,
       FinishWith, ReleaseRead, PatchCancelled, RemoveFinalizer, Validate, RenewRead,
       ListInventory, Decide, Publish, objects
<1>2. IInv /\ [Next]_vars
        => [\A d \in Devices :
              /\ ReservationActive(device[d], clock)
              /\ device'[d].res = NoReservation
              => \E w \in Workers : /\ pc[w] = "releaseWrite"
                                    /\ JobOf(w) = device[d].res.job]_vars
  BY <1>1
<1> QED BY <1>2, Invariance, PTL DEF Spec, ActiveReservationKept

(* A job gains an assignment only while its current spec stands: spec edits  *)
(* and deletions that race the reconcile make the publication fail.          *)
THEOREM PublicationIsFenced == Spec => PublishedRequestStands
<1>1. ASSUME IInv, [Next]_vars, NEW j \in Jobs, job[j].asg = NoAssignment,
             job'[j].asg # NoAssignment
      PROVE  ~job'[j].deleting /\ job'[j].quota /\ TypeMatches(job'[j].type, job'[j].asg.dev)
  <2>0. TypeInv /\ TypeOK /\ job[j] \in JobRecords
    BY <1>1 DEF IInv, TypeInv, TypeOK
  <2>1. job' # job
    BY <1>1
  <2>2. ~World
    <3>1. ASSUME NEW k \in Jobs, NEW type \in Requests, Submit(k, type) PROVE FALSE
      BY <1>1, <2>0, <3>1 DEF Submit, WriteJob, NoJob, TypeOK
    <3>2. ASSUME NEW k \in Jobs, NEW type \in Requests, NEW quota \in BOOLEAN,
                 UpdateRequest(k, type, quota)
          PROVE FALSE
      BY <1>1, <2>0, <3>2 DEF UpdateRequest, WriteJob, JobRecords, TypeOK
    <3>3. ASSUME NEW k \in Jobs, CancelRequest(k) PROVE FALSE
      BY <1>1, <2>0, <3>3 DEF CancelRequest, WriteJob, NoJob, JobRecords, TypeOK
    <3> QED BY <2>1, <3>1, <3>2, <3>3 DEF World, NodeChange, UpdateAccess, Tick, objects
  <2>3. PICK w \in Workers : Acts(w)
    BY <1>1, <2>1, <2>2, NextCases DEF vars
  <2>4. /\ Knows(w) /\ Shape(w) /\ target[w] \in Assignments
        /\ (pc[w] \notin LoopSteps => JobOf(w) \in Jobs)
    BY <1>1 DEF IInv, TypeInv, Shape, TypeOK
  <2>5. ASSUME NEW phase, NEW asg, SendStatus(w, phase, asg), JobOf(w) \in Jobs
        PROVE  /\ asg # NoAssignment /\ w \in current /\ JobOf(w) = j
               /\ job'[j] = [job[j] EXCEPT !.phase = phase, !.asg = asg]
    <3>1. JobOf(w) = j /\ w \in current
      BY <1>1, <2>0, <2>5 DEF SendStatus, WriteJob, TypeOK, Fenced
    <3>2. job'[j] = [job[j] EXCEPT !.phase = phase, !.asg = asg]
      BY <2>0, <2>5, <3>1 DEF SendStatus, WriteJob, TypeOK
    <3> QED BY <1>1, <2>0, <3>1, <3>2 DEF JobRecords
  <2>6. ASSUME NEW phase, FinishWith(w, phase, NoAssignment), JobOf(w) \in Jobs PROVE FALSE
    BY <2>1, <2>5, <2>6 DEF FinishWith, SkipStatus, StatusConflict
  <2>7. ~(PatchQueued(w) \/ PatchRetry(w) \/ PatchRejected(w))
    BY <2>4, <2>6 DEF PatchQueued, PatchRetry, PatchRejected, LoopSteps
  <2>8. ~PatchRenewed(w)
    <3> SUFFICES ASSUME PatchRenewed(w) PROVE FALSE
      OBVIOUS
    <3>1. JobOf(w) = j /\ w \in current /\ snap[w].asg # NoAssignment
      BY <2>1, <2>4, <2>5
      DEF PatchRenewed, FinishWith, SkipStatus, StatusConflict, LoopSteps, Shape
    <3> QED BY <1>1, <2>4, <3>1 DEF Knows, SnapCurrent
  <2>9. ~PatchCancelled(w)
    BY <2>1, <2>4, <2>5 DEF PatchCancelled, SkipStatus, StatusConflict, LoopSteps
  <2>10. ~(EnsureFinalizer(w) \/ RemoveFinalizer(w))
    <3> SUFFICES ASSUME EnsureFinalizer(w) \/ RemoveFinalizer(w) PROVE FALSE
      OBVIOUS
    <3>1. JobOf(w) \in Jobs
      BY <2>4 DEF EnsureFinalizer, RemoveFinalizer, LoopSteps
    <3>2. job'[j] \in {job[j], NoJob, [job[j] EXCEPT !.finalizer = TRUE],
                       [job[j] EXCEPT !.finalizer = FALSE]}
      BY <2>0, <3>1 DEF EnsureFinalizer, RemoveFinalizer, WriteJob, TypeOK
    <3> QED BY <1>1, <2>0, <3>2 DEF JobRecords, NoJob
  <2>11. CASE Publish(w) \/ PublishAnswerLost(w)
    <3>1. /\ pc[w] = "publish" /\ w \in current /\ JobOf(w) = j
          /\ job'[j] = [job[j] EXCEPT !.phase = "Held", !.asg = target[w]]
      BY <2>1, <2>4, <2>5, <2>11 DEF Publish, PublishAnswerLost, StatusConflict, LoopSteps
    <3>2. /\ ~snap[w].deleting /\ snap[w].quota /\ TypeMatches(snap[w].type, target[w].dev)
          /\ snap[w] = job[j]
      BY <3>1, <2>4 DEF Shape, Knows, SnapCurrent
    <3> QED BY <3>1, <3>2, <2>0 DEF JobRecords
  <2> QED BY <2>1, <2>3, <2>7, <2>8, <2>9, <2>10, <2>11
      DEF Acts, Step, Observe, Fail, RefreshFails, BeginDeletion, ListForRefresh, RefreshWrite,
       ListForReclaim, ReclaimWrite, ReleaseRead, ReleaseWrite, Validate, RenewRead, Renew,
       ListInventory, Decide, Reserve, objects
<1>2. IInv /\ [Next]_vars
        => [\A j \in Jobs : job[j].asg = NoAssignment /\ job'[j].asg # NoAssignment
              => /\ ~job'[j].deleting
                 /\ job'[j].quota
                 /\ TypeMatches(job'[j].type, job'[j].asg.dev)]_vars
  BY <1>1
<1> QED BY <1>2, Invariance, PTL DEF Spec, PublishedRequestStands
=============================================================================
