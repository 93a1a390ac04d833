----------------------------- MODULE HomeStorage -----------------------------
(***************************************************************************)
(* A revision's image, its disk budget and the persistent home of a        *)
(* service, from src/reconcile.rs, src/image.rs and src/capacity.rs.       *)
(*                                                                         *)
(* One reconciliation of a service: find the size of the image (from the   *)
(* status, the registry, or a peer's status), split what the image leaves  *)
(* of the disk budget between the container's file system and the home,    *)
(* ask for capacity, grow the claim, apply the Deployment and report.  The *)
(* spec, the registry and the CSI driver change between those steps.       *)
(*                                                                         *)
(* Sizes are counted in an abstract unit; 0 stands for an absent Option.   *)
(***************************************************************************)
EXTENDS Integers, FiniteSets, FiniteSetsExt

CONSTANTS
    Mib, Gib,                \* units of a MiB and of a GiB
    MinRootfs, MaxRootfs,    \* MIN_ and MAX_ROOTFS_STORAGE_BYTES
    MinPersistent,           \* MIN_PERSISTENT_STORAGE_BYTES
    Contents,                \* image contents (digests)
    SizeOf,                  \* content -> its size
    None,
    Images,                  \* image references
    Digests,                 \* the references that name a digest
    Peers,                   \* digest references some peer's status has inspected
    MaxGen,                  \* bound: generations of the spec
    Scenarios                \* what the environment may do; see Env

ASSUME StorageConstants ==
    /\ {Mib, Gib, MinRootfs, MaxRootfs, MinPersistent, MaxGen} \subseteq Nat \ {0}
    /\ Gib % Mib = 0
    /\ SizeOf \in [Contents -> Nat \ {0}]
    /\ None \notin Contents
    /\ Peers \subseteq Digests /\ Digests \subseteq Images

(* What a scenario says: the claim of before, whether a storage class is   *)
(* configured, the revisions to come, and what else may happen.            *)
Claims == [kept : BOOLEAN, requested : Nat, capacity : Nat, resizing : BOOLEAN]
Revisions == [gen : Nat, image : Images, disk : Nat, rootfs : Nat, persistent : Nat,
              stateless : BOOLEAN]
ASSUME ScenarioShape ==
    \A e \in Scenarios :
        /\ e.claim \in Claims
        /\ ~e.claim.kept => e.claim.requested = 0 /\ e.claim.capacity = 0
        /\ e.class \in BOOLEAN
        /\ e.updates \subseteq Revisions

VARIABLES
    spec,      \* generation, image, disk, rootfs, persistent and stateless
    registry,  \* image -> the content it names now
    served,    \* image -> the contents it has named
    claim,     \* the PersistentVolumeClaim: kept, requested, capacity, resizing
    deploy,    \* the Deployment: its template, and the image it is for
    status,    \* the status: generation, phase and what the cache reads
    round,     \* the reconciliation in progress
    env        \* the scenario

svars == <<spec, registry, served, claim, deploy, status, round, env>>

NoClaim == [kept |-> FALSE, requested |-> 0, capacity |-> 0, resizing |-> FALSE]
NoDeploy == [gen |-> 0, checked |-> 0, content |-> None, rootfs |-> 0,
             home |-> FALSE, ref |-> None]
NoStatus == [gen |-> 0, phase |-> "new", content |-> None, writable |-> 0,
             rootfs |-> 0, persistent |-> 0]
NoRound == [pc |-> "idle", spec |-> None, status |-> NoStatus, fresh |-> FALSE,
            content |-> None, existing |-> NoClaim, rootfs |-> 0, persistent |-> 0,
            report |-> NoStatus]
-----------------------------------------------------------------------------
(* Allocation.                                                             *)
Low(m, n) == IF m <= n THEN m ELSE n
High(m, n) == IF m >= n THEN m ELSE n
Minus(m, n) == IF m >= n THEN m - n ELSE 0
RoundDown(n) == (n \div Mib) * Mib
RoundUp(n) == ((n + Mib - 1) \div Mib) * Mib
Refused == [ok |-> FALSE, rootfs |-> 0, persistent |-> 0]
Split(rootfs, persistent) == [ok |-> TRUE, rootfs |-> rootfs, persistent |-> persistent]

(* storage_allocation: the sizes asked for (0: automatic), in units.       *)
AutoRootfs(writable, persistent) ==
    Low(High(MinRootfs, Low(MaxRootfs, writable \div 10)),
        Minus(writable, IF persistent # 0 THEN persistent ELSE MinPersistent))
StorageAllocation(writable, home, rootfs, persistent) ==
    LET r == IF rootfs # 0 THEN rootfs
             ELSE IF home THEN AutoRootfs(writable, persistent) ELSE writable
        p == IF persistent # 0 THEN persistent ELSE Minus(writable, r)
    IN  IF ~home
          THEN IF persistent = 0 /\ r <= writable THEN Split(r, 0) ELSE Refused
          ELSE IF /\ writable >= MinRootfs + MinPersistent
                  /\ r >= MinRootfs /\ p >= MinPersistent
                  /\ r + p <= writable
                 THEN Split(r, p) ELSE Refused

(* storage_allocation_retaining: the home that exists is not shrunk.       *)
RetainingUnrounded(writable, home, rootfs, persistent, existing) ==
    LET a == StorageAllocation(writable, home, rootfs, persistent) IN
    IF a.ok /\ home /\ a.persistent < existing
      THEN IF persistent # 0 \/ rootfs # 0 \/ writable < existing + MinRootfs
             THEN Refused ELSE Split(writable - existing, existing)
      ELSE a
Retaining(writable, home, rootfs, persistent, existing) ==
    LET a == StorageAllocation(writable, home, rootfs, persistent)
        p == IF home /\ persistent = 0 /\ a.persistent > existing
               THEN High(RoundDown(a.persistent), existing) ELSE a.persistent
    IN  IF ~a.ok THEN Refused
        ELSE IF home /\ p < existing
          THEN IF persistent # 0 \/ rootfs # 0 \/ writable < existing + MinRootfs
                 THEN Refused ELSE Split(writable - existing, existing)
          ELSE Split(a.rootfs, p)

(* storage_quantity_bytes of the capacities a driver reports: mantissa *   *)
(* 1024^power / 10^digits, rounded up to whole units.                      *)
Quantity(mantissa, unit, tenths) ==
    IF tenths THEN (mantissa * unit + 9) \div 10 ELSE mantissa * unit

(* claim_needs_storage_update.                                             *)
NeedsUpdate(existing, desired) ==
    ~existing.kept \/ desired > High(existing.requested, existing.capacity)

(* persistent_resize_pending.                                              *)
ResizePendingCondition(existing, desired) == ~existing.kept \/ existing.resizing
ResizePending(existing, desired) ==
    ~existing.kept \/ existing.capacity < desired \/ existing.resizing
-----------------------------------------------------------------------------
(* The image.                                                              *)
Budget(s) == s.disk * Gib

(* cached_image_inspection: the status is of this generation and has the   *)
(* whole inspection, for this budget.                                      *)
CachedAnyGeneration(s, st) ==
    /\ st.content # None
    /\ st.writable # 0
    /\ st.writable = Budget(s) - SizeOf[st.content]
Cached(s, st) ==
    /\ st.gen = s.gen
    /\ st.content # None
    /\ SizeOf[st.content] < Budget(s)
    /\ st.writable = Budget(s) - SizeOf[st.content]

(* ImageInspector::inspect when the registry answers: the largest Linux    *)
(* manifest must leave writable space.                                     *)
Inspected(s) == registry[s.image]

(* verified_image_from_peer: only for a digest, only the same one.         *)
PeerKnows(s) == s.image \in Peers /\ SizeOf[Inspected(s)] < Budget(s)

Outcome(s, phase) == [NoStatus EXCEPT !.gen = s.gen, !.phase = phase]
-----------------------------------------------------------------------------
(* reconcile, to the image inspection.                                     *)
Start ==
    /\ round.pc = "idle"
    /\ round' = [NoRound EXCEPT !.pc = "inspect", !.spec = spec, !.status = status,
                                !.fresh = TRUE]
    /\ UNCHANGED <<spec, registry, served, claim, deploy, status, env>>

Continue(content) ==
    round' = [round EXCEPT !.pc = "claim", !.content = content]
Conclude(st) ==
    round' = [NoRound EXCEPT !.pc = "report", !.report = st, !.fresh = round.fresh]

FromCache ==
    /\ round.pc = "inspect"
    /\ Cached(round.spec, round.status)
    /\ Continue(round.status.content)
    /\ UNCHANGED <<spec, registry, served, claim, deploy, status, env>>

FromRegistry ==
    /\ round.pc = "inspect"
    /\ ~Cached(round.spec, round.status)
    /\ LET content == Inspected(round.spec) IN
         IF SizeOf[content] < Budget(round.spec)
           THEN Continue(content)
           ELSE Conclude(Outcome(round.spec, "error"))
    /\ UNCHANGED <<spec, registry, served, claim, deploy, status, env>>

(* The registry is down (5xx, connection, timeout), or refuses (its answer *)
(* is no image, or not authorized).                                        *)
RegistryDown ==
    /\ round.pc = "inspect"
    /\ env.outages
    /\ ~Cached(round.spec, round.status)
    /\ IF PeerKnows(round.spec)
         THEN Continue(Inspected(round.spec))
         ELSE Conclude(Outcome(round.spec, "provisioning"))
    /\ UNCHANGED <<spec, registry, served, claim, deploy, status, env>>

RegistryRefuses ==
    /\ round.pc = "inspect"
    /\ env.outages
    /\ ~Cached(round.spec, round.status)
    /\ \E phase \in {"provisioning", "error"} : Conclude(Outcome(round.spec, phase))
    /\ UNCHANGED <<spec, registry, served, claim, deploy, status, env>>

(* claim_storage.                                                          *)
ReadClaimBlind ==
    /\ round.pc = "claim"
    /\ round' = [round EXCEPT !.pc = "allocate"]
    /\ UNCHANGED <<spec, registry, served, claim, deploy, status, env>>
ReadClaim ==
    /\ round.pc = "claim"
    /\ round' = [round EXCEPT !.pc = "allocate",
                              !.existing = IF env.class THEN claim ELSE NoClaim]
    /\ UNCHANGED <<spec, registry, served, claim, deploy, status, env>>

AllocateHome(r) == env.class /\ (~r.spec.stateless \/ r.existing.kept)
Writable(r) == Budget(r.spec) - SizeOf[r.content]
Allocation(r) ==
    Retaining(Writable(r), AllocateHome(r), r.spec.rootfs * Gib,
              r.spec.persistent * Gib, r.existing.requested)

(* The split, and the capacity service's answer to it.  A refused split    *)
(* reports the image without its writable space; a shortage reports the    *)
(* status of before under the new generation.                              *)
NewTemplate(r) == deploy.gen # r.spec.gen
GrowsClaim(r, persistent) == AllocateHome(r) /\ NeedsUpdate(r.existing, persistent)
Allocate ==
    LET a == Allocation(round) IN
    /\ round.pc = "allocate"
    /\ IF a.ok
         THEN round' = [round EXCEPT !.pc = "capacity", !.rootfs = a.rootfs,
                                     !.persistent = a.persistent]
         ELSE Conclude([Outcome(round.spec, "error") EXCEPT !.content = round.content])
    /\ UNCHANGED <<spec, registry, served, claim, deploy, status, env>>

Granted ==
    /\ round.pc = "capacity"
    /\ round' = [round EXCEPT !.pc = "volume"]
    /\ UNCHANGED <<spec, registry, served, claim, deploy, status, env>>

Shortage ==
    /\ round.pc = "capacity"
    /\ env.short
    /\ GrowsClaim(round, round.persistent) \/ NewTemplate(round)
    /\ Conclude([round.status EXCEPT !.gen = round.spec.gen, !.phase = "provisioning"])
    /\ UNCHANGED <<spec, registry, served, claim, deploy, status, env>>

(* The claim is applied when it has to grow.  A request below the capacity *)
(* the volume has by now is refused, and the round is tried again.         *)
PatchClaim ==
    /\ round.pc = "volume"
    /\ IF ~GrowsClaim(round, round.persistent)
         THEN /\ round' = [round EXCEPT !.pc = "deploy"]
              /\ UNCHANGED claim
         ELSE IF round.persistent < claim.capacity
         THEN /\ round' = NoRound
              /\ UNCHANGED claim
         ELSE /\ round' = [round EXCEPT !.pc = "deploy"]
              /\ claim' = [claim EXCEPT !.kept = TRUE, !.requested = round.persistent]
    /\ UNCHANGED <<spec, registry, served, deploy, status, env>>

(* reconcile_scaling: the template keeps its old generation while it is    *)
(* the same template (preserve_unchanged_pod_generation).                  *)
Template(d) == [content |-> d.content, rootfs |-> d.rootfs, home |-> d.home]
ApplyDeployment ==
    LET r == round
        new == [gen |-> r.spec.gen, checked |-> r.spec.gen, content |-> r.content,
                rootfs |-> r.rootfs, home |-> AllocateHome(r) /\ ~r.spec.stateless,
                ref |-> r.spec.image]
        unchanged ==
            /\ deploy.gen \notin {0, r.spec.gen}
            /\ deploy.checked = r.spec.gen \/ Template(deploy) = Template(new)
    IN
    /\ r.pc = "deploy"
    /\ deploy' = IF unchanged THEN [new EXCEPT !.gen = deploy.gen] ELSE new
    /\ Conclude([gen |-> r.spec.gen, content |-> r.content, writable |-> Writable(r),
                 rootfs |-> r.rootfs,
                 persistent |-> IF AllocateHome(r) THEN r.persistent ELSE 0,
                 phase |-> IF AllocateHome(r) /\ ResizePending(r.existing, r.persistent)
                             THEN "provisioning" ELSE "ready"])
    /\ UNCHANGED <<spec, registry, served, claim, status, env>>

(* patch_status_if_changed, fenced on the service that was read.           *)
Report ==
    /\ round.pc = "report"
    /\ status' = IF round.fresh THEN round.report ELSE status
    /\ round' = NoRound
    /\ UNCHANGED <<spec, registry, served, claim, deploy, env>>

Crash ==
    /\ env.crashes
    /\ round.pc # "idle"
    /\ round' = NoRound
    /\ UNCHANGED <<spec, registry, served, claim, deploy, status, env>>
-----------------------------------------------------------------------------
(* A new revision of the spec; the copy a round works on is outdated.      *)
Update ==
    /\ spec.gen < MaxGen
    /\ \E s \in env.updates : spec' = [s EXCEPT !.gen = spec.gen + 1]
    /\ round' = [round EXCEPT !.fresh = FALSE]
    /\ UNCHANGED <<registry, served, claim, deploy, status, env>>

(* A tag is moved to another content.                                      *)
Retag(i, content) ==
    /\ env.retags
    /\ i \in Images \ Digests
    /\ content # registry[i]
    /\ registry' = [registry EXCEPT ![i] = content]
    /\ served' = [served EXCEPT ![i] = @ \cup {content}]
    /\ UNCHANGED <<spec, claim, deploy, status, round, env>>

(* The CSI driver provides the volume, or expands it: at least what was    *)
(* requested, in MiB with one decimal; it may round the request up.  A     *)
(* volume that is expanded has its file system expanded afterwards.        *)
Provide ==
    /\ claim.kept
    /\ claim.capacity < claim.requested
    /\ \E extra \in {0, Mib}, rounds \in BOOLEAN :
         claim' = [claim EXCEPT
             !.capacity = Quantity(((RoundUp(claim.requested) + extra) \div Mib) * 10, Mib, TRUE),
             !.requested = IF rounds THEN RoundUp(@) ELSE @,
             !.resizing = claim.capacity # 0]
    /\ UNCHANGED <<spec, registry, served, deploy, status, round, env>>

ExpandFileSystem ==
    /\ claim.resizing
    /\ claim' = [claim EXCEPT !.resizing = FALSE]
    /\ UNCHANGED <<spec, registry, served, deploy, status, round, env>>
-----------------------------------------------------------------------------
Init ==
    /\ env \in Scenarios
    /\ spec \in env.updates
    /\ registry \in [Images -> Contents]
    /\ \A i, j \in Digests : i # j => registry[i] # registry[j]
    /\ served = [i \in Images |-> {registry[i]}]
    /\ claim = env.claim
    /\ deploy = NoDeploy
    /\ status = NoStatus
    /\ round = NoRound

Inspect == FromCache \/ FromRegistry \/ RegistryDown \/ RegistryRefuses
Step ==
    \/ Start \/ Inspect \/ ReadClaim \/ Allocate \/ Granted \/ Shortage
    \/ PatchClaim \/ ApplyDeployment \/ Report
Driver == Provide \/ ExpandFileSystem

Next ==
    \/ Step \/ Crash \/ Update \/ Driver
    \/ \E i \in Images, content \in Contents : Retag(i, content)

SSpec == Init /\ [][Next]_svars
-----------------------------------------------------------------------------
(* A home is never shrunk or removed: not by a smaller or stateless        *)
(* revision, not by a round that read the claim before the driver rounded  *)
(* it, and not by a split that rounds down.                                *)
DiskKept ==
    [][/\ claim.kept => claim'.kept
       /\ claim'.requested >= claim.requested
       /\ claim'.capacity >= claim.capacity]_svars

(* A revision that is reported ready has its disk, and the container's     *)
(* file system and the home as requested by now fit together in what the   *)
(* image leaves of the budget.                                             *)
ReadyFits ==
    status.phase = "ready" /\ status.gen = spec.gen =>
        /\ deploy.checked = spec.gen
        /\ status.persistent # 0 => claim.capacity >= status.persistent
        /\ deploy.rootfs + claim.requested <= Budget(spec) - SizeOf[deploy.content]

(* The Deployment for an image runs a content that this image has named.   *)
RunsItsImage ==
    deploy.ref # None => deploy.content \in served[deploy.ref]

(* Reconciling a revision again does not split its disk again: the CSI     *)
(* driver's rounding, a crash and a claim that grew meanwhile leave the    *)
(* container's file system, and so the running Pods, alone.  (If the tag   *)
(* of the image moved between the rounds and back, the home may have grown *)
(* for the other content in the meantime.)                                 *)
SplitStands ==
    [][deploy'.checked = deploy.checked /\ deploy'.content = deploy.content =>
          deploy'.rootfs = deploy.rootfs /\ deploy'.home = deploy.home]_svars
=============================================================================
