-------------------------- MODULE HomeStorageProofs --------------------------
(***************************************************************************)
(* Images and homes: the proofs for every budget, every sequence of        *)
(* revisions, every set of images and every rounding of the driver.        *)
(*                                                                         *)
(* A home is never shrunk.  A round patches the claim with sizes it        *)
(* computed from an earlier read.  The invariant says what that read is    *)
(* worth: either nothing has changed since, or the driver has provided the *)
(* volume, and then the API server's refusal of a request below the        *)
(* capacity covers the request as well.                                    *)
(*                                                                         *)
(* On top of it: a Deployment runs its image, ready is final and fits, and *)
(* the split of a revision is not redone.  The last three need what the    *)
(* storage run grants and the code does not enforce; each hypothesis is a  *)
(* definition with the reason beside it.                                   *)
(***************************************************************************)
EXTENDS HomeStorage, TLAPS

(***************************************************************************)
(* Arithmetic of the roundings.                                            *)
(***************************************************************************)

(* Whole units survive a division by the unit.                             *)
LEMMA DivExact ==
    ASSUME NEW m \in Nat \ {0}, NEW q \in Nat
    PROVE  (q * m) \div m = q
BY Z3

(* RoundUp gives whole MiB and never less than it was given.               *)
LEMMA RoundUpCovers ==
    ASSUME NEW m \in Nat \ {0}, NEW n \in Nat
    PROVE  /\ (n + m - 1) \div m \in Nat
           /\ ((n + m - 1) \div m) * m >= n
BY Z3

(* A capacity written with one decimal is parsed back to the same size.    *)
LEMMA TenthsExact ==
    ASSUME NEW m \in Nat \ {0}, NEW q \in Nat
    PROVE  ((q * 10) * m + 9) \div 10 = q * m
<1> DEFINE k == q * m
<1>1. (q * 10) * m = 10 * k /\ k \in Nat
  OBVIOUS
<1> HIDE DEF k
<1>2. (10 * k + 9) \div 10 = k
  BY <1>1
<1> QED
  BY <1>1, <1>2 DEF k

(* What the driver provides covers the request, also once it is rounded.   *)
LEMMA ProvidedCovers ==
    ASSUME NEW n \in Nat, NEW extra \in {0, Mib}
    PROVE  LET c == Quantity(((RoundUp(n) + extra) \div Mib) * 10, Mib, TRUE)
           IN  c \in Nat /\ RoundUp(n) \in Nat /\ RoundUp(n) >= n /\ c >= RoundUp(n)
<1> DEFINE q == (n + Mib - 1) \div Mib
<1>1. Mib \in Nat \ {0}
  BY StorageConstants
<1>2. q \in Nat /\ q * Mib >= n /\ q * Mib \in Nat /\ RoundUp(n) = q * Mib
  BY <1>1, RoundUpCovers DEF RoundUp
<1> HIDE DEF q
<1>3. PICK e \in {0, 1} : RoundUp(n) + extra = (q + e) * Mib
  BY <1>1, <1>2
<1>4. (RoundUp(n) + extra) \div Mib = q + e /\ q + e \in Nat
  BY <1>1, <1>2, <1>3, DivExact
<1>5. Quantity(((RoundUp(n) + extra) \div Mib) * 10, Mib, TRUE) = (q + e) * Mib
  BY <1>1, <1>4, TenthsExact DEF Quantity
<1>6. (q + e) * Mib >= q * Mib /\ (q + e) * Mib \in Nat
  BY <1>1, <1>2, <1>4
<1> QED
  BY <1>2, <1>5, <1>6

(***************************************************************************)
(* The split.                                                              *)
(***************************************************************************)

(* A split that is accepted is a size, whatever was asked for.             *)
LEMMA SplitIsASize ==
    ASSUME NEW writable \in Int, NEW home \in BOOLEAN, NEW rootfs \in Nat,
           NEW persistent \in Nat
    PROVE  LET a == StorageAllocation(writable, home, rootfs, persistent)
           IN  a.ok \in BOOLEAN /\ a.rootfs \in Int /\ a.persistent \in Int
<1>1. Mib \in Nat /\ MinRootfs \in Nat /\ MaxRootfs \in Nat /\ MinPersistent \in Nat
  BY StorageConstants
<1>2. writable \div 10 \in Int
  OBVIOUS
<1>3. AutoRootfs(writable, persistent) \in Int
  BY <1>1, <1>2 DEF AutoRootfs, Low, High, Minus
<1> QED
  BY <1>1, <1>3 DEF StorageAllocation, Split, Refused, Minus

(* storage_allocation_retaining accepts a split for a home only if it is   *)
(* not smaller than the home that exists.                                  *)
LEMMA RetainingKeeps ==
    ASSUME NEW writable \in Int, NEW home \in BOOLEAN, NEW rootfs \in Nat,
           NEW persistent \in Nat, NEW existing \in Nat
    PROVE  LET a == Retaining(writable, home, rootfs, persistent, existing)
           IN  /\ a.ok \in BOOLEAN /\ a.rootfs \in Int /\ a.persistent \in Int
               /\ a.ok /\ home => a.persistent >= existing
<1> DEFINE a == StorageAllocation(writable, home, rootfs, persistent)
<1>1. a.ok \in BOOLEAN /\ a.rootfs \in Int /\ a.persistent \in Int
  BY SplitIsASize
<1> HIDE DEF a
<1>2. Mib \in Nat \ {0}
  BY StorageConstants
<1>3. RoundDown(a.persistent) \in Int
  BY <1>1, <1>2 DEF RoundDown
<1> DEFINE p == IF home /\ persistent = 0 /\ a.persistent > existing
                  THEN High(RoundDown(a.persistent), existing) ELSE a.persistent
<1>4. p \in Int
  BY <1>1, <1>3 DEF High
<1> HIDE DEF p
<1>5. Retaining(writable, home, rootfs, persistent, existing)
        = IF ~a.ok THEN Refused
          ELSE IF home /\ p < existing
            THEN IF persistent # 0 \/ rootfs # 0 \/ writable < existing + MinRootfs
                   THEN Refused ELSE Split(writable - existing, existing)
            ELSE Split(a.rootfs, p)
  BY DEF Retaining, a, p
<1> QED
  BY <1>1, <1>4, <1>5 DEF Split, Refused

(***************************************************************************)
(* The invariant.                                                          *)
(***************************************************************************)
Phases == {"new", "provisioning", "error", "ready"}
Points == {"idle", "inspect", "claim", "allocate", "capacity", "volume", "deploy", "report"}
StatusShape == [gen : Nat, phase : Phases, content : Contents \cup {None},
                writable : Int, rootfs : Int, persistent : Int]
RoundShape == [pc : Points, spec : Revisions \cup {None}, status : StatusShape,
               fresh : BOOLEAN, content : Contents \cup {None}, existing : Claims,
               rootfs : Int, persistent : Int, report : StatusShape]

Shape ==
    /\ spec \in Revisions
    /\ env \in Scenarios
    /\ registry \in [Images -> Contents]
    /\ claim \in Claims
    /\ status \in StatusShape
    /\ round \in RoundShape

\* A claim that nobody made has no sizes.
ClaimSane == ~claim.kept => claim.requested = 0 /\ claim.capacity = 0

\* What a round has found out at each point.
RoundSane ==
    /\ round.pc \in {"inspect", "claim", "allocate", "capacity", "volume", "deploy"} =>
         round.spec \in Revisions
    /\ round.pc \in {"claim", "allocate", "capacity", "volume", "deploy"} =>
         round.content \in Contents
    /\ round.pc \in {"capacity", "volume"} /\ AllocateHome(round) =>
         round.persistent >= round.existing.requested

\* What the read of the claim is worth: a claim that is no longer as read
\* has been provided meanwhile.
ReadHolds ==
    round.pc \in {"allocate", "capacity", "volume"} /\ env.class =>
        \/ /\ claim.kept = round.existing.kept
           /\ claim.requested = round.existing.requested
           /\ claim.capacity = round.existing.capacity
        \/ claim.kept /\ claim.capacity >= claim.requested

SInv == Shape /\ ClaimSane /\ RoundSane /\ ReadHolds

(* The records that stand for nothing have their shapes.                   *)
LEMMA EmptyShapes ==
    NoClaim \in Claims /\ NoStatus \in StatusShape /\ NoRound \in RoundShape
<1>1. NoClaim \in Claims
  BY DEF NoClaim, Claims
<1>2. NoStatus \in StatusShape
  BY DEF NoStatus, StatusShape, Phases
<1>3. NoRound \in RoundShape
  BY <1>1, <1>2 DEF NoRound, RoundShape, Points
<1> QED
  BY <1>1, <1>2, <1>3

(* Storage starts in the invariant.                                        *)
LEMMA SInvInit == Init => SInv
BY EmptyShapes, ScenarioShape DEF Init, SInv, Shape, RoundShape, Points, ClaimSane, RoundSane, ReadHolds, NoRound

(* A round that ends with something to report keeps the invariant.         *)
LEMMA ConcludeKeeps ==
    ASSUME SInv, NEW st \in StatusShape, Conclude(st),
           UNCHANGED <<spec, registry, claim, status, env>>
    PROVE  SInv'
BY EmptyShapes DEF Conclude, SInv, Shape, RoundShape, Points, ClaimSane, RoundSane, ReadHolds, NoRound

(* A round that is forgotten keeps it, with whatever status it left.       *)
LEMMA ForgetKeeps ==
    ASSUME SInv, round' = NoRound, UNCHANGED <<spec, registry, claim, env>>,
           status' \in StatusShape
    PROVE  SInv'
BY EmptyShapes DEF SInv, Shape, RoundShape, Points, ClaimSane, RoundSane, ReadHolds, NoRound

(* A round that found its image goes on to the claim.                      *)
LEMMA ContinueKeeps ==
    ASSUME SInv, round.pc = "inspect", NEW content \in Contents, Continue(content),
           UNCHANGED <<spec, registry, claim, status, env>>
    PROVE  SInv'
BY DEF Continue, SInv, Shape, RoundShape, Points, ClaimSane, RoundSane, ReadHolds

(* An outcome is a status.                                                 *)
LEMMA OutcomeShape ==
    ASSUME NEW s \in Revisions, NEW phase \in Phases
    PROVE  Outcome(s, phase) \in StatusShape
BY EmptyShapes DEF Outcome, Revisions, StatusShape

(* Inspecting the image keeps the invariant, whatever the registry does.   *)
LEMMA InspectKeeps == ASSUME SInv, Inspect PROVE SInv'
<1>1. round.pc = "inspect" => round.spec \in Revisions
  BY DEF SInv, RoundSane
<1>2. round.pc = "inspect" => Inspected(round.spec) \in Contents
  BY <1>1 DEF SInv, Shape, Inspected, Revisions
<1>3. CASE FromCache
  BY <1>3, ContinueKeeps DEF FromCache, Cached, SInv, Shape, RoundShape, StatusShape
<1>4. CASE FromRegistry
  BY <1>1, <1>2, <1>4, ContinueKeeps, ConcludeKeeps, OutcomeShape DEF FromRegistry, Phases
<1>5. CASE RegistryDown
  BY <1>1, <1>2, <1>5, ContinueKeeps, ConcludeKeeps, OutcomeShape DEF RegistryDown, Phases
<1>6. CASE RegistryRefuses
  BY <1>1, <1>6, ConcludeKeeps, OutcomeShape DEF RegistryRefuses, Phases
<1> QED
  BY <1>3, <1>4, <1>5, <1>6 DEF Inspect

(* The sizes that Allocation is given are sizes.                           *)
LEMMA AllocationKeeps ==
    ASSUME SInv, round.pc \in {"allocate", "capacity", "volume", "deploy"}
    PROVE  /\ Writable(round) \in Int
           /\ AllocateHome(round) \in BOOLEAN
           /\ Allocation(round).ok \in BOOLEAN
           /\ Allocation(round).rootfs \in Int
           /\ Allocation(round).persistent \in Int
           /\ Allocation(round).ok /\ AllocateHome(round) =>
                Allocation(round).persistent >= round.existing.requested
<1>1. round.spec \in Revisions /\ round.content \in Contents /\ round.existing \in Claims
  BY DEF SInv, Shape, RoundShape, RoundSane
<1>2. Gib \in Nat /\ SizeOf[round.content] \in Nat
  BY <1>1, StorageConstants
<1>3. Writable(round) \in Int
  BY <1>1, <1>2 DEF Writable, Budget, Revisions
<1>4. round.spec.rootfs * Gib \in Nat /\ round.spec.persistent * Gib \in Nat
  BY <1>1, <1>2 DEF Revisions
<1>5. AllocateHome(round) \in BOOLEAN
  BY <1>1, ScenarioShape DEF AllocateHome, SInv, Shape, Revisions, Claims
<1>6. round.existing.requested \in Nat
  BY <1>1 DEF Claims
<1> QED
  BY <1>3, <1>4, <1>5, <1>6, RetainingKeeps DEF Allocation

(* Each step of a round keeps the invariant, and the claim's sizes.        *)
LEMMA StepKeeps == ASSUME SInv, Step PROVE SInv'
<1> USE DEF SInv
<1>1. CASE Start
  BY <1>1, EmptyShapes DEF Start, Shape, RoundShape, Points, ClaimSane, RoundSane, ReadHolds, NoRound
<1>2. CASE Inspect
  BY <1>2, InspectKeeps
<1>3. CASE ReadClaim
  BY <1>3, EmptyShapes DEF ReadClaim, Shape, RoundShape, Points, ClaimSane, RoundSane, ReadHolds
<1>4. CASE Allocate
  <2>1. CASE Allocation(round).ok
    <3>1. round' = [round EXCEPT !.pc = "capacity", !.rootfs = Allocation(round).rootfs,
                                 !.persistent = Allocation(round).persistent]
          /\ round.pc = "allocate" /\ UNCHANGED <<spec, registry, claim, status, env>>
      BY <1>4, <2>1 DEF Allocate
    <3>2. AllocateHome(round)' = AllocateHome(round)
      BY <3>1 DEF AllocateHome, Shape
    <3>3. /\ Allocation(round).rootfs \in Int /\ Allocation(round).persistent \in Int
          /\ AllocateHome(round) =>
               Allocation(round).persistent >= round.existing.requested
      BY <2>1, <3>1, AllocationKeeps
    <3>4. /\ round' \in RoundShape /\ round'.pc = "capacity" /\ round'.spec = round.spec
          /\ round'.content = round.content /\ round'.existing = round.existing
          /\ round'.persistent = Allocation(round).persistent
      BY <3>1, <3>3 DEF Shape, RoundShape, Points
    <3> QED
      BY <3>1, <3>2, <3>3, <3>4 DEF Shape, ClaimSane, RoundSane, ReadHolds
  <2>2. CASE ~Allocation(round).ok
    <3>1. round.pc = "allocate" /\ UNCHANGED <<spec, registry, claim, status, env>>
          /\ Conclude([Outcome(round.spec, "error") EXCEPT !.content = round.content])
      BY <1>4, <2>2 DEF Allocate
    <3>2. [Outcome(round.spec, "error") EXCEPT !.content = round.content] \in StatusShape
      BY <3>1, OutcomeShape DEF Shape, RoundShape, RoundSane, StatusShape, Phases
    <3> QED
      BY <3>1, <3>2, ConcludeKeeps
  <2> QED
    BY <2>1, <2>2
<1>5. CASE Granted
  BY <1>5 DEF Granted, Shape, RoundShape, Points, ClaimSane, RoundSane, ReadHolds, AllocateHome
<1>6. CASE Shortage
  <2>1. [round.status EXCEPT !.gen = round.spec.gen, !.phase = "provisioning"] \in StatusShape
    BY <1>6 DEF Shortage, Shape, RoundShape, RoundSane, Revisions, StatusShape, Phases
  <2> QED
    BY <1>6, <2>1, ConcludeKeeps DEF Shortage
<1>7. CASE PatchClaim
  <2>1. round.pc = "volume" /\ UNCHANGED <<spec, registry, status, env>>
    BY <1>7 DEF PatchClaim
  <2>2. CASE round' = NoRound /\ UNCHANGED claim
    BY <2>1, <2>2, ForgetKeeps DEF Shape
  <2>3. CASE round' = [round EXCEPT !.pc = "deploy"] /\ UNCHANGED claim
    BY <2>1, <2>3 DEF Shape, RoundShape, Points, ClaimSane, RoundSane, ReadHolds
  <2>4. CASE /\ round' = [round EXCEPT !.pc = "deploy"]
             /\ claim' = [claim EXCEPT !.kept = TRUE, !.requested = round.persistent]
             /\ AllocateHome(round)
    <3>1. round.persistent \in Nat
      BY <2>1, <2>4 DEF Shape, RoundShape, RoundSane, Claims
    <3>2. claim' \in Claims /\ claim'.kept
      BY <2>4, <3>1 DEF Shape, Claims
    <3> QED
      BY <2>1, <2>4, <3>2 DEF Shape, RoundShape, Points, ClaimSane, RoundSane, ReadHolds
  <2> QED
    BY <1>7, <2>2, <2>3, <2>4 DEF PatchClaim, GrowsClaim
<1>8. CASE ApplyDeployment
  <2>1. round.pc = "deploy" /\ round.spec \in Revisions /\ round.content \in Contents
    BY <1>8 DEF ApplyDeployment, RoundSane
  <2> DEFINE st == [gen |-> round.spec.gen, content |-> round.content,
                    writable |-> Writable(round), rootfs |-> round.rootfs,
                    persistent |-> IF AllocateHome(round) THEN round.persistent ELSE 0,
                    phase |-> IF AllocateHome(round)
                                  /\ ResizePending(round.existing, round.persistent)
                                THEN "provisioning" ELSE "ready"]
  <2>2. st \in StatusShape
    BY <2>1, AllocationKeeps DEF Shape, RoundShape, Revisions, StatusShape, Phases
  <2>3. Conclude(st) /\ UNCHANGED <<spec, registry, claim, status, env>>
    BY <1>8 DEF ApplyDeployment
  <2> HIDE DEF st
  <2> QED
    BY <2>2, <2>3, ConcludeKeeps
<1>9. CASE Report
  BY <1>9, ForgetKeeps DEF Report, Shape, RoundShape
<1> QED
  BY <1>1, <1>2, <1>3, <1>4, <1>5, <1>6, <1>7, <1>8, <1>9 DEF Step

(* What the driver provides: at least the request, which only grows.       *)
LEMMA ProvideGrows ==
    ASSUME SInv, Provide
    PROVE  /\ claim' \in Claims /\ claim.kept /\ claim'.kept
           /\ claim'.requested >= claim.requested
           /\ claim'.capacity >= claim'.requested
           /\ claim'.capacity >= claim.capacity
           /\ UNCHANGED <<spec, registry, status, round, env>>
<1>1. PICK extra \in {0, Mib}, rounds \in BOOLEAN :
         claim' = [claim EXCEPT
             !.capacity = Quantity(((RoundUp(claim.requested) + extra) \div Mib) * 10, Mib, TRUE),
             !.requested = IF rounds THEN RoundUp(@) ELSE @,
             !.resizing = claim.capacity # 0]
  BY DEF Provide
<1>2. claim \in Claims /\ claim.requested \in Nat /\ claim.capacity \in Nat
  BY DEF SInv, Shape, Claims
<1> DEFINE c == Quantity(((RoundUp(claim.requested) + extra) \div Mib) * 10, Mib, TRUE)
<1>3. /\ c \in Nat /\ RoundUp(claim.requested) \in Nat
      /\ RoundUp(claim.requested) >= claim.requested /\ c >= RoundUp(claim.requested)
  BY <1>2, ProvidedCovers
<1> DEFINE n == IF rounds THEN RoundUp(claim.requested) ELSE claim.requested
           b == claim.capacity # 0
<1>4. claim' = [claim EXCEPT !.capacity = c, !.requested = n, !.resizing = b]
  BY <1>1, <1>2 DEF Claims
<1> HIDE DEF c
<1>5. n \in Nat /\ n >= claim.requested /\ c >= n
  BY <1>2, <1>3
<1> HIDE DEF n
<1>6. b \in BOOLEAN
  OBVIOUS
<1> HIDE DEF b
<1>7. /\ claim' \in Claims /\ claim'.kept = claim.kept
      /\ claim'.requested = n /\ claim'.capacity = c
  BY <1>2, <1>3, <1>4, <1>5, <1>6 DEF Claims
<1>8. claim.kept /\ claim.capacity < claim.requested
      /\ UNCHANGED <<spec, registry, status, round, env>>
  BY DEF Provide
<1> QED
  BY <1>2, <1>3, <1>5, <1>7, <1>8

(* Every step keeps the invariant.                                         *)
LEMMA SInvNext == SInv /\ [Next]_svars => SInv'
<1> SUFFICES ASSUME SInv, [Next]_svars PROVE SInv'
  OBVIOUS
<1>1. CASE Step
  BY <1>1, StepKeeps
<1>2. CASE Crash
  BY <1>2, ForgetKeeps DEF Crash, SInv, Shape
<1>3. CASE Update
  <2>1. spec' \in Revisions
    BY <1>3, ScenarioShape DEF Update, SInv, Shape, Revisions
  <2>2. AllocateHome(round)' = AllocateHome(round)
    BY <1>3 DEF Update, AllocateHome, SInv, Shape
  <2> QED
    BY <1>3, <2>1, <2>2 DEF Update, SInv, Shape, RoundShape, Points, ClaimSane, RoundSane, ReadHolds
<1>4. CASE Provide
  <2>1. AllocateHome(round)' = AllocateHome(round)
    BY <1>4, ProvideGrows DEF AllocateHome
  <2> QED
    BY <1>4, <2>1, ProvideGrows DEF SInv, Shape, RoundShape, Points, ClaimSane, RoundSane, ReadHolds
<1>5. CASE ExpandFileSystem
  BY <1>5, ZenonT(40) DEF ExpandFileSystem, SInv, Shape, RoundShape, Points, ClaimSane,
     RoundSane, ReadHolds, AllocateHome, Claims
<1>6. CASE \E i \in Images, content \in Contents : Retag(i, content)
  BY <1>6 DEF Retag, SInv, Shape, RoundShape, Points, ClaimSane, RoundSane, ReadHolds, AllocateHome
<1>7. CASE UNCHANGED svars
  BY <1>7 DEF svars, SInv, Shape, RoundShape, Points, ClaimSane, RoundSane, ReadHolds, AllocateHome
<1> QED
  BY <1>1, <1>2, <1>3, <1>4, <1>5, <1>6, <1>7 DEF Next, Driver

(* The invariant holds of every behaviour.                                 *)
THEOREM StorageInvariance == SSpec => []SInv
BY SInvInit, SInvNext, PTL DEF SSpec

(* A step changes the claim only by a patch or by the driver, and both     *)
(* only let it grow.                                                       *)
LEMMA ClaimGrows ==
    ASSUME SInv, [Next]_svars
    PROVE  /\ claim.kept => claim'.kept
           /\ claim'.requested >= claim.requested
           /\ claim'.capacity >= claim.capacity
<1>1. claim.requested \in Nat /\ claim.capacity \in Nat /\ claim \in Claims
  BY DEF SInv, Shape, Claims
<1>2. CASE UNCHANGED claim
  BY <1>1, <1>2
<1>3. CASE PatchClaim /\ ~UNCHANGED claim
  <2>1. /\ round.pc = "volume" /\ AllocateHome(round)
        /\ NeedsUpdate(round.existing, round.persistent)
        /\ ~(round.persistent < claim.capacity)
        /\ claim' = [claim EXCEPT !.kept = TRUE, !.requested = round.persistent]
    BY <1>3 DEF PatchClaim, GrowsClaim
  <2>2. /\ round.persistent \in Int /\ round.existing.requested \in Nat
        /\ round.existing \in Claims
        /\ round.persistent >= round.existing.requested /\ env.class
    BY <2>1 DEF SInv, Shape, RoundShape, RoundSane, AllocateHome, Claims
  <2>3. round.persistent >= claim.requested
    BY <1>1, <2>1, <2>2 DEF SInv, ReadHolds
  <2> QED
    BY <1>1, <2>1, <2>2, <2>3 DEF Claims
<1>4. CASE Provide
  BY <1>1, <1>4, ProvideGrows DEF Claims
<1>5. CASE ExpandFileSystem
  BY <1>1, <1>5 DEF ExpandFileSystem, Claims
<1>6. [Next]_svars => UNCHANGED claim \/ PatchClaim \/ Provide \/ ExpandFileSystem
  BY DEF Next, Step, Inspect, Driver, Start, FromCache, FromRegistry, RegistryDown,
         RegistryRefuses, ReadClaim, Allocate, Granted, Shortage, ApplyDeployment, Report,
         Crash, Update, Retag, svars
<1> QED
  BY <1>2, <1>3, <1>4, <1>5, <1>6

(* For every budget, revision, image and rounding of the driver, a home is *)
(* never shrunk or removed.                                                *)
THEOREM HomeIsKept == SSpec => DiskKept
<1>1. SInv /\ [Next]_svars =>
        [/\ claim.kept => claim'.kept
         /\ claim'.requested >= claim.requested
         /\ claim'.capacity >= claim.capacity]_svars
  BY ClaimGrows
<1> QED
  BY <1>1, StorageInvariance, PTL DEF SSpec, DiskKept

(***************************************************************************)
(* Rounds, revisions and images.                                           *)
(***************************************************************************)

(* The points of a round: with a copy of the service, with an image, with  *)
(* a reading of the claim, with a split.                                   *)
InRound == {"inspect", "claim", "allocate", "capacity", "volume", "deploy"}
Found == {"claim", "allocate", "capacity", "volume", "deploy"}
Measured == {"allocate", "capacity", "volume", "deploy"}
Sized == {"capacity", "volume", "deploy"}

(* A round works on the status as it is and on a spec that is not ahead; a *)
(* round that may report works on the spec as it is.                       *)
RoundFollows ==
    /\ status.gen <= spec.gen
    /\ round.pc \in InRound =>
          /\ round.status = status
          /\ status.gen <= round.spec.gen
          /\ round.spec.gen <= spec.gen
          /\ round.spec.gen = spec.gen \/ round.fresh => round.spec = spec
    /\ round.pc = "report" /\ round.fresh => round.report.gen = spec.gen

(* What each step does to the round and to the rest, field by field.       *)
LEMMA StartEffect ==
    ASSUME SInv, Start
    PROVE  /\ round'.pc = "inspect" /\ round'.spec = spec /\ round'.status = status
           /\ round'.fresh = TRUE
           /\ UNCHANGED <<spec, registry, served, claim, deploy, status, env>>
BY DEF Start, NoRound

(* A round that found its image.                                           *)
LEMMA ContinueEffect ==
    ASSUME SInv, NEW content \in Contents, Continue(content)
    PROVE  /\ round'.pc = "claim" /\ round'.content = content /\ round'.spec = round.spec
           /\ round'.status = round.status /\ round'.fresh = round.fresh
BY DEF Continue, SInv, Shape, RoundShape

(* A round that has something to report.                                   *)
LEMMA ConcludeEffect ==
    ASSUME SInv, NEW st, Conclude(st)
    PROVE  round'.pc = "report" /\ round'.report = st /\ round'.fresh = round.fresh
BY DEF Conclude, NoRound

(* The claim is read where a storage class is configured.                  *)
LEMMA ReadClaimEffect ==
    ASSUME SInv, ReadClaim
    PROVE  /\ round.pc = "claim" /\ round'.pc = "allocate" /\ round'.content = round.content
           /\ round'.spec = round.spec /\ round'.status = round.status
           /\ round'.fresh = round.fresh
           /\ round'.existing = IF env.class THEN claim ELSE NoClaim
           /\ UNCHANGED <<spec, registry, served, claim, deploy, status, env>>
BY DEF ReadClaim, SInv, Shape, RoundShape

(* A split, or a refusal that keeps the image.                             *)
LEMMA AllocateEffect ==
    ASSUME SInv, Allocate
    PROVE  /\ round.pc = "allocate"
           /\ UNCHANGED <<spec, registry, served, claim, deploy, status, env>>
           /\ \/ /\ Allocation(round).ok
                 /\ round'.pc = "capacity" /\ round'.content = round.content
                 /\ round'.spec = round.spec /\ round'.status = round.status
                 /\ round'.fresh = round.fresh /\ round'.existing = round.existing
                 /\ round'.rootfs = Allocation(round).rootfs
                 /\ round'.persistent = Allocation(round).persistent
              \/ /\ round'.pc = "report" /\ round'.fresh = round.fresh
                 /\ round'.report.gen = round.spec.gen
                 /\ round'.report.phase = "error"
                 /\ round'.report.content = round.content
<1>1. round.pc = "allocate" /\ UNCHANGED <<spec, registry, served, claim, deploy, status, env>>
  BY DEF Allocate
<1>2. CASE Allocation(round).ok
  <2> DEFINE x == Allocation(round).rootfs
             y == Allocation(round).persistent
  <2>1. round' = [round EXCEPT !.pc = "capacity", !.rootfs = x, !.persistent = y]
    BY <1>2 DEF Allocate
  <2> HIDE DEF x, y
  <2>2. /\ round'.pc = "capacity" /\ round'.content = round.content
        /\ round'.spec = round.spec /\ round'.status = round.status
        /\ round'.fresh = round.fresh /\ round'.existing = round.existing
        /\ round'.rootfs = x /\ round'.persistent = y
    BY <2>1 DEF SInv, Shape, RoundShape
  <2> QED
    BY <1>1, <1>2, <2>2 DEF x, y
<1>3. CASE ~Allocation(round).ok
  <2> DEFINE st == [Outcome(round.spec, "error") EXCEPT !.content = round.content]
  <2>1. Conclude(st)
    BY <1>3 DEF Allocate
  <2>2. st.gen = round.spec.gen /\ st.phase = "error" /\ st.content = round.content
    BY DEF Outcome, NoStatus
  <2> HIDE DEF st
  <2>3. round'.pc = "report" /\ round'.fresh = round.fresh /\ round'.report = st
    BY <2>1, ConcludeEffect
  <2> QED
    BY <1>1, <2>2, <2>3
<1> QED
  BY <1>2, <1>3

(* Capacity is granted.                                                    *)
LEMMA GrantedEffect ==
    ASSUME SInv, Granted
    PROVE  /\ round.pc = "capacity" /\ round'.pc = "volume" /\ round'.content = round.content
           /\ round'.spec = round.spec /\ round'.status = round.status
           /\ round'.fresh = round.fresh /\ round'.existing = round.existing
           /\ round'.rootfs = round.rootfs /\ round'.persistent = round.persistent
           /\ UNCHANGED <<spec, registry, served, claim, deploy, status, env>>
BY DEF Granted, SInv, Shape, RoundShape

(* A shortage reports the status of before.                                *)
LEMMA ShortageEffect ==
    ASSUME SInv, Shortage
    PROVE  /\ round.pc = "capacity" /\ env.short
           /\ round'.pc = "report" /\ round'.fresh = round.fresh
           /\ round'.report.gen = round.spec.gen
           /\ round'.report.phase = "provisioning"
           /\ round'.report.content = round.status.content
           /\ UNCHANGED <<spec, registry, served, claim, deploy, status, env>>
<1> DEFINE st == [round.status EXCEPT !.gen = round.spec.gen, !.phase = "provisioning"]
<1>1. /\ round.pc = "capacity" /\ env.short /\ Conclude(st)
      /\ UNCHANGED <<spec, registry, served, claim, deploy, status, env>>
  BY DEF Shortage
<1>2. round.status \in StatusShape
  BY DEF SInv, Shape, RoundShape
<1>3. st.gen = round.spec.gen /\ st.phase = "provisioning" /\ st.content = round.status.content
  BY <1>2 DEF StatusShape
<1> HIDE DEF st
<1> QED
  BY <1>1, <1>3, ConcludeEffect

(* The claim is left alone unless it has to grow.                          *)
LEMMA PatchClaimEffect ==
    ASSUME SInv, PatchClaim
    PROVE  /\ round.pc = "volume"
           /\ UNCHANGED <<spec, registry, served, deploy, status, env>>
           /\ \/ round'.pc = "idle" /\ UNCHANGED claim
              \/ /\ round'.pc = "deploy" /\ round'.content = round.content
                 /\ round'.spec = round.spec /\ round'.status = round.status
                 /\ round'.fresh = round.fresh /\ round'.existing = round.existing
                 /\ round'.rootfs = round.rootfs /\ round'.persistent = round.persistent
                 /\ \/ ~GrowsClaim(round, round.persistent) /\ UNCHANGED claim
                    \/ GrowsClaim(round, round.persistent)
<1>1. round.pc = "volume" /\ UNCHANGED <<spec, registry, served, deploy, status, env>>
  BY DEF PatchClaim
<1>2. \/ round' = NoRound /\ UNCHANGED claim
      \/ /\ round' = [round EXCEPT !.pc = "deploy"]
         /\ \/ ~GrowsClaim(round, round.persistent) /\ UNCHANGED claim
            \/ GrowsClaim(round, round.persistent)
  BY DEF PatchClaim
<1>3. round' = NoRound => round'.pc = "idle"
  BY DEF NoRound
<1>4. round' = [round EXCEPT !.pc = "deploy"] =>
         /\ round'.pc = "deploy" /\ round'.content = round.content
         /\ round'.spec = round.spec /\ round'.status = round.status
         /\ round'.fresh = round.fresh /\ round'.existing = round.existing
         /\ round'.rootfs = round.rootfs /\ round'.persistent = round.persistent
  BY DEF SInv, Shape, RoundShape
<1> QED
  BY <1>1, <1>2, <1>3, <1>4

(* The Deployment and the report of one round agree.                       *)
LEMMA ApplyDeploymentEffect ==
    ASSUME SInv, ApplyDeployment
    PROVE  /\ round.pc = "deploy"
           /\ deploy'.checked = round.spec.gen /\ deploy'.content = round.content
           /\ deploy'.rootfs = round.rootfs /\ deploy'.ref = round.spec.image
           /\ deploy'.home = (AllocateHome(round) /\ ~round.spec.stateless)
           /\ round'.pc = "report" /\ round'.fresh = round.fresh
           /\ round'.report.gen = round.spec.gen
           /\ round'.report.content = round.content
           /\ round'.report.writable = Writable(round)
           /\ round'.report.rootfs = round.rootfs
           /\ round'.report.persistent = IF AllocateHome(round) THEN round.persistent ELSE 0
           /\ round'.report.phase = "ready" =>
                 ~(AllocateHome(round) /\ ResizePending(round.existing, round.persistent))
           /\ UNCHANGED <<spec, registry, served, claim, status, env>>
<1> DEFINE st == [gen |-> round.spec.gen, content |-> round.content,
                  writable |-> Writable(round), rootfs |-> round.rootfs,
                  persistent |-> IF AllocateHome(round) THEN round.persistent ELSE 0,
                  phase |-> IF AllocateHome(round)
                                /\ ResizePending(round.existing, round.persistent)
                              THEN "provisioning" ELSE "ready"]
           home == AllocateHome(round) /\ ~round.spec.stateless
           new == [gen |-> round.spec.gen, checked |-> round.spec.gen,
                   content |-> round.content, rootfs |-> round.rootfs,
                   home |-> home, ref |-> round.spec.image]
<1>1. /\ round.pc = "deploy" /\ Conclude(st)
      /\ deploy' = new \/ deploy' = [new EXCEPT !.gen = deploy.gen]
      /\ UNCHANGED <<spec, registry, served, claim, status, env>>
  BY DEF ApplyDeployment
<1>2. /\ deploy'.checked = round.spec.gen /\ deploy'.content = round.content
      /\ deploy'.rootfs = round.rootfs /\ deploy'.ref = round.spec.image
      /\ deploy'.home = home
  <2> HIDE DEF home
  <2> QED  BY <1>1
<1>3. /\ st.gen = round.spec.gen /\ st.content = round.content
      /\ st.writable = Writable(round) /\ st.rootfs = round.rootfs
      /\ st.persistent = IF AllocateHome(round) THEN round.persistent ELSE 0
      /\ st.phase = "ready" =>
            ~(AllocateHome(round) /\ ResizePending(round.existing, round.persistent))
  OBVIOUS
<1> HIDE DEF st, new
<1>4. round'.pc = "report" /\ round'.report = st /\ round'.fresh = round.fresh
  BY <1>1, ConcludeEffect
<1> QED
  BY <1>1, <1>2, <1>3, <1>4

(* The cache is read before the registry and the peers.                    *)
LEMMA InspectEffect ==
    ASSUME SInv, Inspect
    PROVE  /\ round.pc = "inspect"
           /\ UNCHANGED <<spec, registry, served, claim, deploy, status, env>>
           /\ \/ /\ round'.pc = "claim" /\ round'.spec = round.spec
                 /\ round'.status = round.status /\ round'.fresh = round.fresh
                 /\ round'.content \in Contents
                 /\ SizeOf[round'.content] < Budget(round.spec)
                 /\ IF Cached(round.spec, round.status)
                      THEN round'.content = round.status.content
                      ELSE round'.content = registry[round.spec.image]
              \/ /\ round'.pc = "report" /\ round'.fresh = round.fresh
                 /\ round'.report.gen = round.spec.gen
                 /\ round'.report.phase # "ready"
                 /\ round'.report.content = None
<1>0. round.pc = "inspect" /\ UNCHANGED <<spec, registry, served, claim, deploy, status, env>>
  BY DEF Inspect, FromCache, FromRegistry, RegistryDown, RegistryRefuses
<1>1. round.spec \in Revisions /\ registry[round.spec.image] \in Contents
  BY <1>0 DEF SInv, RoundSane, Shape, Revisions
<1>2. ASSUME NEW content \in Contents, Continue(content), SizeOf[content] < Budget(round.spec)
      PROVE  /\ round'.pc = "claim" /\ round'.spec = round.spec
             /\ round'.status = round.status /\ round'.fresh = round.fresh
             /\ round'.content = content
  BY <1>2, ContinueEffect
<1>3. ASSUME NEW phase \in {"error", "provisioning"}, Conclude(Outcome(round.spec, phase))
      PROVE  /\ round'.pc = "report" /\ round'.fresh = round.fresh
             /\ round'.report.gen = round.spec.gen
             /\ round'.report.phase # "ready"
             /\ round'.report.content = None
  <2> DEFINE st == Outcome(round.spec, phase)
  <2>1. st.gen = round.spec.gen /\ st.phase = phase /\ st.content = None
    BY DEF Outcome, NoStatus
  <2>2. Conclude(st)
    BY <1>3
  <2> HIDE DEF st
  <2> QED  BY <2>1, <2>2, ConcludeEffect
<1>4. CASE FromCache
  <2>1. round.status.content \in Contents /\ Cached(round.spec, round.status)
        /\ SizeOf[round.status.content] < Budget(round.spec)
        /\ Continue(round.status.content)
    BY <1>4 DEF FromCache, Cached, SInv, Shape, RoundShape, StatusShape
  <2> QED  BY <1>0, <1>2, <2>1
<1>5. CASE FromRegistry
  BY <1>0, <1>1, <1>2, <1>3, <1>5 DEF FromRegistry, Inspected
<1>6. CASE RegistryDown
  BY <1>0, <1>1, <1>2, <1>3, <1>6 DEF RegistryDown, Inspected, PeerKnows
<1>7. CASE RegistryRefuses
  BY <1>0, <1>3, <1>7 DEF RegistryRefuses
<1> QED
  BY <1>4, <1>5, <1>6, <1>7 DEF Inspect

(* A report is dropped when the spec has changed.                          *)
LEMMA ReportEffect ==
    ASSUME SInv, Report
    PROVE  /\ round.pc = "report" /\ round'.pc = "idle"
           /\ status' = IF round.fresh THEN round.report ELSE status
           /\ UNCHANGED <<spec, registry, served, claim, deploy, env>>
BY DEF Report, NoRound

(* A crash forgets the round.                                              *)
LEMMA CrashEffect ==
    ASSUME SInv, Crash
    PROVE  /\ round'.pc = "idle"
           /\ UNCHANGED <<spec, registry, served, claim, deploy, status, env>>
BY DEF Crash, NoRound

(* A new revision is one generation ahead.                                 *)
LEMMA UpdateEffect ==
    ASSUME SInv, Update
    PROVE  /\ spec' \in Revisions /\ spec'.gen = spec.gen + 1
           /\ \E u \in env.updates : spec'.image = u.image
           /\ round'.fresh = FALSE /\ round'.pc = round.pc /\ round'.spec = round.spec
           /\ round'.status = round.status /\ round'.content = round.content
           /\ round'.existing = round.existing /\ round'.rootfs = round.rootfs
           /\ round'.persistent = round.persistent /\ round'.report = round.report
           /\ UNCHANGED <<registry, served, claim, deploy, status, env>>
<1>1. PICK u \in env.updates : spec' = [u EXCEPT !.gen = spec.gen + 1]
  BY DEF Update
<1>2. u \in Revisions /\ spec.gen \in Nat
  BY ScenarioShape DEF SInv, Shape, Revisions
<1>3. spec' \in Revisions /\ spec'.gen = spec.gen + 1 /\ spec'.image = u.image
  BY <1>1, <1>2 DEF Revisions
<1>4. round \in RoundShape /\ round' = [round EXCEPT !.fresh = FALSE]
  BY DEF SInv, Shape, Update
<1>5. /\ round'.fresh = FALSE /\ round'.pc = round.pc /\ round'.spec = round.spec
      /\ round'.status = round.status /\ round'.content = round.content
      /\ round'.existing = round.existing /\ round'.rootfs = round.rootfs
      /\ round'.persistent = round.persistent /\ round'.report = round.report
  BY <1>4 DEF RoundShape
<1>6. UNCHANGED <<registry, served, claim, deploy, status, env>>
  BY DEF Update
<1> QED
  BY <1>3, <1>5, <1>6
(* Generations are numbers.                                                *)
LEMMA GenIsNat ==
    ASSUME SInv
    PROVE  /\ spec.gen \in Nat /\ status.gen \in Nat
           /\ round.pc \in InRound => round.spec.gen \in Nat
<1>1. spec \in Revisions /\ status \in StatusShape
  BY DEF SInv, Shape
<1>2. round.pc \in InRound => round.spec \in Revisions
  BY DEF SInv, RoundSane, InRound
<1> QED
  BY <1>1, <1>2 DEF Revisions, StatusShape

(* It holds at the start.                                                  *)
LEMMA FollowsInit == Init => RoundFollows
<1> SUFFICES ASSUME Init PROVE RoundFollows
  OBVIOUS
<1>1. status.gen = 0 /\ round.pc = "idle"
  BY DEF Init, NoStatus, NoRound
<1>2. spec.gen \in Nat
  BY SInvInit, GenIsNat
<1> QED
  BY <1>1, <1>2 DEF RoundFollows, InRound

(* Every step keeps it: a new revision outdates the round.                 *)
LEMMA FollowsNext ==
    ASSUME SInv, RoundFollows, [Next]_svars
    PROVE  RoundFollows'
<1> USE GenIsNat DEF InRound
<1>1. CASE Start
  BY <1>1, StartEffect DEF RoundFollows
<1>2. CASE Inspect
  BY <1>2, InspectEffect DEF RoundFollows
<1>3. CASE ReadClaim
  BY <1>3, ReadClaimEffect DEF RoundFollows
<1>4. CASE Allocate
  BY <1>4, AllocateEffect DEF RoundFollows
<1>5. CASE Granted
  BY <1>5, GrantedEffect DEF RoundFollows
<1>6. CASE Shortage
  BY <1>6, ShortageEffect DEF RoundFollows
<1>7. CASE PatchClaim
  BY <1>7, PatchClaimEffect DEF RoundFollows
<1>8. CASE ApplyDeployment
  BY <1>8, ApplyDeploymentEffect DEF RoundFollows
<1>9. CASE Report
  BY <1>9, ReportEffect DEF RoundFollows
<1>10. CASE Crash
  BY <1>10, CrashEffect DEF RoundFollows
<1>11. CASE Update
  <2>1. /\ spec'.gen = spec.gen + 1 /\ ~round'.fresh /\ round'.pc = round.pc
        /\ round'.spec = round.spec /\ round'.status = round.status /\ status' = status
    BY <1>11, UpdateEffect
  <2>2. status'.gen <= spec'.gen
    BY <2>1 DEF RoundFollows
  <2>3. round'.pc \in InRound =>
          /\ round'.status = status' /\ status'.gen <= round'.spec.gen
          /\ round'.spec.gen <= spec'.gen /\ round'.spec.gen # spec'.gen
    BY <2>1 DEF RoundFollows
  <2> QED
    BY <2>1, <2>2, <2>3 DEF RoundFollows
<1>12. CASE Driver
  BY <1>12 DEF Driver, Provide, ExpandFileSystem, RoundFollows
<1>13. CASE \E i \in Images, content \in Contents : Retag(i, content)
  BY <1>13 DEF Retag, RoundFollows
<1>14. CASE UNCHANGED svars
  BY <1>14 DEF svars, RoundFollows
<1> QED
  BY <1>1, <1>2, <1>3, <1>4, <1>5, <1>6, <1>7, <1>8, <1>9, <1>10, <1>11, <1>12, <1>13,
     <1>14 DEF Next, Step

(* Where capacity may be short, the image is not changed.  The shortage    *)
(* reports the inspection of before under the new generation, so this is   *)
(* what RunsItsImage rests on: storage_shortage shows that it fails        *)
(* without.                                                                *)
ShortOfOneImage ==
    \A e \in Scenarios : e.short => \A u, v \in e.updates : u.image = v.image

(* Wherever a content is kept for an image, the image has named it: in the *)
(* Deployment, in a round, and in a status that the cache may read.        *)
ImageServed ==
    /\ served \in [Images -> SUBSET Contents]
    /\ \A i \in Images : registry[i] \in served[i]
    /\ deploy.ref # None => deploy.ref \in Images /\ deploy.content \in served[deploy.ref]
    /\ env.short =>
          /\ \A u \in env.updates : u.image = spec.image
          /\ round.pc \in InRound => round.spec.image = spec.image
    /\ status.content # None /\ (status.gen = spec.gen \/ env.short) =>
          status.content \in served[spec.image]
    /\ round.pc = "inspect" /\ status.content # None
         /\ (status.gen = round.spec.gen \/ env.short) =>
            status.content \in served[round.spec.image]
    /\ round.pc \in Found => round.content \in served[round.spec.image]
    /\ round.pc = "report" /\ round.fresh /\ round.report.content # None =>
          round.report.content \in served[spec.image]

(* It holds at the start.                                                  *)
LEMMA ServedInit ==
    ASSUME ShortOfOneImage, Init
    PROVE  ImageServed
<1>1. /\ status.content = None /\ round.pc = "idle" /\ deploy.ref = None
      /\ registry \in [Images -> Contents] /\ served = [i \in Images |-> {registry[i]}]
      /\ env \in Scenarios /\ spec \in env.updates
  BY DEF Init, NoStatus, NoRound, NoDeploy
<1>2. served \in [Images -> SUBSET Contents] /\ \A i \in Images : registry[i] \in served[i]
  BY <1>1
<1>3. env.short => \A u \in env.updates : u.image = spec.image
  BY <1>1 DEF ShortOfOneImage
<1> QED
  BY <1>1, <1>2, <1>3 DEF ImageServed, InRound, Found

(* A spec names an image.                                                  *)
LEMMA ImageOfRound ==
    ASSUME SInv
    PROVE  /\ spec.image \in Images
           /\ round.pc \in InRound => round.spec.image \in Images
<1>1. spec \in Revisions
  BY DEF SInv, Shape
<1>2. round.pc \in InRound => round.spec \in Revisions
  BY DEF SInv, RoundSane, InRound
<1> QED
  BY <1>1, <1>2 DEF Revisions

(* Every step keeps it: the cache reads only a status of its own           *)
(* generation, a shortage only one of the same image.                      *)
LEMMA ServedNext ==
    ASSUME SInv, RoundFollows, ImageServed, [Next]_svars
    PROVE  ImageServed'
<1> USE GenIsNat, ImageOfRound DEF InRound, Found
<1>1. CASE Start
  BY <1>1, StartEffect DEF RoundFollows, ImageServed
<1>2. CASE Inspect
  <2>1. Cached(round.spec, round.status) =>
           status.content # None /\ status.gen = round.spec.gen /\ round.status = status
    BY <1>2, InspectEffect DEF RoundFollows, Cached
  <2> QED
    BY <1>2, <2>1, InspectEffect DEF RoundFollows, ImageServed
<1>3. CASE ReadClaim
  BY <1>3, ReadClaimEffect DEF RoundFollows, ImageServed
<1>4. CASE Allocate
  BY <1>4, AllocateEffect DEF RoundFollows, ImageServed
<1>5. CASE Granted
  BY <1>5, GrantedEffect DEF RoundFollows, ImageServed
<1>6. CASE Shortage
  BY <1>6, ShortageEffect DEF RoundFollows, ImageServed
<1>7. CASE PatchClaim
  BY <1>7, PatchClaimEffect DEF RoundFollows, ImageServed
<1>8. CASE ApplyDeployment
  BY <1>8, ApplyDeploymentEffect DEF RoundFollows, ImageServed
<1>9. CASE Report
  BY <1>9, ReportEffect DEF RoundFollows, ImageServed
<1>10. CASE Crash
  BY <1>10, CrashEffect DEF RoundFollows, ImageServed
<1>11. CASE Update
  <2>1. /\ spec'.gen = spec.gen + 1 /\ ~round'.fresh /\ round'.pc = round.pc
        /\ round'.spec = round.spec /\ round'.content = round.content
        /\ UNCHANGED <<registry, served, deploy, status, env>>
    BY <1>11, UpdateEffect
  <2>2. env.short => spec'.image = spec.image
    BY <1>11, UpdateEffect DEF ImageServed
  <2>3. status'.gen # spec'.gen
    BY <2>1 DEF RoundFollows
  <2> QED
    BY <2>1, <2>2, <2>3 DEF ImageServed
<1>12. CASE Driver
  BY <1>12 DEF Driver, Provide, ExpandFileSystem, ImageServed
<1>13. CASE \E i \in Images, content \in Contents : Retag(i, content)
  <2>1. PICK i \in Images, content \in Contents :
           /\ registry' = [registry EXCEPT ![i] = content]
           /\ served' = [served EXCEPT ![i] = @ \cup {content}]
           /\ UNCHANGED <<spec, claim, deploy, status, round, env>>
    BY <1>13 DEF Retag
  <2>2. registry \in [Images -> Contents] /\ served \in [Images -> SUBSET Contents]
    BY DEF SInv, Shape, ImageServed
  <2>3. /\ served' \in [Images -> SUBSET Contents]
        /\ \A j \in Images : served[j] \subseteq served'[j] /\ registry'[j] \in served'[j]
    BY <2>1, <2>2 DEF ImageServed
  <2> QED
    BY <2>1, <2>3 DEF ImageServed
<1>14. CASE UNCHANGED svars
  BY <1>14 DEF svars, ImageServed
<1> QED
  BY <1>1, <1>2, <1>3, <1>4, <1>5, <1>6, <1>7, <1>8, <1>9, <1>10, <1>11, <1>12, <1>13,
     <1>14 DEF Next, Step

(* The image and the round stay together.                                  *)
THEOREM ImageInvariance ==
    ASSUME ShortOfOneImage
    PROVE  SSpec => [](SInv /\ RoundFollows /\ ImageServed)
<1>1. Init => SInv /\ RoundFollows /\ ImageServed
  BY SInvInit, FollowsInit, ServedInit
<1>2. SInv /\ RoundFollows /\ ImageServed /\ [Next]_svars
         => (SInv /\ RoundFollows /\ ImageServed)'
  BY SInvNext, FollowsNext, ServedNext
<1> QED
  BY <1>1, <1>2, PTL DEF SSpec

(* The Deployment for an image runs a content that this image has named,   *)
(* for every set of images, contents, peers and outages                    *)
(* (cached_image_inspection, verified_image_from_peer).                    *)
THEOREM DeploymentRunsItsImage ==
    ASSUME ShortOfOneImage
    PROVE  SSpec => []RunsItsImage
<1>1. ImageServed => RunsItsImage
  BY DEF ImageServed, RunsItsImage
<1> QED
  BY <1>1, ImageInvariance, PTL
(***************************************************************************)
(* Ready is final.                                                         *)
(***************************************************************************)

(* Without a storage class there are no homes.                             *)
NoOrphanedHome == \A e \in Scenarios : ~e.class => ~e.claim.kept

(* AllocateHome and Allocation for a spec, a content and a claim.          *)
HomeOf(s, c, class) == class /\ (~s.stateless \/ c.kept)
AllocationOf(s, content, c, class) ==
    Retaining(Budget(s) - SizeOf[content], HomeOf(s, c, class), s.rootfs * Gib,
              s.persistent * Gib, c.requested)

(* A status whose Deployment and disk are final: splitting the budget      *)
(* again, from the claim as it is, gives the same split, and the volume    *)
(* has it.                                                                 *)
Settled(st, s, c, d, class) ==
    /\ st.content \in Contents
    /\ SizeOf[st.content] < Budget(s)
    /\ st.writable = Budget(s) - SizeOf[st.content]
    /\ d.checked = s.gen
    /\ d.content = st.content
    /\ d.rootfs = st.rootfs
    /\ AllocationOf(s, st.content, c, class).ok
    /\ AllocationOf(s, st.content, c, class).rootfs = st.rootfs
    /\ IF HomeOf(s, c, class)
         THEN /\ c.kept
              /\ AllocationOf(s, st.content, c, class).persistent = st.persistent
              /\ c.capacity >= st.persistent
         ELSE st.persistent = 0

(* The claim as a round has read it.                                       *)
SameClaim(c, existing) ==
    /\ c.kept = existing.kept
    /\ c.requested = existing.requested
    /\ c.capacity = existing.capacity

(* A round holds the content its cache names and the split of what it has  *)
(* read; and while nothing is pending on the claim it has read, the claim  *)
(* is as read.                                                             *)
RoundSplits ==
    /\ round.pc \in Found =>
          /\ SizeOf[round.content] < Budget(round.spec)
          /\ Cached(round.spec, round.status) => round.content = round.status.content
    /\ round.pc \in Sized =>
          /\ Allocation(round).ok
          /\ round.rootfs = Allocation(round).rootfs
          /\ round.persistent = Allocation(round).persistent
    /\ round.pc \in Measured =>
          /\ ~env.class => ~round.existing.kept
          /\ ~round.existing.kept => round.existing.requested = 0 /\ round.existing.capacity = 0
          /\ /\ env.class
             /\ round.existing.capacity >= round.existing.requested
             /\ ~(round.pc = "deploy" /\ GrowsClaim(round, round.persistent))
             => SameClaim(claim, round.existing)

(* The status says that the spec as it is is ready.                        *)
Ready == status.phase = "ready" /\ status.gen = spec.gen
(* Ready is final: for the status, and for the status that a round is      *)
(* about to report; and a round meanwhile has read the same claim.         *)
DiskSettled ==
    /\ ~env.class => ~claim.kept
    /\ Ready => Settled(status, spec, claim, deploy, env.class)
    /\ Ready /\ round.pc \in Measured => SameClaim(claim, round.existing)
    /\ round.pc = "report" /\ round.fresh /\ round.report.phase = "ready" =>
          Settled(round.report, spec, claim, deploy, env.class)

(* storage_allocation never gives out more than there is.                  *)
LEMMA SplitFits ==
    ASSUME NEW writable \in Int, NEW home \in BOOLEAN, NEW rootfs \in Nat,
           NEW persistent \in Nat
    PROVE  LET a == StorageAllocation(writable, home, rootfs, persistent)
           IN  a.ok => /\ home => a.rootfs + a.persistent <= writable
                       /\ ~home => a.rootfs <= writable
<1>1. MinRootfs \in Nat /\ MaxRootfs \in Nat /\ MinPersistent \in Nat
  BY StorageConstants
<1>2. AutoRootfs(writable, persistent) \in Int
  BY <1>1 DEF AutoRootfs, Low, High, Minus
<1> QED
  BY <1>1, <1>2 DEF StorageAllocation, Split, Refused, Minus

(* Neither does storage_allocation_retaining.                              *)
LEMMA RetainingFits ==
    ASSUME NEW writable \in Int, NEW home \in BOOLEAN, NEW rootfs \in Nat,
           NEW persistent \in Nat, NEW existing \in Nat
    PROVE  LET a == Retaining(writable, home, rootfs, persistent, existing)
           IN  a.ok => /\ home => a.rootfs + a.persistent <= writable
                       /\ ~home => a.rootfs <= writable
<1> DEFINE a == StorageAllocation(writable, home, rootfs, persistent)
<1>1. a.ok \in BOOLEAN /\ a.rootfs \in Int /\ a.persistent \in Int
  BY SplitIsASize
<1>2. a.ok => /\ home => a.rootfs + a.persistent <= writable
              /\ ~home => a.rootfs <= writable
  BY SplitFits
<1> HIDE DEF a
<1>3. Mib \in Nat \ {0}
  BY StorageConstants
<1>4. RoundDown(a.persistent) \in Int /\ RoundDown(a.persistent) <= a.persistent
  <2> DEFINE n == a.persistent
  <2>1. n \in Int
    BY <1>1
  <2> HIDE DEF n
  <2>2. (n \div Mib) * Mib \in Int /\ (n \div Mib) * Mib <= n
    BY <1>3, <2>1, Z3
  <2> QED  BY <2>2 DEF RoundDown, n
<1> DEFINE p == IF home /\ persistent = 0 /\ a.persistent > existing
                  THEN High(RoundDown(a.persistent), existing) ELSE a.persistent
<1>5. p \in Int /\ p <= a.persistent
  BY <1>1, <1>4 DEF High
<1> HIDE DEF p
<1>6. Retaining(writable, home, rootfs, persistent, existing)
        = IF ~a.ok THEN Refused
          ELSE IF home /\ p < existing
            THEN IF persistent # 0 \/ rootfs # 0 \/ writable < existing + MinRootfs
                   THEN Refused ELSE Split(writable - existing, existing)
            ELSE Split(a.rootfs, p)
  BY DEF Retaining, a, p
<1> QED
  BY <1>1, <1>2, <1>5, <1>6 DEF Split, Refused

(* The sizes of an allocation, for every spec, image and claim.            *)
LEMMA AllocationFits ==
    ASSUME NEW s \in Revisions, NEW content \in Contents, NEW c \in Claims,
           NEW class \in BOOLEAN
    PROVE  LET a == AllocationOf(s, content, c, class)
               w == Budget(s) - SizeOf[content]
           IN  /\ w \in Int /\ HomeOf(s, c, class) \in BOOLEAN
               /\ a.ok \in BOOLEAN /\ a.rootfs \in Int /\ a.persistent \in Int
               /\ a.ok /\ HomeOf(s, c, class) =>
                     a.persistent >= c.requested /\ a.rootfs + a.persistent <= w
               /\ a.ok /\ ~HomeOf(s, c, class) => a.rootfs <= w
<1>1. Gib \in Nat /\ SizeOf[content] \in Nat
  BY StorageConstants
<1>2. Budget(s) - SizeOf[content] \in Int /\ s.rootfs * Gib \in Nat /\ s.persistent * Gib \in Nat
  BY <1>1 DEF Budget, Revisions
<1>3. HomeOf(s, c, class) \in BOOLEAN /\ c.requested \in Nat
  BY DEF HomeOf, Claims, Revisions
<1> QED
  BY <1>2, <1>3, RetainingKeeps, RetainingFits DEF AllocationOf

(* The same claim is given the same split.                                 *)
LEMMA SameAllocation ==
    ASSUME NEW s, NEW content, NEW c, NEW d, NEW class, SameClaim(c, d)
    PROVE  /\ AllocationOf(s, content, c, class) = AllocationOf(s, content, d, class)
           /\ HomeOf(s, c, class) = HomeOf(s, d, class)
BY DEF AllocationOf, HomeOf, SameClaim

(* A round's allocation is that of its spec, content and reading.          *)
LEMMA RoundAllocation ==
    /\ Allocation(round) = AllocationOf(round.spec, round.content, round.existing, env.class)
    /\ AllocateHome(round) = HomeOf(round.spec, round.existing, env.class)
BY DEF Allocation, AllocationOf, Writable, AllocateHome, HomeOf

(* It holds at the start.                                                  *)
LEMMA SplitsInit == ASSUME Init PROVE RoundSplits
BY DEF Init, NoRound, RoundSplits, Found, Sized, Measured

(* Types of the claim and of its reading.                                  *)
LEMMA ClaimTypes ==
    ASSUME SInv
    PROVE  /\ claim \in Claims /\ claim.kept \in BOOLEAN
           /\ claim.requested \in Nat /\ claim.capacity \in Nat
           /\ round.existing \in Claims /\ round.existing.kept \in BOOLEAN
           /\ round.existing.requested \in Nat /\ round.existing.capacity \in Nat
           /\ env.class \in BOOLEAN
<1>1. claim \in Claims /\ round.existing \in Claims
  BY DEF SInv, Shape, RoundShape
<1>2. env.class \in BOOLEAN
  BY ScenarioShape DEF SInv, Shape
<1> QED
  BY <1>1, <1>2 DEF Claims

(* A round that goes on with the same claim.                               *)
LEMMA SameRoundSplits ==
    ASSUME SInv, RoundSplits, round.pc \in Sized, round'.pc \in Sized,
           round'.content = round.content, round'.spec = round.spec,
           round'.status = round.status, round'.existing = round.existing,
           round'.rootfs = round.rootfs, round'.persistent = round.persistent,
           UNCHANGED <<claim, env>>, round.pc # "deploy"
    PROVE  RoundSplits'
<1>1. Allocation(round)' = Allocation(round)
  BY DEF Allocation, Writable, AllocateHome
<1>2. GrowsClaim(round, round.persistent)' = GrowsClaim(round, round.persistent)
  BY DEF GrowsClaim, AllocateHome
<1>3. Cached(round.spec, round.status)' <=> Cached(round.spec, round.status)
  BY DEF Cached
<1> QED
  BY <1>1, <1>2, <1>3 DEF RoundSplits, Sized, Found, Measured

(* Every step keeps it: the driver moves only a claim that is pending.     *)
LEMMA SplitsNext ==
    ASSUME SInv, RoundSplits, [Next]_svars
    PROVE  RoundSplits'
<1> USE ClaimTypes DEF Found, Sized, Measured
<1>1. CASE Start
  BY <1>1, StartEffect DEF RoundSplits
<1>2. CASE Inspect
  BY <1>2, InspectEffect DEF RoundSplits
<1>3. CASE ReadClaim
  <2>1. NoClaim.kept = FALSE /\ NoClaim.requested = 0 /\ NoClaim.capacity = 0
    BY DEF NoClaim
  <2> QED
    BY <1>3, <2>1, ReadClaimEffect DEF RoundSplits, SInv, ClaimSane, SameClaim
<1>4. CASE Allocate
  <2>1. CASE round'.pc = "report"
    BY <2>1 DEF RoundSplits
  <2>2. CASE round'.pc # "report"
    <3>1. /\ round.pc = "allocate" /\ round'.pc = "capacity" /\ Allocation(round).ok
          /\ round'.content = round.content /\ round'.spec = round.spec
          /\ round'.status = round.status /\ round'.existing = round.existing
          /\ round'.rootfs = Allocation(round).rootfs
          /\ round'.persistent = Allocation(round).persistent
          /\ UNCHANGED <<claim, env>>
      BY <1>4, <2>2, AllocateEffect
    <3>2. Allocation(round)' = Allocation(round)
      BY <3>1 DEF Allocation, Writable, AllocateHome
    <3> QED
      BY <3>1, <3>2 DEF RoundSplits
  <2> QED
    BY <2>1, <2>2
<1>5. CASE Granted
  BY <1>5, GrantedEffect, SameRoundSplits
<1>6. CASE Shortage
  BY <1>6, ShortageEffect DEF RoundSplits
<1>7. CASE PatchClaim
  <2>1. CASE round'.pc = "idle"
    BY <2>1 DEF RoundSplits
  <2>2. CASE ~GrowsClaim(round, round.persistent) /\ round'.pc # "idle"
    BY <1>7, <2>2, PatchClaimEffect, SameRoundSplits
  <2>3. CASE GrowsClaim(round, round.persistent) /\ round'.pc # "idle"
    <3>1. /\ round.pc = "volume" /\ round'.pc = "deploy" /\ round'.content = round.content
          /\ round'.spec = round.spec /\ round'.status = round.status
          /\ round'.existing = round.existing /\ round'.rootfs = round.rootfs
          /\ round'.persistent = round.persistent /\ env' = env
      BY <1>7, <2>3, PatchClaimEffect
    <3>2. Allocation(round)' = Allocation(round)
      BY <3>1 DEF Allocation, Writable, AllocateHome
    <3>3. GrowsClaim(round, round.persistent)' = GrowsClaim(round, round.persistent)
      BY <3>1 DEF GrowsClaim, AllocateHome
    <3> QED
      BY <2>3, <3>1, <3>2, <3>3 DEF RoundSplits
  <2> QED
    BY <2>1, <2>2, <2>3
<1>8. CASE ApplyDeployment
  BY <1>8, ApplyDeploymentEffect DEF RoundSplits
<1>9. CASE Report
  BY <1>9, ReportEffect DEF RoundSplits
<1>10. CASE Crash
  BY <1>10, CrashEffect DEF RoundSplits
<1>11. CASE Update
  <2>1. /\ round'.pc = round.pc /\ round'.content = round.content
        /\ round'.spec = round.spec /\ round'.status = round.status
        /\ round'.existing = round.existing /\ round'.rootfs = round.rootfs
        /\ round'.persistent = round.persistent /\ UNCHANGED <<claim, env>>
    BY <1>11, UpdateEffect
  <2>2. Allocation(round)' = Allocation(round)
    BY <2>1 DEF Allocation, Writable, AllocateHome
  <2>3. GrowsClaim(round, round.persistent)' = GrowsClaim(round, round.persistent)
    BY <2>1 DEF GrowsClaim, AllocateHome
  <2> QED
    BY <2>1, <2>2, <2>3 DEF RoundSplits
<1>12. CASE Provide
  <2>1. round' = round /\ env' = env /\ claim.capacity < claim.requested
    BY <1>12 DEF Provide
  <2>2. ~SameClaim(claim, round.existing) \/ ~(round.existing.capacity >= round.existing.requested)
    BY <2>1 DEF SameClaim
  <2>3. Allocation(round)' = Allocation(round)
        /\ GrowsClaim(round, round.persistent)' = GrowsClaim(round, round.persistent)
    BY <2>1 DEF Allocation, Writable, AllocateHome, GrowsClaim
  <2> QED
    BY <2>1, <2>2, <2>3 DEF RoundSplits
<1>13. CASE ExpandFileSystem
  <2>1. /\ round' = round /\ env' = env /\ claim'.kept = claim.kept
        /\ claim'.requested = claim.requested /\ claim'.capacity = claim.capacity
    BY <1>13 DEF ExpandFileSystem, Claims
  <2>2. Allocation(round)' = Allocation(round)
        /\ GrowsClaim(round, round.persistent)' = GrowsClaim(round, round.persistent)
    BY <2>1 DEF Allocation, Writable, AllocateHome, GrowsClaim
  <2> QED
    BY <2>1, <2>2 DEF RoundSplits, SameClaim
<1>14. CASE UNCHANGED <<round, env, claim>>
  <2>1. Allocation(round)' = Allocation(round)
        /\ GrowsClaim(round, round.persistent)' = GrowsClaim(round, round.persistent)
    BY <1>14 DEF Allocation, Writable, AllocateHome, GrowsClaim
  <2> QED
    BY <1>14, <2>1 DEF RoundSplits
<1>15. (\E i \in Images, content \in Contents : Retag(i, content)) \/ UNCHANGED svars
         => UNCHANGED <<round, env, claim>>
  BY DEF Retag, svars
<1> QED
  BY <1>1, <1>2, <1>3, <1>4, <1>5, <1>6, <1>7, <1>8, <1>9, <1>10, <1>11, <1>12, <1>13,
     <1>14, <1>15 DEF Next, Step, Driver

(* It holds at the start.                                                  *)
LEMMA SettledInit == ASSUME NoOrphanedHome, Init PROVE DiskSettled
<1>1. status.phase = "new" /\ round.pc = "idle" /\ claim = env.claim /\ env \in Scenarios
  BY DEF Init, NoStatus, NoRound
<1> QED
  BY <1>1 DEF NoOrphanedHome, DiskSettled, Ready, Measured

(* A final disk is provided, so the driver has nothing to do.              *)
LEMMA SettledProvided ==
    ASSUME SInv, DiskSettled, NEW st,
           Settled(st, spec, claim, deploy, env.class)
    PROVE  claim.capacity >= claim.requested
<1>1. spec \in Revisions /\ st.content \in Contents
  BY DEF SInv, Shape, Settled
<1> DEFINE a == AllocationOf(spec, st.content, claim, env.class)
<1>2. /\ a.persistent \in Int
      /\ a.ok /\ HomeOf(spec, claim, env.class) => a.persistent >= claim.requested
  BY <1>1, ClaimTypes, AllocationFits
<1>3. a.ok
  BY DEF Settled
<1> HIDE DEF a
<1>4. CASE HomeOf(spec, claim, env.class)
  <2>1. a.persistent = st.persistent /\ claim.capacity >= st.persistent
    BY <1>4 DEF Settled, a
  <2> QED
    BY <1>2, <1>3, <1>4, <2>1, ClaimTypes
<1>5. CASE ~HomeOf(spec, claim, env.class)
  <2>1. ~claim.kept
    BY <1>5 DEF HomeOf, DiskSettled
  <2> QED
    BY <2>1 DEF SInv, ClaimSane
<1> QED
  BY <1>4, <1>5

(* A round over a final disk finds the content in the cache, the same      *)
(* split, and no reason to grow the claim.                                 *)
LEMMA ReadyRound ==
    ASSUME SInv, RoundFollows, RoundSplits, DiskSettled, Ready, round.pc \in Sized
    PROVE  /\ round.spec = spec /\ round.content = status.content
           /\ round.rootfs = status.rootfs
           /\ ~GrowsClaim(round, round.persistent)
<1>1. Settled(status, spec, claim, deploy, env.class) /\ SameClaim(claim, round.existing)
  BY DEF DiskSettled, Sized, Measured
<1>2. round.spec = spec /\ round.status = status
  <2>1. round.pc \in InRound
    BY DEF Sized, InRound
  <2> QED
    BY <2>1, GenIsNat DEF RoundFollows, Ready
<1>3. round.content = status.content
  <2>1. Cached(spec, status)
    BY <1>1, StorageConstants DEF Settled, Cached, Ready
  <2> QED
    BY <1>2, <2>1 DEF RoundSplits, Sized, Found
<1> DEFINE a == AllocationOf(spec, status.content, claim, env.class)
<1>4. Allocation(round) = a /\ AllocateHome(round) = HomeOf(spec, claim, env.class)
  BY <1>1, <1>2, <1>3, RoundAllocation, SameAllocation
<1>5. round.rootfs = a.rootfs /\ round.persistent = a.persistent
  BY <1>4 DEF RoundSplits
<1>6. /\ a.rootfs = status.rootfs
      /\ HomeOf(spec, claim, env.class) =>
            claim.kept /\ a.persistent = status.persistent /\ claim.capacity >= status.persistent
      /\ a.persistent \in Int
  <2>1. status.content \in Contents /\ spec \in Revisions
    BY <1>1 DEF SInv, Shape, Settled
  <2> QED
    BY <1>1, <2>1, ClaimTypes, AllocationFits DEF Settled
<1> HIDE DEF a
<1>7. ~GrowsClaim(round, round.persistent)
  BY <1>1, <1>4, <1>5, <1>6, ClaimTypes DEF GrowsClaim, NeedsUpdate, High, SameClaim
<1> QED
  BY <1>2, <1>3, <1>5, <1>6, <1>7

(* A step that touches neither disk nor Deployment and reports nothing     *)
(* ready.                                                                  *)
LEMMA QuietKeepsSettled ==
    ASSUME DiskSettled, UNCHANGED <<spec, claim, deploy, status, env>>,
           round'.pc \notin Measured \/ (round.pc \in Measured /\ round'.existing = round.existing),
           round'.pc = "report" /\ round'.fresh => round'.report.phase # "ready"
    PROVE  DiskSettled'
BY DEF DiskSettled, Ready

(* A round that reports ready leaves a final disk: ready excludes a        *)
(* pending resize, so the claim is as read and is not patched.             *)
LEMMA DeployedSettled ==
    ASSUME SInv, RoundFollows, RoundSplits, DiskSettled, ApplyDeployment,
           round'.fresh, round'.report.phase = "ready"
    PROVE  Settled(round'.report, spec, claim, deploy', env.class)
<1>1. /\ round.pc = "deploy" /\ round.fresh
      /\ deploy'.checked = round.spec.gen /\ deploy'.content = round.content
      /\ deploy'.rootfs = round.rootfs
      /\ round'.report.content = round.content /\ round'.report.writable = Writable(round)
      /\ round'.report.rootfs = round.rootfs
      /\ round'.report.persistent = IF AllocateHome(round) THEN round.persistent ELSE 0
      /\ ~(AllocateHome(round) /\ ResizePending(round.existing, round.persistent))
  BY ApplyDeploymentEffect
<1>2. round.spec = spec /\ spec \in Revisions /\ round.content \in Contents
  BY <1>1 DEF RoundFollows, InRound, SInv, Shape, RoundSane
<1> DEFINE a == Allocation(round)
           home == AllocateHome(round)
<1>3. /\ a.ok /\ round.rootfs = a.rootfs /\ round.persistent = a.persistent
      /\ SizeOf[round.content] < Budget(spec)
  BY <1>1, <1>2 DEF RoundSplits, Sized, Found
<1>4. /\ a.persistent \in Int /\ home \in BOOLEAN
      /\ home => a.persistent >= round.existing.requested
  BY <1>2, <1>3, ClaimTypes, RoundAllocation, AllocationFits
<1>5. home => /\ round.existing.kept
              /\ round.existing.capacity >= round.persistent
  BY <1>1, <1>3, <1>4, ClaimTypes DEF ResizePending
<1>6. ~GrowsClaim(round, round.persistent)
  BY <1>3, <1>4, <1>5, ClaimTypes DEF GrowsClaim, NeedsUpdate, High
<1>7. SameClaim(claim, round.existing)
  <2>1. ~home => ~round.existing.kept
    BY <1>1 DEF AllocateHome, RoundSplits, Measured
  <2>2. round.existing.capacity >= round.existing.requested
    <3>1. CASE home
      BY <1>3, <1>4, <1>5, <3>1, ClaimTypes
    <3>2. CASE ~home
      BY <1>1, <2>1, <3>2 DEF RoundSplits, Measured
    <3> QED  BY <3>1, <3>2
  <2>3. CASE env.class
    BY <1>1, <1>6, <2>2, <2>3 DEF RoundSplits, Measured
  <2>4. CASE ~env.class
    <3>1. ~claim.kept /\ ~round.existing.kept
      BY <1>1, <2>4 DEF DiskSettled, RoundSplits, Measured
    <3>2. /\ claim.requested = 0 /\ claim.capacity = 0
          /\ round.existing.requested = 0 /\ round.existing.capacity = 0
      BY <1>1, <3>1 DEF SInv, ClaimSane, RoundSplits, Measured
    <3> QED  BY <3>1, <3>2, ClaimTypes DEF SameClaim
  <2> QED  BY <2>3, <2>4, ClaimTypes
<1>8. /\ AllocationOf(spec, round.content, claim, env.class) = a
      /\ HomeOf(spec, claim, env.class) = home
  BY <1>2, <1>7, RoundAllocation, SameAllocation
<1>9. Writable(round) = Budget(spec) - SizeOf[round.content]
  BY <1>2 DEF Writable
<1>10. home => claim.kept /\ claim.capacity >= round.persistent
  BY <1>5, <1>7 DEF SameClaim
<1> HIDE DEF a, home
<1>11. round'.report.persistent = IF home THEN round.persistent ELSE 0
  BY <1>1 DEF home
<1> QED
  BY <1>1, <1>2, <1>3, <1>8, <1>9, <1>10, <1>11 DEF Settled

(* Every step keeps it.                                                    *)
LEMMA SettledNext ==
    ASSUME SInv, RoundFollows, RoundSplits, DiskSettled, [Next]_svars
    PROVE  DiskSettled'
<1> USE ClaimTypes DEF Measured
<1>1. CASE Start
  BY <1>1, StartEffect, QuietKeepsSettled
<1>2. CASE Inspect
  BY <1>2, InspectEffect, QuietKeepsSettled
<1>3. CASE ReadClaim
  <2>1. /\ round'.pc = "allocate" /\ UNCHANGED <<spec, claim, deploy, status, env>>
        /\ round'.existing = IF env.class THEN claim ELSE NoClaim
    BY <1>3, ReadClaimEffect
  <2>2. ~env.class => SameClaim(claim, NoClaim)
    BY DEF DiskSettled, SInv, ClaimSane, SameClaim, NoClaim
  <2>3. SameClaim(claim', round'.existing)
    BY <2>1, <2>2 DEF SameClaim
  <2> QED
    BY <2>1, <2>3 DEF DiskSettled, Ready
<1>4. CASE Allocate
  BY <1>4, AllocateEffect, QuietKeepsSettled
<1>5. CASE Granted
  BY <1>5, GrantedEffect, QuietKeepsSettled
<1>6. CASE Shortage
  BY <1>6, ShortageEffect, QuietKeepsSettled
<1>7. CASE PatchClaim
  <2>1. CASE UNCHANGED claim
    <3>1. round'.pc = "idle" \/ (round'.pc = "deploy" /\ round.pc = "volume"
                                  /\ round'.existing = round.existing)
      BY <1>7, PatchClaimEffect
    <3>2. UNCHANGED <<spec, claim, deploy, status, env>>
      BY <1>7, <2>1, PatchClaimEffect
    <3> QED
      BY <3>1, <3>2, QuietKeepsSettled
  <2>2. CASE claim' # claim
    <3>1. /\ round.pc = "volume" /\ GrowsClaim(round, round.persistent)
          /\ round'.pc = "deploy" /\ UNCHANGED <<spec, deploy, status, env>>
      BY <1>7, <2>2, PatchClaimEffect
    <3>2. ~Ready
      BY <3>1, ReadyRound DEF Sized
    <3>3. env.class
      BY <3>1 DEF GrowsClaim, AllocateHome
    <3> QED
      BY <3>1, <3>2, <3>3 DEF DiskSettled, Ready
  <2> QED
    BY <2>1, <2>2
<1>8. CASE ApplyDeployment
  <2>1. /\ round.pc = "deploy" /\ round'.pc = "report"
        /\ deploy'.checked = round.spec.gen /\ deploy'.content = round.content
        /\ deploy'.rootfs = round.rootfs /\ UNCHANGED <<spec, claim, status, env>>
    BY <1>8, ApplyDeploymentEffect
  <2>2. Ready => Settled(status, spec, claim, deploy', env.class)
    <3> SUFFICES ASSUME Ready PROVE Settled(status, spec, claim, deploy', env.class)
      OBVIOUS
    <3>1. /\ round.spec = spec /\ round.content = status.content
          /\ round.rootfs = status.rootfs
      BY <2>1, ReadyRound DEF Sized
    <3>2. Settled(status, spec, claim, deploy, env.class)
      BY DEF DiskSettled
    <3> QED
      BY <2>1, <3>1, <3>2 DEF Settled
  <2>3. round'.fresh /\ round'.report.phase = "ready" =>
           Settled(round'.report, spec, claim, deploy', env.class)
    BY <1>8, DeployedSettled
  <2> QED
    BY <2>1, <2>2, <2>3 DEF DiskSettled, Ready
<1>9. CASE Report
  <2>1. /\ round.pc = "report" /\ round'.pc = "idle"
        /\ status' = IF round.fresh THEN round.report ELSE status
        /\ UNCHANGED <<spec, claim, deploy, env>>
    BY <1>9, ReportEffect
  <2> QED
    BY <2>1 DEF DiskSettled, Ready
<1>10. CASE Crash
  BY <1>10, CrashEffect, QuietKeepsSettled
<1>11. CASE Update
  <2>1. /\ spec'.gen = spec.gen + 1 /\ ~round'.fresh /\ UNCHANGED <<claim, deploy, status, env>>
    BY <1>11, UpdateEffect
  <2>2. ~Ready'
    BY <2>1, GenIsNat DEF Ready, RoundFollows
  <2> QED
    BY <2>1, <2>2 DEF DiskSettled
<1>12. CASE Provide
  <2>1. /\ claim.capacity < claim.requested /\ claim.kept
        /\ UNCHANGED <<spec, deploy, status, round, env>>
    BY <1>12 DEF Provide
  <2>2. ~Ready /\ ~(round.pc = "report" /\ round.fresh /\ round.report.phase = "ready")
    BY <2>1, SettledProvided DEF DiskSettled
  <2> QED
    BY <2>1, <2>2 DEF DiskSettled, Ready
<1>13. CASE ExpandFileSystem
  <2>1. /\ claim'.kept = claim.kept /\ claim'.requested = claim.requested
        /\ claim'.capacity = claim.capacity
        /\ UNCHANGED <<spec, deploy, status, round, env>>
    BY <1>13 DEF ExpandFileSystem, Claims
  <2>2. \A st, d : Settled(st, spec, claim, d, env.class)
                     => Settled(st, spec, claim', d, env.class)
    BY <2>1 DEF Settled, AllocationOf, HomeOf
  <2> QED
    BY <2>1, <2>2 DEF DiskSettled, Ready, SameClaim
<1>14. CASE \E i \in Images, content \in Contents : Retag(i, content)
  BY <1>14 DEF Retag, DiskSettled, Ready
<1>15. CASE UNCHANGED svars
  BY <1>15 DEF svars, DiskSettled, Ready
<1> QED
  BY <1>1, <1>2, <1>3, <1>4, <1>5, <1>6, <1>7, <1>8, <1>9, <1>10, <1>11, <1>12, <1>13,
     <1>14, <1>15 DEF Next, Step, Driver

(* What is reported ready is final.                                        *)
THEOREM DiskInvariance ==
    ASSUME NoOrphanedHome
    PROVE  SSpec => [](SInv /\ RoundFollows /\ RoundSplits /\ DiskSettled)
<1>1. Init => SInv /\ RoundFollows /\ RoundSplits /\ DiskSettled
  BY SInvInit, FollowsInit, SplitsInit, SettledInit
<1>2. SInv /\ RoundFollows /\ RoundSplits /\ DiskSettled /\ [Next]_svars
         => (SInv /\ RoundFollows /\ RoundSplits /\ DiskSettled)'
  BY SInvNext, FollowsNext, SplitsNext, SettledNext
<1> QED
  BY <1>1, <1>2, PTL DEF SSpec

(* A revision that is reported ready has its Deployment and its disk, and  *)
(* both fit together in what the image leaves of the budget, for every     *)
(* budget, image, minimum, rounding and sequence of revisions              *)
(* (persistent_resize_pending, storage_allocation_retaining).              *)
THEOREM ReadyMeansItFits ==
    ASSUME NoOrphanedHome
    PROVE  SSpec => []ReadyFits
<1>1. SInv /\ DiskSettled => ReadyFits
  <2> SUFFICES ASSUME SInv, DiskSettled, Ready
               PROVE  /\ deploy.checked = spec.gen
                      /\ status.persistent # 0 => claim.capacity >= status.persistent
                      /\ deploy.rootfs + claim.requested
                           <= Budget(spec) - SizeOf[deploy.content]
    BY DEF ReadyFits, Ready
  <2>1. Settled(status, spec, claim, deploy, env.class)
    BY DEF DiskSettled
  <2>2. spec \in Revisions /\ status.content \in Contents
    BY <2>1 DEF SInv, Shape, Settled
  <2> DEFINE a == AllocationOf(spec, status.content, claim, env.class)
             w == Budget(spec) - SizeOf[status.content]
             home == HomeOf(spec, claim, env.class)
  <2>3. /\ w \in Int /\ a.rootfs \in Int /\ a.persistent \in Int
        /\ home => a.persistent >= claim.requested /\ a.rootfs + a.persistent <= w
        /\ ~home => a.rootfs <= w
    BY <2>1, <2>2, ClaimTypes, AllocationFits DEF Settled
  <2>4. /\ deploy.checked = spec.gen /\ deploy.content = status.content
        /\ deploy.rootfs = a.rootfs
        /\ home => claim.capacity >= status.persistent
        /\ ~home => status.persistent = 0
    BY <2>1 DEF Settled
  <2>5. ~home => claim.requested = 0
    BY DEF HomeOf, DiskSettled, SInv, ClaimSane
  <2> HIDE DEF a, w, home
  <2>6. deploy.rootfs + claim.requested <= w
    BY <2>3, <2>4, <2>5, ClaimTypes
  <2> QED
    BY <2>4, <2>6 DEF w
<1> QED
  BY <1>1, DiskInvariance, PTL

(***************************************************************************)
(* The split is not redone.                                                *)
(***************************************************************************)

(* Tags are not moved.  A tag that is moved and moved back while a round   *)
(* crashes may have grown the home for the other content.                  *)
FixedTags == \A e \in Scenarios : ~e.retags
(* The home of before is provided, or was requested in whole MiB;          *)
(* otherwise the driver's rounding may exceed what the split foresaw.      *)
WholeHomes ==
    \A e \in Scenarios : \/ e.claim.capacity >= e.claim.requested
                         \/ RoundUp(e.claim.requested) = e.claim.requested

(* The same of the claim as it is: the driver has nothing to round up.     *)
ClaimWhole == claim.capacity >= claim.requested \/ RoundUp(claim.requested) = claim.requested

(* The Deployment that was made for a spec has the split that another      *)
(* round over the claim would give.                                        *)
Placed(s, content, d, c, class) ==
    d.checked = s.gen =>
        /\ d.content = content
        /\ d.home = (class /\ ~s.stateless)
        /\ AllocationOf(s, content, c, class).ok =>
              AllocationOf(s, content, c, class).rootfs = d.rootfs

(* The Deployment has the split of its revision, for the spec as it is and *)
(* for the spec of a round in progress.                                    *)
Standing ==
    /\ \A i \in Images : served[i] = {registry[i]}
    /\ ClaimWhole
    /\ deploy.content # None =>
          /\ deploy.checked \in Nat /\ deploy.checked <= spec.gen
          /\ Placed(spec, registry[spec.image], deploy, claim, env.class)
          /\ round.pc \in InRound =>
                /\ deploy.checked <= round.spec.gen
                /\ Placed(round.spec, registry[round.spec.image], deploy, claim, env.class)

(* The claim, patched by the round or not, is given the split that the     *)
(* round has computed from its reading.                                    *)
Steady ==
    /\ round.pc \in Measured =>
          AllocationOf(round.spec, round.content, claim, env.class)
            = AllocationOf(round.spec, round.content, round.existing, env.class)
    /\ round.pc \in {"allocate", "capacity", "volume"} /\ env.class =>
          claim.kept = round.existing.kept /\ claim.requested = round.existing.requested

(* storage_allocation_retaining is idempotent: given the home that it has  *)
(* granted, it grants the same split.                                      *)
LEMMA RetainingIdempotent ==
    ASSUME NEW writable \in Int, NEW home \in BOOLEAN, NEW rootfs \in Nat,
           NEW persistent \in Nat, NEW existing \in Nat
    PROVE  LET a == Retaining(writable, home, rootfs, persistent, existing)
           IN  a.ok /\ home =>
                 Retaining(writable, home, rootfs, persistent, a.persistent) = a
<1> DEFINE b == StorageAllocation(writable, home, rootfs, persistent)
           down == RoundDown(b.persistent)
           p(e) == IF home /\ persistent = 0 /\ b.persistent > e
                     THEN High(down, e) ELSE b.persistent
           a == Retaining(writable, home, rootfs, persistent, existing)
<1>1. b.ok \in BOOLEAN /\ b.rootfs \in Int /\ b.persistent \in Int
  BY SplitIsASize
<1>2. Mib \in Nat \ {0} /\ MinRootfs \in Nat
  BY StorageConstants
<1>3. \A e : Retaining(writable, home, rootfs, persistent, e)
        = IF ~b.ok THEN Refused
          ELSE IF home /\ p(e) < e
            THEN IF persistent # 0 \/ rootfs # 0 \/ writable < e + MinRootfs
                   THEN Refused ELSE Split(writable - e, e)
            ELSE Split(b.rootfs, p(e))
  BY DEF Retaining
<1> HIDE DEF b
<1>4. down \in Int /\ down <= b.persistent
  <2> DEFINE n == b.persistent
  <2>1. n \in Int
    BY <1>1
  <2> HIDE DEF n
  <2>2. (n \div Mib) * Mib \in Int /\ (n \div Mib) * Mib <= n
    BY <1>2, <2>1, Z3
  <2> QED  BY <2>2 DEF RoundDown, n
<1> HIDE DEF down
<1>5. a = IF ~b.ok THEN Refused
          ELSE IF home /\ p(existing) < existing
            THEN IF persistent # 0 \/ rootfs # 0 \/ writable < existing + MinRootfs
                   THEN Refused ELSE Split(writable - existing, existing)
            ELSE Split(b.rootfs, p(existing))
  BY <1>3
<1> HIDE DEF a
<1> SUFFICES ASSUME a.ok, home
             PROVE  Retaining(writable, home, rootfs, persistent, a.persistent) = a
  BY DEF a
<1>6. b.ok
  BY <1>1, <1>5 DEF Refused
<1>7. CASE p(existing) < existing
  <2>1. a = Split(writable - existing, existing) /\ a.persistent = existing
    BY <1>5, <1>6, <1>7 DEF Split, Refused
  <2> QED
    BY <2>1 DEF a
<1>8. CASE ~(p(existing) < existing)
  <2> DEFINE q == p(existing)
  <2>1. a = Split(b.rootfs, q) /\ a.persistent = q
    BY <1>5, <1>6, <1>8 DEF Split
  <2>2. q \in Int /\ p(q) = q
    BY <1>1, <1>4 DEF High
  <2>3. Retaining(writable, home, rootfs, persistent, q) = Split(b.rootfs, p(q))
    <3>1. ~(p(q) < q)
      BY <2>2
    <3>2. Retaining(writable, home, rootfs, persistent, q)
            = IF ~b.ok THEN Refused
              ELSE IF home /\ p(q) < q
                THEN IF persistent # 0 \/ rootfs # 0 \/ writable < q + MinRootfs
                       THEN Refused ELSE Split(writable - q, q)
                ELSE Split(b.rootfs, p(q))
      BY <1>3
    <3> HIDE DEF p, q
    <3> QED  BY <1>6, <3>1, <3>2
  <2> HIDE DEF q, p
  <2> QED
    BY <2>1, <2>2, <2>3
<1> QED
  BY <1>7, <1>8

(* A home grows only to whole MiB.                                         *)
LEMMA GrowthIsWhole ==
    ASSUME NEW writable \in Int, NEW rootfs \in Nat, NEW n \in Nat, NEW existing \in Nat,
           LET a == Retaining(writable, TRUE, rootfs, n * Gib, existing)
           IN  a.ok /\ a.persistent > existing
    PROVE  LET a == Retaining(writable, TRUE, rootfs, n * Gib, existing)
           IN  RoundUp(a.persistent) = a.persistent
<1> DEFINE persistent == n * Gib
           b == StorageAllocation(writable, TRUE, rootfs, persistent)
           down == RoundDown(b.persistent)
           p == IF persistent = 0 /\ b.persistent > existing
                  THEN High(down, existing) ELSE b.persistent
           a == Retaining(writable, TRUE, rootfs, persistent, existing)
<1>1. Mib \in Nat \ {0} /\ MinRootfs \in Nat /\ Gib \in Nat /\ Gib % Mib = 0 /\ persistent \in Nat
  BY StorageConstants
<1>2. b.ok \in BOOLEAN /\ b.rootfs \in Int /\ b.persistent \in Int
  BY <1>1, SplitIsASize
<1>3. a = IF ~b.ok THEN Refused
          ELSE IF p < existing
            THEN IF persistent # 0 \/ rootfs # 0 \/ writable < existing + MinRootfs
                   THEN Refused ELSE Split(writable - existing, existing)
            ELSE Split(b.rootfs, p)
  BY DEF Retaining
<1>4. persistent # 0 /\ b.ok => b.persistent = persistent
  BY <1>1 DEF StorageAllocation, Split, Refused
<1>5. PICK k \in Int : down = k * Mib
  <2>1. b.persistent \div Mib \in Int
    <3> HIDE DEF b
    <3> QED  BY <1>1, <1>2
  <2> QED  BY <2>1 DEF RoundDown
<1>6. PICK j \in Int : persistent = j * Mib
  <2>1. Gib = (Gib \div Mib) * Mib /\ Gib \div Mib \in Int
    BY <1>1, Z3
  <2>2. PICK g \in Int : Gib = g * Mib
    BY <2>1
  <2>3. n * Gib = (n * g) * Mib /\ n * g \in Int
    BY <1>1, <2>2, Z3
  <2> QED  BY <2>3
<1>7. \A k2 \in Int : RoundUp(k2 * Mib) = k2 * Mib
  <2> SUFFICES ASSUME NEW k2 \in Int PROVE (k2 * Mib + Mib - 1) \div Mib = k2
    BY DEF RoundUp
  <2> QED  BY <1>1, Z3
<1>8. a.ok /\ a.persistent > existing
  OBVIOUS
<1> HIDE DEF a, b, down, persistent
<1>9. a.persistent = p /\ p > existing /\ b.ok
  BY <1>1, <1>2, <1>3, <1>8 DEF Split, Refused
<1>10. p = down \/ p = persistent
  BY <1>1, <1>2, <1>4, <1>5, <1>9 DEF High
<1>11. RoundUp(p) = p
  BY <1>5, <1>6, <1>7, <1>10
<1> QED
  BY <1>9, <1>11 DEF a, persistent

(* The split depends on the claim's existence and its request only, and on *)
(* neither without a storage class.                                        *)
LEMMA SameRequest ==
    ASSUME NEW s, NEW content, NEW c, NEW d, NEW class,
           class => c.kept = d.kept /\ c.requested = d.requested
    PROVE  AllocationOf(s, content, c, class) = AllocationOf(s, content, d, class)
<1>1. CASE class
  BY <1>1 DEF AllocationOf, HomeOf
<1>2. CASE ~class
  <2>1. HomeOf(s, c, class) = FALSE /\ HomeOf(s, d, class) = FALSE
    BY <1>2 DEF HomeOf
  <2>2. \A w, r, p, e, f : Retaining(w, FALSE, r, p, e) = Retaining(w, FALSE, r, p, f)
    BY DEF Retaining
  <2> QED
    BY <2>1, <2>2 DEF AllocationOf
<1> QED
  BY <1>1, <1>2

(* The patch leaves a claim that is given the same split again.            *)
LEMMA PatchEffect ==
    ASSUME SInv, RoundSplits, PatchClaim, claim' # claim
    PROVE  /\ round.pc = "volume" /\ env.class
           /\ claim'.kept /\ claim'.requested = round.persistent
           /\ claim'.capacity = claim.capacity
           /\ RoundUp(claim'.requested) = claim'.requested
           /\ AllocationOf(round.spec, round.content, claim', env.class) = Allocation(round)
<1>1. /\ round.pc = "volume" /\ AllocateHome(round)
      /\ NeedsUpdate(round.existing, round.persistent)
      /\ claim' = [claim EXCEPT !.kept = TRUE, !.requested = round.persistent]
  BY DEF PatchClaim, GrowsClaim
<1>2. /\ claim'.kept = TRUE /\ claim'.requested = round.persistent
      /\ claim'.capacity = claim.capacity
  BY <1>1, ClaimTypes DEF Claims
<1>3. /\ round.spec \in Revisions /\ round.content \in Contents
      /\ round.existing.requested \in Nat
  BY <1>1, ClaimTypes DEF SInv, RoundSane
<1> DEFINE w == Budget(round.spec) - SizeOf[round.content]
           r == round.spec.rootfs * Gib
           n == round.spec.persistent
           e == round.existing.requested
           a == Retaining(w, TRUE, r, n * Gib, e)
<1>4. w \in Int /\ r \in Nat /\ n \in Nat /\ n * Gib \in Nat /\ e \in Nat
  <2>1. Gib \in Nat /\ SizeOf[round.content] \in Nat
    BY <1>3, StorageConstants
  <2> QED
    BY <1>3, <2>1 DEF Budget, Revisions
<1>5. env.class = TRUE /\ HomeOf(round.spec, round.existing, env.class) = TRUE
  BY <1>1, ClaimTypes DEF AllocateHome, HomeOf
<1>6. Allocation(round) = a
  BY <1>5, RoundAllocation DEF AllocationOf
<1>7. HomeOf(round.spec, claim', env.class) = TRUE
  BY <1>2, <1>5 DEF HomeOf
<1>8. AllocationOf(round.spec, round.content, claim', env.class)
         = Retaining(w, TRUE, r, n * Gib, round.persistent)
  BY <1>2, <1>7 DEF AllocationOf
<1>9. a.ok /\ round.persistent = a.persistent
  BY <1>1, <1>6 DEF RoundSplits, Sized
<1>10. Retaining(w, TRUE, r, n * Gib, a.persistent) = a
  BY <1>4, <1>9, RetainingIdempotent, ZenonT(40)
<1>11. a.persistent \in Int /\ a.persistent >= e
  BY <1>4, <1>9, RetainingKeeps
<1>12. a.persistent > e \/ a.persistent = 0
  <2>1. CASE round.existing.kept
    <3>1. round.persistent > High(e, round.existing.capacity)
      BY <1>1, <2>1 DEF NeedsUpdate
    <3> HIDE DEF a, e
    <3> QED
      BY <1>4, <1>9, <1>11, <3>1, ClaimTypes DEF High
  <2>2. CASE ~round.existing.kept
    <3>1. e = 0
      BY <1>1, <2>2 DEF RoundSplits, Measured
    <3> HIDE DEF a, e
    <3> QED
      BY <1>4, <1>11, <3>1
  <2> QED
    BY <2>1, <2>2
<1>13. RoundUp(a.persistent) = a.persistent
  <2>1. CASE a.persistent > e
    BY <1>4, <1>9, <2>1, GrowthIsWhole, ZenonT(40)
  <2>2. CASE a.persistent = 0
    <3>1. Mib \in Nat \ {0}
      BY StorageConstants
    <3>2. RoundUp(0) = 0
      BY <3>1, Z3 DEF RoundUp
    <3> QED
      BY <2>2, <3>2
  <2> QED
    BY <1>12, <2>1, <2>2
<1> HIDE DEF a
<1> QED
  BY <1>1, <1>2, <1>5, <1>6, <1>8, <1>9, <1>10, <1>13

(* The driver leaves the request of a whole claim alone.                   *)
LEMMA ProvideWhole ==
    ASSUME SInv, ClaimWhole, Provide
    PROVE  /\ claim'.requested = claim.requested /\ claim'.kept = claim.kept
           /\ claim'.capacity >= claim'.requested
           /\ UNCHANGED <<spec, registry, served, deploy, status, round, env>>
<1>1. /\ claim' \in Claims /\ claim.kept /\ claim'.kept /\ claim'.capacity >= claim'.requested
      /\ claim.capacity < claim.requested
      /\ UNCHANGED <<spec, registry, served, deploy, status, round, env>>
  BY ProvideGrows DEF Provide
<1>2. RoundUp(claim.requested) = claim.requested
  BY <1>1, ClaimTypes DEF ClaimWhole
<1>3. PICK extra \in {0, Mib}, rounds \in BOOLEAN :
         claim' = [claim EXCEPT
             !.capacity = Quantity(((RoundUp(claim.requested) + extra) \div Mib) * 10, Mib, TRUE),
             !.requested = IF rounds THEN RoundUp(@) ELSE @,
             !.resizing = claim.capacity # 0]
  BY DEF Provide
<1> DEFINE x == Quantity(((RoundUp(claim.requested) + extra) \div Mib) * 10, Mib, TRUE)
           n == IF rounds THEN RoundUp(claim.requested) ELSE claim.requested
           b == claim.capacity # 0
<1>4. claim'.requested = claim.requested
  <2>1. claim' = [claim EXCEPT !.capacity = x, !.requested = n, !.resizing = b]
    BY <1>3, ClaimTypes DEF Claims
  <2>2. n = claim.requested
    BY <1>2
  <2> HIDE DEF x, n, b
  <2> QED  BY <2>1, <2>2, ClaimTypes DEF Claims
<1>5. claim'.kept = claim.kept
  BY <1>1, ClaimTypes DEF Claims
<1> QED
  BY <1>1, <1>4, <1>5

(* It holds at the start.                                                  *)
LEMMA SteadyInit == ASSUME Init PROVE Steady
BY DEF Init, NoRound, Steady, Measured

(* Every step keeps it.                                                    *)
LEMMA SteadyNext ==
    ASSUME SInv, RoundSplits, ClaimWhole, Steady, [Next]_svars
    PROVE  Steady'
<1> USE ClaimTypes DEF Measured
<1>1. CASE round'.pc \notin Measured
  BY <1>1 DEF Steady
<1>2. ASSUME round.pc \in Measured, round'.pc \in Measured,
             round'.pc \in {"allocate", "capacity", "volume"} =>
                round.pc \in {"allocate", "capacity", "volume"},
             round'.spec = round.spec, round'.content = round.content,
             round'.existing = round.existing, env' = env,
             claim'.kept = claim.kept, claim'.requested = claim.requested
      PROVE  Steady'
  <2>1. AllocationOf(round.spec, round.content, claim', env.class)
          = AllocationOf(round.spec, round.content, claim, env.class)
    BY <1>2, SameRequest
  <2> QED
    BY <1>2, <2>1 DEF Steady
<1>3. CASE ReadClaim
  <2>1. /\ round'.pc = "allocate" /\ env' = env /\ claim' = claim
        /\ round'.existing = IF env.class THEN claim ELSE NoClaim
    BY <1>3, ReadClaimEffect
  <2>2. env.class => claim'.kept = round'.existing.kept /\ claim'.requested = round'.existing.requested
    BY <2>1
  <2>3. AllocationOf(round'.spec, round'.content, claim', env.class)
          = AllocationOf(round'.spec, round'.content, round'.existing, env.class)
    BY <2>2, SameRequest
  <2> QED
    BY <2>1, <2>2, <2>3 DEF Steady
<1>4. CASE Allocate
  BY <1>1, <1>2, <1>4, AllocateEffect
<1>5. CASE Granted
  BY <1>2, <1>5, GrantedEffect
<1>6. CASE PatchClaim
  <2>1. CASE claim' = claim
    BY <1>1, <1>2, <1>6, <2>1, PatchClaimEffect
  <2>2. CASE claim' # claim
    <3>1. AllocationOf(round.spec, round.content, claim', env.class) = Allocation(round)
      BY <1>6, <2>2, PatchEffect
    <3>2. /\ round'.pc = "deploy" /\ round'.spec = round.spec
          /\ round'.content = round.content /\ round'.existing = round.existing /\ env' = env
      BY <1>6, <2>2, PatchClaimEffect
    <3> QED
      BY <3>1, <3>2, RoundAllocation DEF Steady
  <2> QED
    BY <2>1, <2>2
<1>7. CASE Update
  BY <1>1, <1>2, <1>7, UpdateEffect
<1>8. CASE Provide
  BY <1>1, <1>2, <1>8, ProvideWhole
<1>9. CASE ExpandFileSystem
  <2>1. /\ round' = round /\ env' = env /\ claim'.kept = claim.kept
        /\ claim'.requested = claim.requested
    BY <1>9 DEF ExpandFileSystem, Claims
  <2> QED
    BY <1>1, <1>2, <2>1
<1>10. CASE (\E i \in Images, content \in Contents : Retag(i, content)) \/ UNCHANGED svars
  <2>1. UNCHANGED <<round, env, claim>>
    BY <1>10 DEF Retag, svars
  <2> QED
    BY <1>1, <1>2, <2>1
<1>11. CASE Start \/ Inspect
  BY <1>1, <1>11, StartEffect, InspectEffect
<1>12. CASE Shortage \/ ApplyDeployment \/ Report \/ Crash
  BY <1>1, <1>12, ShortageEffect, ApplyDeploymentEffect, ReportEffect, CrashEffect
<1> QED
  BY <1>3, <1>4, <1>5, <1>6, <1>7, <1>8, <1>9, <1>10, <1>11, <1>12 DEF Next, Step, Driver

(* It holds at the start.                                                  *)
LEMMA StandingInit == ASSUME WholeHomes, Init PROVE Standing
<1>1. /\ deploy.content = None /\ round.pc = "idle" /\ claim = env.claim /\ env \in Scenarios
      /\ served = [i \in Images |-> {registry[i]}]
  BY DEF Init, NoDeploy, NoRound
<1>2. \A i \in Images : served[i] = {registry[i]}
  BY <1>1
<1> QED
  BY <1>1, <1>2 DEF WholeHomes, Standing, ClaimWhole

(* A step that changes neither disk nor Deployment.                        *)
LEMMA QuietStanding ==
    ASSUME Standing, UNCHANGED <<spec, registry, served, claim, deploy, env>>,
           round'.pc \in InRound => \/ round'.spec = spec
                                    \/ round.pc \in InRound /\ round'.spec = round.spec
    PROVE  Standing'
<1>1. deploy.content # None /\ round'.pc \in InRound =>
         /\ deploy.checked <= round'.spec.gen
         /\ Placed(round'.spec, registry[round'.spec.image], deploy, claim, env.class)
  BY DEF Standing
<1> QED
  BY <1>1 DEF Standing, ClaimWhole

(* With fixed tags a round works with the content of its image.            *)
LEMMA RoundContent ==
    ASSUME SInv, ImageServed, Standing, round.pc \in Found
    PROVE  /\ round.content = registry[round.spec.image]
           /\ round.content \in Contents /\ round.content # None
<1>1. round.spec.image \in Images
  BY ImageOfRound DEF Found, InRound
<1>2. round.content \in Contents
  BY DEF SInv, RoundSane, Found
<1> QED
  BY <1>1, <1>2, StorageConstants DEF ImageServed, Standing

(* What a round deploys is the split that its claim will be given again.   *)
LEMMA PlacedAgain ==
    ASSUME SInv, RoundFollows, RoundSplits, ImageServed, Standing, Steady, ApplyDeployment
    PROVE  /\ deploy'.content = registry[round.spec.image] /\ deploy'.content # None
           /\ deploy'.home = (env.class /\ ~round.spec.stateless)
           /\ AllocationOf(round.spec, deploy'.content, claim, env.class).ok
           /\ AllocationOf(round.spec, deploy'.content, claim, env.class).rootfs = deploy'.rootfs
<1>1. /\ round.pc = "deploy" /\ deploy'.content = round.content
      /\ deploy'.rootfs = round.rootfs
      /\ deploy'.home = (AllocateHome(round) /\ ~round.spec.stateless)
  BY ApplyDeploymentEffect
<1>2. round.content = registry[round.spec.image] /\ round.content # None
  BY <1>1, RoundContent DEF Found
<1>3. (AllocateHome(round) /\ ~round.spec.stateless) = (env.class /\ ~round.spec.stateless)
  BY DEF AllocateHome
<1>4. /\ AllocationOf(round.spec, round.content, claim, env.class) = Allocation(round)
      /\ Allocation(round).ok /\ Allocation(round).rootfs = round.rootfs
  BY <1>1, RoundAllocation DEF Steady, RoundSplits, Sized, Measured
<1> QED
  BY <1>1, <1>2, <1>3, <1>4

(* Every step keeps it.                                                    *)
LEMMA StandingNext ==
    ASSUME FixedTags, SInv, RoundFollows, RoundSplits, ImageServed, Standing, Steady,
           [Next]_svars
    PROVE  Standing'
<1> USE ClaimTypes, GenIsNat
<1>1. CASE Start \/ Inspect
  <2>1. CASE Start
    <3>1. round'.spec = spec /\ UNCHANGED <<spec, registry, served, claim, deploy, env>>
      BY <2>1, StartEffect
    <3> QED
      BY <3>1, QuietStanding
  <2>2. CASE Inspect
    BY <2>2, InspectEffect, QuietStanding DEF InRound
  <2> QED
    BY <1>1, <2>1, <2>2
<1>2. CASE ReadClaim \/ Allocate \/ Granted
  BY <1>2, ReadClaimEffect, AllocateEffect, GrantedEffect, QuietStanding DEF InRound
<1>3. CASE Shortage \/ Report \/ Crash
  BY <1>3, ShortageEffect, ReportEffect, CrashEffect, QuietStanding DEF InRound
<1>4. CASE PatchClaim
  <2>1. CASE claim' = claim
    BY <1>4, <2>1, PatchClaimEffect, QuietStanding DEF InRound
  <2>2. CASE claim' # claim
    <3>1. /\ round.pc = "volume" /\ RoundUp(claim'.requested) = claim'.requested
          /\ AllocationOf(round.spec, round.content, claim', env.class) = Allocation(round)
      BY <1>4, <2>2, PatchEffect
    <3>2. /\ round'.pc = "deploy" /\ round'.spec = round.spec
          /\ UNCHANGED <<spec, registry, served, deploy, env>>
      BY <1>4, <2>2, PatchClaimEffect
    <3>3. AllocationOf(round.spec, round.content, claim', env.class)
            = AllocationOf(round.spec, round.content, claim, env.class)
      BY <3>1, RoundAllocation DEF Steady, Measured
    <3>4. round.content = registry[round.spec.image]
      BY <3>1, RoundContent DEF Found
    <3>5. deploy.content # None =>
            Placed(round.spec, registry[round.spec.image], deploy, claim', env.class)
      BY <3>1, <3>3, <3>4 DEF Standing, Placed, InRound
    <3>6. deploy.content # None =>
            Placed(spec, registry[spec.image], deploy, claim', env.class)
      <4>1. CASE deploy.checked = spec.gen
        <5>1. deploy.content # None => round.spec = spec
          BY <3>1, <4>1 DEF Standing, RoundFollows, InRound
        <5> QED  BY <3>5, <5>1
      <4>2. CASE deploy.checked # spec.gen
        BY <4>2 DEF Placed
      <4> QED  BY <4>1, <4>2
    <3>7. ClaimWhole'
      BY <3>1 DEF ClaimWhole
    <3> QED
      BY <3>1, <3>2, <3>5, <3>6, <3>7 DEF Standing, InRound
  <2> QED
    BY <2>1, <2>2
<1>5. CASE ApplyDeployment
  <2>1. /\ round.pc = "deploy" /\ round'.pc = "report" /\ deploy'.checked = round.spec.gen
        /\ UNCHANGED <<spec, registry, served, claim, env>>
    BY <1>5, ApplyDeploymentEffect
  <2>2. /\ deploy'.checked \in Nat /\ deploy'.checked <= spec.gen
        /\ deploy'.checked = spec.gen => round.spec = spec
    BY <2>1 DEF RoundFollows, InRound
  <2>3. deploy'.checked = spec.gen =>
           Placed(spec, registry[spec.image], deploy', claim, env.class)
    BY <1>5, <2>2, PlacedAgain DEF Placed
  <2>4. Placed(spec, registry[spec.image], deploy', claim, env.class)
    BY <2>3 DEF Placed
  <2> QED
    BY <2>1, <2>2, <2>4 DEF Standing, ClaimWhole, InRound
<1>6. CASE Update
  <2>1. /\ spec'.gen = spec.gen + 1 /\ round'.pc = round.pc /\ round'.spec = round.spec
        /\ UNCHANGED <<registry, served, claim, deploy, env>>
    BY <1>6, UpdateEffect
  <2>2. deploy.content # None =>
          /\ deploy.checked \in Nat /\ deploy.checked <= spec'.gen
          /\ deploy.checked # spec'.gen
    BY <2>1 DEF Standing
  <2>3. deploy.content # None =>
          Placed(spec', registry[spec'.image], deploy, claim, env.class)
    BY <2>2 DEF Placed
  <2> QED
    BY <2>1, <2>2, <2>3 DEF Standing, ClaimWhole
<1>7. ASSUME claim'.kept = claim.kept, claim'.requested = claim.requested, ClaimWhole',
             UNCHANGED <<spec, registry, served, deploy, round, env>>
      PROVE  Standing'
  <2>1. \A s, x : AllocationOf(s, x, claim', env.class) = AllocationOf(s, x, claim, env.class)
    BY <1>7, SameRequest
  <2>2. \A s, x, d : Placed(s, x, d, claim, env.class) => Placed(s, x, d, claim', env.class)
    BY <2>1 DEF Placed
  <2> QED
    BY <1>7, <2>2 DEF Standing
<1>8. CASE Provide
  <2>1. /\ claim'.requested = claim.requested /\ claim'.kept = claim.kept
        /\ claim'.capacity >= claim'.requested
        /\ UNCHANGED <<spec, registry, served, deploy, round, env>>
    BY <1>8, ProvideWhole DEF Standing
  <2> QED
    BY <1>7, <2>1 DEF ClaimWhole
<1>9. CASE ExpandFileSystem
  <2>1. /\ claim'.requested = claim.requested /\ claim'.kept = claim.kept
        /\ claim'.capacity = claim.capacity
        /\ UNCHANGED <<spec, registry, served, deploy, round, env>>
    BY <1>9 DEF ExpandFileSystem, Claims
  <2> QED
    BY <1>7, <2>1 DEF ClaimWhole, Standing
<1>10. CASE \E i \in Images, content \in Contents : Retag(i, content)
  BY <1>10 DEF Retag, FixedTags, SInv, Shape
<1>11. CASE UNCHANGED svars
  BY <1>11, QuietStanding DEF svars
<1> QED
  BY <1>1, <1>2, <1>3, <1>4, <1>5, <1>6, <1>8, <1>9, <1>10, <1>11 DEF Next, Step, Driver

(* The running split is the one that is computed again.                    *)
THEOREM SplitInvariance ==
    ASSUME ShortOfOneImage, FixedTags, WholeHomes
    PROVE  SSpec => [](SInv /\ RoundFollows /\ RoundSplits /\ ImageServed /\ Standing /\ Steady)
<1> DEFINE I == SInv /\ RoundFollows /\ RoundSplits /\ ImageServed /\ Standing /\ Steady
<1>1. Init => I
  BY SInvInit, FollowsInit, SplitsInit, ServedInit, StandingInit, SteadyInit
<1>2. I /\ [Next]_svars => I'
  <2> SUFFICES ASSUME I, [Next]_svars PROVE I'
    OBVIOUS
  <2>1. Steady'
    BY SteadyNext DEF Standing
  <2>2. Standing'
    BY StandingNext
  <2> QED
    BY <2>1, <2>2, SInvNext, FollowsNext, SplitsNext, ServedNext
<1> QED
  BY <1>1, <1>2, PTL DEF SSpec

(* Reconciling a revision again leaves the container's file system and the *)
(* home alone, whatever the driver rounds, wherever the controller crashes *)
(* and whether or not the claim has grown meanwhile                        *)
(* (storage_allocation_retaining, preserve_unchanged_pod_generation).      *)
THEOREM SplitIsNotRedone ==
    ASSUME ShortOfOneImage, FixedTags, WholeHomes
    PROVE  SSpec => SplitStands
<1> DEFINE I == SInv /\ RoundFollows /\ RoundSplits /\ ImageServed /\ Standing /\ Steady
           Kept == deploy'.checked = deploy.checked /\ deploy'.content = deploy.content =>
                     deploy'.rootfs = deploy.rootfs /\ deploy'.home = deploy.home
<1>1. I /\ [Next]_svars => [Kept]_svars
  <2> SUFFICES ASSUME I, Next PROVE Kept
    OBVIOUS
  <2>1. CASE deploy' = deploy
    BY <2>1
  <2>2. CASE ApplyDeployment
    <3> SUFFICES ASSUME deploy'.checked = deploy.checked, deploy'.content = deploy.content
                 PROVE  deploy'.rootfs = deploy.rootfs /\ deploy'.home = deploy.home
      OBVIOUS
    <3>1. round.pc = "deploy" /\ deploy'.checked = round.spec.gen
      BY <2>2, ApplyDeploymentEffect
    <3>2. /\ deploy'.content = registry[round.spec.image] /\ deploy'.content # None
          /\ deploy'.home = (env.class /\ ~round.spec.stateless)
          /\ AllocationOf(round.spec, deploy'.content, claim, env.class).ok
          /\ AllocationOf(round.spec, deploy'.content, claim, env.class).rootfs = deploy'.rootfs
      BY <2>2, PlacedAgain
    <3>3. Placed(round.spec, registry[round.spec.image], deploy, claim, env.class)
      BY <3>1, <3>2 DEF Standing, InRound
    <3> QED
      BY <3>1, <3>2, <3>3 DEF Placed
  <2>3. deploy' = deploy \/ ApplyDeployment
    BY DEF Next, Step, Inspect, Driver, Start, FromCache, FromRegistry, RegistryDown,
           RegistryRefuses, ReadClaim, Allocate, Granted, Shortage, PatchClaim, Report,
           Crash, Update, Provide, ExpandFileSystem, Retag
  <2> QED
    BY <2>1, <2>2, <2>3
<1> QED
  BY <1>1, SplitInvariance, PTL DEF SSpec, SplitStands
=============================================================================
