--------------------------- MODULE BackupLifecycle ---------------------------
(***************************************************************************)
(* Backups of one service's home disk, from src/backups.rs, the backup     *)
(* handlers of src/bin/flash-api.rs and src/backup_destinations.rs.        *)
(*                                                                         *)
(* Every controller replica runs the backup loop on its own copy of the    *)
(* list, without leader election; what keeps replicas apart is the         *)
(* resourceVersion fence on FlashBackup and on the Longhorn volume whose   *)
(* annotation is the destination lock.  A replica's reconciliation is one  *)
(* step per request to the API server.  The CSI driver, Longhorn, the      *)
(* verification drill and the off-site copy are external.                  *)
(***************************************************************************)
EXTENDS Naturals, FiniteSets

CONSTANTS
    Backups,       \* identifiers of backups
    Controllers,   \* controller replicas
    Enabled,       \* the replicas with FLASH_BACKUP_DESTINATIONS_ENABLED=true
    Destinations,  \* tenant destinations
    Default,       \* Longhorn's default backup target
    DestOf,        \* the target a backup asks for
    None,          \* no backup
    API,           \* the provider API, a reader of backups like a replica
    Scenarios      \* what may happen in a behaviour, see below

(* A scenario bounds one behaviour: the replicas that run, the backups     *)
(* that are ordered, restored, exported off-site, verified and that reach  *)
(* their 1800 s limit, whether a reached destination may be lost again,    *)
(* and how often the source disk is lost and a replica restarts.           *)
Scenario == [replicas : SUBSET Controllers, orders : SUBSET Backups,
             restores : SUBSET Backups, exported : SUBSET Backups,
             verified : SUBSET Backups, aging : SUBSET Backups,
             outages : BOOLEAN, losses : Nat, crashes : Nat]

ASSUME BackupConstants ==
    /\ Enabled \subseteq Controllers
    /\ Default \notin Destinations
    /\ DestOf \in [Backups -> Destinations \cup {Default}]
    /\ None \notin Backups
    /\ API \notin Controllers
    /\ Scenarios \subseteq Scenario

VARIABLES
    backup,    \* the FlashBackup objects
    snap,      \* the VolumeSnapshot of a backup, by the same name
    disk,      \* source disk: uid of its claim (0: none), newest uid issued
    volume,    \* its Longhorn volume: destination lock and backup target
    ctl,       \* what each replica, and the API's DELETE, does and has read
    dest,      \* tenant destinations: "absent", "new", "available" or "lost"
    service,   \* the restored service: state and its restore_from_backup_id
    home,      \* its home claim: "none", "copying" or "done"
    asked,     \* the backup a PUT of the restored service has checked, or None
    restorer,  \* each replica's progress in ensure_restored_home
    offsite,   \* backups under a current off-site lock
    clone,     \* the verification drill of a backup
    crashes,   \* restarts so far
    env        \* the scenario of this behaviour

objects == <<backup, snap, disk, volume>>
restoring == <<service, home, asked, restorer>>
outside == <<dest, offsite, clone, crashes, env>>
vars == <<objects, ctl, restoring, outside>>

Steps == {"idle", "guard", "purge", "unlock", "unlockPatch", "finalize",
          "look", "lock", "holder", "lockPatch", "source", "apply", "report",
          "delete"}
Phases == {"none", "creating", "ready", "error"}
Idle == [pc |-> "idle", b |-> None, del |-> FALSE, seen |-> "none",
         found |-> "none", holder |-> None, freshB |-> FALSE, freshV |-> FALSE]
NoSnap == [at |-> "none", dying |-> FALSE, of |-> 0, target |-> None]
FreeVolume == [lock |-> None, target |-> Default]

Exists(b) == backup[b].life \in {"live", "deleting"}
Unready(b) == snap[b].at \in {"taking", "sending"}
Found(b) == IF Unready(b) THEN "unready" ELSE snap[b].at
Readers == Controllers \cup {API}

(* What a reader does next.                                                *)
Goto(c, step) == [ctl EXCEPT ![c].pc = step]
Finish(c) == [ctl EXCEPT ![c] = Idle]
GotoOrFinish(c, step) == IF step = "idle" THEN Finish(c) ELSE Goto(c, step)

(* A write outdates every copy of the object that is held (k: ctl as it    *)
(* will be otherwise).                                                     *)
Write(b, value, k) ==
    /\ backup' = [backup EXCEPT ![b] = value]
    /\ ctl' = [p \in Readers |->
                  IF k[p].b = b THEN [k[p] EXCEPT !.freshB = FALSE] ELSE k[p]]

WriteVolume(value, k) ==
    /\ volume' = value
    /\ ctl' = [p \in Readers |-> [k[p] EXCEPT !.freshV = FALSE]]

(* status(): nothing to write when the copy already says so, otherwise a   *)
(* fenced patch; a conflict ends this round of the loop.                   *)
Status(c, phase, step) ==
    LET b == ctl[c].b IN
    IF ctl[c].seen # phase /\ ctl[c].freshB
      THEN Write(b, [backup[b] EXCEPT !.phase = phase], GotoOrFinish(c, step))
      ELSE /\ ctl' = IF ctl[c].seen = phase THEN GotoOrFinish(c, step) ELSE Finish(c)
           /\ UNCHANGED backup

(* run_controller's answer to NotFound, Conflict, Invalid and Forbidden.   *)
Fail(c) == Status(c, "error", "idle")
(* Unavailable and storage errors are retried by the next round only.      *)
Retry(c) == ctl' = Finish(c) /\ UNCHANGED backup
Continue(c, step) == ctl' = Goto(c, step) /\ UNCHANGED backup
-----------------------------------------------------------------------------
(* restore_pending: a verification clone exists, or a service that is not  *)
(* being deleted restores from the backup and its disk is not whole yet.   *)
RestorePending(b) ==
    \/ clone[b] = "running"
    \/ /\ service.state = "live"
       /\ service.from = b
       /\ home # "done"

DestKnown(t) == t # Default => dest[t] # "absent"
DestReady(t) == t # Default => dest[t] = "available"
DestWasReady(t) == t # Default => dest[t] \in {"available", "lost"}

(* run_controller: the next listed backup, with the copy the list gave.    *)
Pick(c, b) ==
    /\ c \in env.replicas
    /\ ctl[c].pc = "idle"
    /\ Exists(b)
    /\ ctl' = [ctl EXCEPT ![c] = [Idle EXCEPT
           !.pc = IF backup[b].life = "deleting" THEN "guard" ELSE "look",
           !.b = b, !.del = backup[b].life = "deleting",
           !.seen = backup[b].phase, !.freshB = TRUE]]
    /\ UNCHANGED <<objects, restoring, outside>>

(* Mutant: only the off-site copy is waited for.                           *)
GuardOffsiteOnly(c) ==
    /\ ctl[c].pc = "guard"
    /\ ctl' = IF ctl[c].b \in offsite THEN Finish(c) ELSE Goto(c, "purge")
    /\ UNCHANGED <<objects, restoring, outside>>

(* A deleted backup waits for the off-site copy and for restores from it.  *)
Guard(c) ==
    LET b == ctl[c].b IN
    /\ ctl[c].pc = "guard"
    /\ ctl' = IF b \in offsite \/ RestorePending(b) THEN Finish(c) ELSE Goto(c, "purge")
    /\ UNCHANGED <<objects, restoring, outside>>

(* Its snapshot goes first, and the rest only once the snapshot is gone.   *)
Purge(c) ==
    LET b == ctl[c].b IN
    /\ ctl[c].pc = "purge"
    /\ IF snap[b].at # "none"
         THEN snap' = [snap EXCEPT ![b].dying = TRUE] /\ ctl' = Finish(c)
         ELSE UNCHANGED snap /\ ctl' = Goto(c, "unlock")
    /\ UNCHANGED <<backup, disk, volume, restoring, outside>>

(* release_target_lock: a disk that is gone or replaced holds no lock.     *)
AfterUnlock(c) == GotoOrFinish(c, IF ctl[c].del THEN "finalize" ELSE "idle")
Unlock(c) ==
    LET b == ctl[c].b IN
    /\ ctl[c].pc = "unlock"
    /\ ctl' = IF c \in Enabled /\ disk.uid = backup[b].uid /\ volume.lock = b
                THEN [ctl EXCEPT ![c].pc = "unlockPatch", ![c].freshV = TRUE]
                ELSE AfterUnlock(c)
    /\ UNCHANGED <<objects, restoring, outside>>

UnlockPatch(c) ==
    /\ ctl[c].pc = "unlockPatch"
    /\ IF ctl[c].freshV
         THEN WriteVolume(FreeVolume, AfterUnlock(c))
         ELSE ctl' = Finish(c) /\ UNCHANGED volume
    /\ UNCHANGED <<backup, snap, disk, restoring, outside>>

Finalize(c) ==
    LET b == ctl[c].b IN
    /\ ctl[c].pc = "finalize"
    /\ IF ctl[c].freshB
         THEN Write(b, [backup[b] EXCEPT !.life = "gone"], Finish(c))
         ELSE Retry(c)
    /\ UNCHANGED <<snap, disk, volume, restoring, outside>>
-----------------------------------------------------------------------------
(* The first read of a live backup's round: its snapshot.  A completed     *)
(* backup without one is never taken again; a ready one needs no lock.     *)
Look(c) ==
    LET b == ctl[c].b
        seen == ctl[c].seen
    IN  /\ ctl[c].pc = "look"
        /\ CASE Found(b) = "none" /\ seen \in {"ready", "error"} -> Fail(c)
             [] Found(b) = "ready" /\ seen = "ready" ->
                  /\ ctl' = [ctl EXCEPT ![c].pc = "report", ![c].found = "ready"]
                  /\ UNCHANGED backup
             [] OTHER ->
                  /\ ctl' = [ctl EXCEPT ![c].pc = "lock", ![c].found = Found(b)]
                  /\ UNCHANGED backup
        /\ UNCHANGED <<snap, disk, volume, restoring, outside>>

Granted(c) == IF ctl[c].found = "none" THEN "source" ELSE "report"

(* acquire_target_lock up to the volume's annotation.  A replica without   *)
(* destinations takes no lock and only checks that no tenant target is     *)
(* selected.                                                               *)
Lock(c) ==
    LET b == ctl[c].b
        enabled == c \in Enabled
        sameDisk == disk.uid = backup[b].uid
    IN  /\ ctl[c].pc = "lock"
        /\ \/ /\ ~enabled
              /\ DestOf[b] # Default
              /\ Retry(c)
           \/ /\ enabled \/ DestOf[b] = Default
              /\ ~sameDisk
              /\ Fail(c)
           \/ /\ ~enabled
              /\ DestOf[b] = Default
              /\ sameDisk
              /\ IF volume = FreeVolume THEN Continue(c, Granted(c)) ELSE Retry(c)
           \/ /\ enabled
              /\ sameDisk
              /\ volume.lock = b
              /\ IF volume.target = DestOf[b] THEN Continue(c, Granted(c)) ELSE Fail(c)
           \/ /\ enabled
              /\ sameDisk
              /\ volume.lock # b
              /\ ctl' = [ctl EXCEPT ![c].pc = "holder", ![c].holder = volume.lock,
                                    ![c].freshV = TRUE]
              /\ UNCHANGED backup
        /\ UNCHANGED <<snap, disk, volume, restoring, outside>>

(* Mutant: the holder is not asked for.                                    *)
MayTakeAlways(c) == ctl[c].b # None

(* The lock may be taken from a holder whose transfer has ended, and only  *)
(* while no other snapshot of the disk is still being sent.                *)
MayTake(c) ==
    LET b == ctl[c].b
        h == ctl[c].holder
    IN  /\ h # None =>
             /\ ~Unready(h)
             /\ Exists(h) => backup[h].phase \in {"ready", "error"}
        /\ \A x \in Backups \ {b} : ~Unready(x)

(* No lock yet: "creating", or "error" once the backup is 1800 s old.      *)
Wait(c) == Status(c, IF backup[ctl[c].b].old THEN "error" ELSE "creating", "idle")

Holder(c) ==
    LET t == DestOf[ctl[c].b] IN
    /\ ctl[c].pc = "holder"
    /\ \/ ~MayTake(c) /\ Wait(c)
       \/ MayTake(c) /\ ~DestKnown(t) /\ Retry(c)
       \/ MayTake(c) /\ DestKnown(t) /\ ~DestReady(t) /\ Wait(c)
       \/ MayTake(c) /\ DestKnown(t) /\ DestReady(t) /\ Continue(c, "lockPatch")
    /\ UNCHANGED <<snap, disk, volume, restoring, outside>>

LockPatch(c) ==
    LET b == ctl[c].b IN
    /\ ctl[c].pc = "lockPatch"
    /\ IF ctl[c].freshV
         THEN /\ WriteVolume([lock |-> b, target |-> DestOf[b]], Goto(c, Granted(c)))
              /\ UNCHANGED backup
         ELSE /\ UNCHANGED volume
              /\ IF disk.uid = backup[b].uid THEN Wait(c) ELSE Retry(c)
    /\ UNCHANGED <<snap, disk, restoring, outside>>

(* The source claim is checked by uid, the snapshot names it by name.      *)
Source(c) ==
    /\ ctl[c].pc = "source"
    /\ IF disk.uid = backup[ctl[c].b].uid THEN Continue(c, "apply") ELSE Fail(c)
    /\ UNCHANGED <<snap, disk, volume, restoring, outside>>

Apply(c) ==
    LET b == ctl[c].b IN
    /\ ctl[c].pc = "apply"
    /\ snap' = IF snap[b].at = "none"
                 THEN [snap EXCEPT ![b].at = "taking"]
                 ELSE snap
    /\ ctl' = [ctl EXCEPT ![c].pc = "report",
                          ![c].found = IF snap[b].at = "ready" THEN "ready"
                                                               ELSE "unready"]
    /\ UNCHANGED <<backup, disk, volume, restoring, outside>>

Report(c) ==
    /\ ctl[c].pc = "report"
    /\ IF ctl[c].found = "ready" THEN Status(c, "ready", "unlock")
       ELSE Wait(c)
    /\ UNCHANGED <<snap, disk, volume, restoring, outside>>

(* A replica dies and its loops start again.                               *)
Crash(c) ==
    /\ crashes < env.crashes
    /\ ctl[c].pc # "idle" \/ restorer[c] # "idle"
    /\ crashes' = crashes + 1
    /\ ctl' = Finish(c)
    /\ restorer' = [restorer EXCEPT ![c] = "idle"]
    /\ UNCHANGED <<objects, service, home, asked, dest, offsite, clone, env>>
-----------------------------------------------------------------------------
(* create: source() and the destination are checked before the object is   *)
(* written, so the uid may be that of a disk replaced since, and the       *)
(* destination may have been lost since.  A repeated request finds the     *)
(* object and changes nothing.                                             *)
(* source: a disk that was there when it was asked for. *)
SourceSeen == 1..disk.newest

Create(b) ==
    /\ b \in env.orders
    /\ backup[b].life = "absent"
    /\ DestWasReady(DestOf[b])
    /\ \E u \in SourceSeen :
         Write(b, [life |-> "live", phase |-> "none", uid |-> u, old |-> FALSE], ctl)
    /\ UNCHANGED <<snap, disk, volume, restoring, outside>>

(* delete: the checks, then the deletion with uid and resourceVersion as   *)
(* preconditions.                                                          *)
DeleteCheck(b) ==
    /\ ctl[API].pc = "idle"
    /\ backup[b].life = "live"
    /\ b \notin offsite
    /\ ~RestorePending(b)
    /\ ctl' = [ctl EXCEPT ![API].pc = "delete", ![API].b = b, ![API].freshB = TRUE]
    /\ UNCHANGED <<objects, restoring, outside>>

(* Mutant: deleted by name.                                                *)
DeleteUnfenced ==
    LET b == ctl[API].b IN
    /\ ctl[API].pc = "delete"
    /\ Write(b, [backup[b] EXCEPT !.life = "deleting"], Finish(API))
    /\ UNCHANGED <<snap, disk, volume, restoring, outside>>

Delete ==
    LET b == ctl[API].b IN
    /\ ctl[API].pc = "delete"
    /\ IF ctl[API].freshB
         THEN Write(b, [backup[b] EXCEPT !.life = "deleting"], Finish(API))
         ELSE Retry(API)
    /\ UNCHANGED <<snap, disk, volume, restoring, outside>>

(* request_verification, and the drill that clones the disk and cleans up. *)
RequestVerification(b) ==
    /\ b \in env.verified
    /\ backup[b].life = "live"
    /\ backup[b].phase = "ready"
    /\ clone[b] = "none"
    /\ clone' = [clone EXCEPT ![b] = "queued"]
    /\ Write(b, backup[b], ctl)
    /\ UNCHANGED <<snap, disk, volume, restoring, dest, offsite, crashes, env>>

Drill(b) ==
    /\ \/ /\ clone[b] = "queued"
          /\ backup[b].life = "live"
          /\ backup[b].phase = "ready"
          /\ clone' = [clone EXCEPT ![b] = "running"]
       \/ /\ clone[b] # "none"
          /\ clone[b] = "running" \/ backup[b].life # "live"
          /\ clone' = [clone EXCEPT ![b] = "none"]
    /\ UNCHANGED <<objects, ctl, restoring, dest, offsite, crashes, env>>

(* The off-site copy locks ready backups for as long as it renews the lock.*)
OffsiteLock(b) ==
    /\ b \in env.exported \ offsite
    /\ backup[b].life = "live"
    /\ backup[b].phase = "ready"
    /\ offsite' = offsite \cup {b}
    /\ Write(b, backup[b], ctl)
    /\ UNCHANGED <<snap, disk, volume, restoring, dest, clone, crashes, env>>

OffsiteExpire(b) ==
    /\ b \in offsite
    /\ offsite' = offsite \ {b}
    /\ UNCHANGED <<objects, ctl, restoring, dest, clone, crashes, env>>

(* put: credentials, then the two storage classes, then the target, each   *)
(* applied on its own and retried by the caller; until the target exists   *)
(* nobody can tell a destination from an absent one.                       *)
PutDestination(d) ==
    /\ dest[d] = "absent"
    /\ dest' = [dest EXCEPT ![d] = "new"]
    /\ UNCHANGED <<objects, ctl, restoring, offsite, clone, crashes, env>>

(* Longhorn reaches, or loses, a target that exists.                       *)
Reach(d) ==
    /\ dest[d] \in {"new", "lost"} \/ (dest[d] = "available" /\ env.outages)
    /\ dest' = [dest EXCEPT ![d] = IF @ = "available" THEN "lost" ELSE "available"]
    /\ UNCHANGED <<objects, ctl, restoring, offsite, clone, crashes, env>>
-----------------------------------------------------------------------------
(* put of a service with restore_from_backup_id: the backup is checked,    *)
(* then the service is written.                                            *)
AskRestore(b) ==
    /\ b \in env.restores
    /\ service.state = "none"
    /\ asked = None
    /\ backup[b].life = "live"
    /\ backup[b].phase = "ready"
    /\ asked' = b
    /\ UNCHANGED <<objects, ctl, service, home, restorer, outside>>

CreateRestored ==
    /\ asked # None
    /\ service' = [state |-> "live", from |-> asked]
    /\ asked' = None
    /\ UNCHANGED <<objects, ctl, home, restorer, outside>>

DeleteService ==
    /\ service.state = "live"
    /\ service' = [service EXCEPT !.state = "gone"]
    /\ home' = "none"
    /\ UNCHANGED <<objects, ctl, asked, restorer, outside>>

(* ensure_restored_home: the checks, then the creation of the claim, where *)
(* a claim that exists already is accepted.                                *)
EnsureCheck(c) ==
    /\ c \in env.replicas
    /\ restorer[c] = "idle"
    /\ service.state = "live"
    /\ home = "none"
    /\ backup[service.from].life = "live"
    /\ backup[service.from].phase = "ready"
    /\ DestReady(DestOf[service.from])
    /\ restorer' = [restorer EXCEPT ![c] = "create"]
    /\ UNCHANGED <<objects, ctl, service, home, asked, outside>>

EnsureCreate(c) ==
    /\ restorer[c] = "create"
    /\ restorer' = [restorer EXCEPT ![c] = "idle"]
    /\ home' = IF service.state = "live" /\ home = "none" THEN "copying" ELSE home
    /\ UNCHANGED <<objects, ctl, service, asked, outside>>
-----------------------------------------------------------------------------
(* The CSI driver and Longhorn: the claim's name is resolved, and the      *)
(* volume's target read, when the transfer starts.                         *)
Send(b) ==
    /\ snap[b].at = "taking"
    /\ disk.uid # 0
    /\ snap' = [snap EXCEPT ![b].at = "sending", ![b].of = disk.uid,
                            ![b].target = volume.target]
    /\ UNCHANGED <<backup, disk, volume, ctl, restoring, outside>>

Sent(b) ==
    /\ snap[b].at = "sending"
    /\ snap[b].of = disk.uid
    /\ snap' = [snap EXCEPT ![b].at = "ready"]
    /\ UNCHANGED <<backup, disk, volume, ctl, restoring, outside>>

(* A snapshot whose deletion was asked for goes; one whose owner is gone   *)
(* is garbage.                                                             *)
Vanish(b) ==
    /\ snap[b].at # "none"
    /\ snap[b].dying \/ backup[b].life = "gone"
    /\ snap' = [snap EXCEPT ![b] = NoSnap]
    /\ UNCHANGED <<backup, disk, volume, ctl, restoring, outside>>

(* The restored disk is whole.                                             *)
Copied ==
    /\ home = "copying"
    /\ snap[service.from].at = "ready"
    /\ home' = "done"
    /\ UNCHANGED <<objects, ctl, service, asked, restorer, outside>>

Age(b) ==
    /\ b \in env.aging
    /\ backup[b].life = "live"
    /\ ~backup[b].old
    /\ backup' = [backup EXCEPT ![b].old = TRUE]
    /\ UNCHANGED <<snap, disk, volume, ctl, restoring, outside>>

(* The source service is deleted with its disk, or created anew.           *)
LoseSource ==
    /\ disk.uid # 0
    /\ disk.newest <= env.losses
    /\ disk' = [disk EXCEPT !.uid = 0]
    /\ WriteVolume(FreeVolume, ctl)
    /\ UNCHANGED <<backup, snap, restoring, outside>>

NewSource ==
    /\ disk.uid = 0
    /\ disk' = [uid |-> disk.newest + 1, newest |-> disk.newest + 1]
    /\ WriteVolume(FreeVolume, ctl)
    /\ UNCHANGED <<backup, snap, restoring, outside>>
-----------------------------------------------------------------------------
Init ==
    /\ backup = [b \in Backups |->
           [life |-> "absent", phase |-> "none", uid |-> 0, old |-> FALSE]]
    /\ snap = [b \in Backups |-> NoSnap]
    /\ disk = [uid |-> 1, newest |-> 1]
    /\ volume = FreeVolume
    /\ ctl = [p \in Readers |-> Idle]
    /\ dest = [d \in Destinations |-> "absent"]
    /\ service = [state |-> "none", from |-> None]
    /\ home = "none"
    /\ asked = None
    /\ restorer = [c \in Controllers |-> "idle"]
    /\ offsite = {}
    /\ clone = [b \in Backups |-> "none"]
    /\ crashes = 0
    /\ env \in Scenarios

(* One request of a replica's backup loop.                                 *)
Step(c) ==
    \/ Guard(c) \/ Purge(c) \/ Unlock(c) \/ UnlockPatch(c) \/ Finalize(c)
    \/ Look(c) \/ Lock(c) \/ Holder(c) \/ LockPatch(c)
    \/ Source(c) \/ Apply(c) \/ Report(c)

Next ==
    \/ \E c \in Controllers :
          \/ \E b \in Backups : Pick(c, b)
          \/ Step(c)
          \/ Crash(c)
          \/ EnsureCheck(c) \/ EnsureCreate(c)
    \/ \E b \in Backups :
          \/ Create(b) \/ DeleteCheck(b) \/ AskRestore(b)
          \/ RequestVerification(b) \/ Drill(b) \/ OffsiteLock(b) \/ OffsiteExpire(b)
          \/ Send(b) \/ Sent(b) \/ Vanish(b) \/ Age(b)
    \/ \E d \in Destinations : PutDestination(d) \/ Reach(d)
    \/ Delete \/ CreateRestored \/ DeleteService \/ Copied
    \/ LoseSource \/ NewSource

Spec == Init /\ [][Next]_vars
(* What fairness stands for: every replica keeps taking requests of its    *)
(* round, its loop comes to every listed backup again (the list is worked  *)
(* off in order every five seconds), and the storage finishes what it has  *)
(* begun.  Nothing forces a tenant's request, a crash or an outage.        *)
Fairness ==
    /\ \A c \in Controllers :
          /\ WF_vars(Step(c))
          /\ \A b \in Backups : SF_vars(Pick(c, b))
          /\ SF_vars(EnsureCheck(c))
          /\ WF_vars(EnsureCreate(c))
    /\ \A b \in Backups :
          WF_vars(Send(b)) /\ WF_vars(Sent(b)) /\ WF_vars(Vanish(b))
          /\ WF_vars(Drill(b)) /\ WF_vars(OffsiteExpire(b))
    /\ WF_vars(Copied)

FairSpec == Spec /\ Fairness
-----------------------------------------------------------------------------
BTypeOK ==
    /\ backup \in [Backups -> [life : {"absent", "live", "deleting", "gone"},
                               phase : Phases, uid : Nat, old : BOOLEAN]]
    /\ snap \in [Backups -> [at : {"none", "taking", "sending", "ready"},
                             dying : BOOLEAN, of : Nat,
                             target : Destinations \cup {Default, None}]]
    /\ disk \in [uid : Nat, newest : Nat]
    /\ volume \in [lock : Backups \cup {None}, target : Destinations \cup {Default}]
    /\ ctl \in [Readers -> [pc : Steps, b : Backups \cup {None}, del : BOOLEAN,
                            seen : Phases, found : {"none", "unready", "ready"},
                            holder : Backups \cup {None},
                            freshB : BOOLEAN, freshV : BOOLEAN]]
    /\ dest \in [Destinations -> {"absent", "new", "available", "lost"}]
    /\ service \in [state : {"none", "live", "gone"}, from : Backups \cup {None}]
    /\ home \in {"none", "copying", "done"}
    /\ asked \in Backups \cup {None}
    /\ restorer \in [Controllers -> {"idle", "create"}]
    /\ offsite \subseteq Backups
    /\ clone \in [Backups -> {"none", "queued", "running"}]
    /\ crashes \in Nat
    /\ env \in Scenarios

(* The refinement: the vault holds what the snapshot holds until its       *)
(* deletion is asked for, and a restored disk reads its backup while the   *)
(* disk is being filled.                                                   *)
VaultData ==
    [b \in Backups |->
        IF snap[b].dying \/ snap[b].at = "none" THEN "none"
        ELSE IF snap[b].at = "ready" THEN "whole" ELSE "partial"]
VaultReading == {b \in Backups : service.from = b /\ home = "copying"}
Vault == INSTANCE BackupVault WITH data <- VaultData, reading <- VaultReading

(* The backup service implements the vault: a restore starts only from a   *)
(* whole copy and the copy stays until the restore has read it, whatever   *)
(* order deletions, restores, replicas and crashes come in.                *)
ImplementsVault == Vault!Spec

(* A backup reported ready within its time limit holds the whole of the    *)
(* disk it names, in the destination it asked for, as long as that disk    *)
(* has not been replaced: no replica reports a transfer that the lock let  *)
(* go to another target.                                                   *)
ReadyWhereAsked ==
    \A b \in Backups :
        /\ backup[b].life = "live"
        /\ backup[b].phase = "ready"
        /\ ~backup[b].old
        /\ backup[b].uid = disk.newest
        => snap[b] = [at |-> "ready", dying |-> FALSE, of |-> backup[b].uid,
                      target |-> DestOf[b]]

(* The deletion of a backup never starts while the off-site copy holds it: *)
(* the lock is written after the check of delete, and its precondition     *)
(* refuses.                                                                *)
ExportedStays ==
    [][\A b \in offsite : backup[b].life = "live" => backup'[b].life = "live"]_vars

(* A restored disk that has been created is filled in the end, unless its  *)
(* service is deleted.                                                     *)
RestoreCompletes == (home = "copying") ~> (home = "done" \/ service.state = "gone")

(* A deleted backup goes, finalizer and all, unless a restore that was     *)
(* accepted before the deletion waits for it.                              *)
DeletedBackupGoes ==
    \A b \in Backups :
        (backup[b].life = "deleting") ~>
            (backup[b].life = "gone"
             \/ (service.state = "live" /\ service.from = b /\ home = "none"))

(* acquire_target_lock's comment: a running CSI backup retains the lock    *)
(* until its snapshot is ready or fully deleted.                           *)
RunningHoldsLock ==
    \A b \in Backups :
        snap[b].at = "sending" /\ snap[b].of = disk.uid => volume.lock = b
=============================================================================
