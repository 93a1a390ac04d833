----------------------- MODULE BackupLifecycleProofs -----------------------
(***************************************************************************)
(* The backup service implements its vault specification, a deletion never *)
(* starts under an export, and a ready backup is where it was asked to be, *)
(* for any number of backups, replicas, destinations and any scenarios.    *)
(*                                                                         *)
(* None of the three is inductive.  VaultInv adds what a replica may rely  *)
(* on between two requests: a copy that is still fresh has the phase that  *)
(* was read, a deletion's round is on a backup that stays deleted, "ready" *)
(* was seen of a snapshot that is still there, and nothing that removes    *)
(* data is under way on a backup that a restore reads or is about to read. *)
(* LockInv adds what the lock on the volume is for: whoever is about to    *)
(* take a snapshot of the present disk holds the lock with its own target, *)
(* unless the transfer has started already; and whoever is about to take   *)
(* the lock from a holder knows that the holder's transfer is over, since  *)
(* within the time limit an error means that the disk itself is lost.      *)
(***************************************************************************)
EXTENDS BackupLifecycle, TLAPS

(* The sets that BTypeOK takes its functions from.                         *)
BackupSet == [life : {"absent", "live", "deleting", "gone"},
              phase : Phases, uid : Nat, old : BOOLEAN]
SnapSet == [at : {"none", "taking", "sending", "ready"}, dying : BOOLEAN, of : Nat,
            target : Destinations \cup {Default, None}]
ReaderSet == [pc : Steps, b : Backups \cup {None}, del : BOOLEAN, seen : Phases,
              found : {"none", "unready", "ready"}, holder : Backups \cup {None},
              freshB : BOOLEAN, freshV : BOOLEAN]

(* What a replica knows of the backup it works on.                         *)
Working(p) ==
    LET r == ctl[p] IN
    r.pc # "idle" =>
        /\ r.b \in Backups
        /\ r.pc # "delete"
        /\ backup[r.b].life # "absent"
        /\ r.freshB => r.seen = backup[r.b].phase
Deleting(p) ==
    LET r == ctl[p] IN
    /\ r.pc \in {"guard", "purge", "finalize"} => r.del
    /\ r.del =>
        /\ backup[r.b].life \in {"deleting", "gone"}
        /\ r.pc \in {"guard", "purge", "unlock", "unlockPatch", "finalize"}
Reporting(p) ==
    LET r == ctl[p] IN
    r.pc # "idle" /\ backup[r.b].life = "live" =>
        /\ r.found = "ready" => snap[r.b].at = "ready"
        /\ r.seen = "ready" /\ r.pc # "look" =>
              r.found = "ready" /\ r.pc \in {"report", "unlock", "unlockPatch"}
        /\ r.seen = "ready" => backup[r.b].phase = "ready"
        /\ r.pc \in {"unlock", "unlockPatch"} => backup[r.b].phase = "ready"

(* The DELETE under way at the API.                                        *)
Removing ==
    LET r == ctl[API] IN
    /\ r.pc \in {"idle", "delete"}
    /\ r.pc = "delete" => r.b \in Backups
    /\ r.pc = "delete" /\ r.freshB =>
          backup[r.b].life = "live" /\ r.b \notin offsite

Stored(b) ==
    /\ backup[b].life = "absent" => snap[b] = NoSnap
    /\ backup[b].life = "live" => ~snap[b].dying
    /\ snap[b].at = "none" => ~snap[b].dying
    /\ backup[b].life = "live" /\ backup[b].phase = "ready" => snap[b].at = "ready"

(* Nothing that removes the backup's data is under way.                    *)
Safe(b) ==
    /\ backup[b].life \in {"live", "deleting"}
    /\ snap[b].at = "ready"
    /\ ~snap[b].dying
    /\ \A p \in Controllers : ctl[p].del /\ ctl[p].b = b => ctl[p].pc = "guard"

Restoration ==
    /\ home # "none" => service.state = "live"
    /\ asked # None => service.state = "none"
    /\ service.state = "live" => service.from \in Backups
    /\ service.state = "none" => \A c \in Controllers : restorer[c] = "idle"
    /\ /\ service.state = "live"
       /\ home = "copying" \/ (home = "none" /\ \E c \in Controllers : restorer[c] = "create")
       => Safe(service.from)

VaultInv ==
    /\ BTypeOK
    /\ \A p \in Controllers : Working(p) /\ Deleting(p) /\ Reporting(p)
    /\ Removing
    /\ \A b \in Backups : Stored(b)
    /\ Restoration

(* All replicas have destinations or none has.                             *)
Uniform == Enabled = {} \/ Enabled = Controllers

(* A backup that is within its time limit and of the latest disk.          *)
Current(b) ==
    /\ backup[b].life = "live"
    /\ ~backup[b].old
    /\ backup[b].uid = disk.newest

(* The volume's next transfer goes where b asked for.                      *)
Held(b) == volume.target = DestOf[b] /\ (volume.lock = b \/ Enabled = {})
Attached == disk.uid = disk.newest

Sources ==
    /\ disk.newest > 0
    /\ disk.uid \in {0, disk.newest}
    /\ \A b \in Backups : backup[b].life # "absent" => backup[b].uid \in 1..disk.newest
Locked ==
    /\ volume.lock = None => volume.target = Default
    /\ volume.lock # None => /\ volume.target = DestOf[volume.lock]
                             /\ backup[volume.lock].life # "absent"
    /\ Enabled = {} => volume.lock = None
Locking(p) ==
    LET r == ctl[p] IN
    /\ Enabled = {} => r.pc \notin {"holder", "lockPatch", "unlockPatch"}
    /\ r.freshV /\ r.pc \in {"holder", "lockPatch"} =>
          r.holder = volume.lock /\ disk.uid # 0
    /\ r.freshV /\ r.pc = "unlockPatch" => volume.lock = r.b
    /\ r.freshV /\ r.pc = "lockPatch" /\ volume.lock # None /\ Current(volume.lock)
          => backup[volume.lock].phase = "ready"
    /\ r.pc \in {"source", "apply"} /\ Current(r.b) /\ Attached
          => Held(r.b) \/ snap[r.b].at \in {"sending", "ready"}
Placed(b) ==
    Current(b) =>
        /\ snap[b].at = "taking" /\ Attached => Held(b)
        /\ snap[b].at \in {"sending", "ready"} =>
              snap[b].of = backup[b].uid /\ snap[b].target = DestOf[b]
        /\ backup[b].phase = "error" => disk.uid = 0

LockInv ==
    /\ Sources
    /\ Locked
    /\ \A p \in Controllers : Locking(p)
    /\ \A b \in Backups : Placed(b)
-----------------------------------------------------------------------------
(* The same round, of which copies may have been outdated.                 *)
Same(r, s) ==
    /\ s.pc = r.pc /\ s.b = r.b /\ s.del = r.del
    /\ s.seen = r.seen /\ s.found = r.found /\ s.holder = r.holder
    /\ s.freshB => r.freshB
    /\ s.freshV => r.freshV
Kept(p) == Same(ctl[p], ctl'[p])

(* Whatever is written outdates the copies of it.                          *)
Fenced ==
    \A x \in Backups :
        \/ backup'[x].life = backup[x].life /\ backup'[x].phase = backup[x].phase
        \/ \A p \in Readers : ctl'[p].b = x => ~ctl'[p].freshB

(* How a backup changes under a reader that works on it.                   *)
Onward(x) ==
    /\ backup'[x].life = "absent" => backup[x].life = "absent"
    /\ backup[x].life \in {"deleting", "gone"} => backup'[x].life \in {"deleting", "gone"}
    /\ backup[x].life # "absent" /\ backup'[x].life = "live" =>
         /\ snap[x].at = "ready" => snap'[x].at = "ready"
         /\ backup[x].phase = "ready" => backup'[x].phase = "ready"

TypedCtl == ctl \in [Readers -> ReaderSet]
Typed ==
    /\ backup \in [Backups -> BackupSet]
    /\ snap \in [Backups -> SnapSet]
    /\ TypedCtl

(* The types in the shape the lemmas use.                                  *)
LEMMA TypedParts == BTypeOK => Typed
<1> QED  BY DEF BTypeOK, Typed, TypedCtl, BackupSet, SnapSet, ReaderSet

(* A reader at rest works on no backup.                                    *)
LEMMA IdleTyped == Idle \in ReaderSet /\ Idle.pc = "idle" /\ Idle.b = None /\ ~Idle.del
<1> QED  BY DEF Idle, ReaderSet, Steps, Phases

(* A round that goes on still knows what it knew.                          *)
LEMMA KeptStands ==
    ASSUME BTypeOK, NEW p \in Controllers, Working(p), Deleting(p), Reporting(p),
           TypedCtl', Kept(p), Fenced, \A x \in Backups : Onward(x)
    PROVE  Working(p)' /\ Deleting(p)' /\ Reporting(p)'
<1>1. p \in Readers /\ Typed
  BY TypedParts DEF Readers
<1>2. ctl'[p] \in ReaderSet /\ ctl[p] \in ReaderSet
  BY <1>1 DEF TypedCtl, Typed
<1>3. Working(p)'
  BY <1>1, <1>2 DEF Working, Kept, Same, Fenced, Onward, ReaderSet
<1>4. Deleting(p)'
  BY <1>1, <1>2 DEF Working, Deleting, Kept, Same, Onward, ReaderSet
<1>5. Reporting(p)'
  <2> DEFINE b == ctl[p].b
  <2>1. SUFFICES ASSUME ctl[p].pc # "idle", backup'[b].life = "live"
                 PROVE  Reporting(p)'
    BY <1>2 DEF Reporting, Kept, Same
  <2>2. b \in Backups /\ backup[b].life # "absent"
    BY <2>1 DEF Working
  <2>3. backup[b].life = "live"
    BY <1>1, <2>1, <2>2 DEF Onward, Typed, BackupSet
  <2> QED  BY <1>2, <2>1, <2>2, <2>3 DEF Reporting, Kept, Same, Onward
<1> QED  BY <1>3, <1>4, <1>5

(* Goto moves one reader to a step.                                        *)
LEMMA GotoEffect ==
    ASSUME TypedCtl, NEW c \in Readers, NEW step \in Steps
    PROVE  /\ Goto(c, step) \in [Readers -> ReaderSet]
           /\ Goto(c, step)[c] = [ctl[c] EXCEPT !.pc = step]
           /\ \A p \in Readers \ {c} : Goto(c, step)[p] = ctl[p]
<1>1. ctl[c] \in ReaderSet
  BY DEF TypedCtl
<1>2. [ctl[c] EXCEPT !.pc = step] \in ReaderSet
  BY <1>1 DEF ReaderSet
<1>3. Goto(c, step) = [ctl EXCEPT ![c] = [ctl[c] EXCEPT !.pc = step]]
  BY DEF Goto
<1> QED  BY <1>2, <1>3 DEF TypedCtl

(* Finish ends one reader's round.                                         *)
LEMMA FinishEffect ==
    ASSUME TypedCtl, NEW c \in Readers
    PROVE  /\ Finish(c) \in [Readers -> ReaderSet]
           /\ Finish(c)[c] = Idle
           /\ \A p \in Readers \ {c} : Finish(c)[p] = ctl[p]
<1> QED  BY IdleTyped DEF Finish, TypedCtl

(* A write replaces one backup and outdates every copy of it.              *)
LEMMA WriteEffect ==
    ASSUME backup \in [Backups -> BackupSet], NEW b \in Backups, NEW value \in BackupSet,
           NEW k \in [Readers -> ReaderSet], Write(b, value, k)
    PROVE  /\ backup' \in [Backups -> BackupSet]
           /\ backup'[b] = value
           /\ \A x \in Backups \ {b} : backup'[x] = backup[x]
           /\ TypedCtl'
           /\ \A p \in Readers : Same(k[p], ctl'[p]) /\ (ctl'[p].b = b => ~ctl'[p].freshB)
           /\ \A p \in Readers : k[p].b # b => ctl'[p] = k[p]
           /\ \A p \in Readers : ctl'[p].freshV = k[p].freshV
<1>1. backup' = [backup EXCEPT ![b] = value]
  BY DEF Write
<1>2. /\ ctl' = [p \in Readers |->
                  IF k[p].b = b THEN [k[p] EXCEPT !.freshB = FALSE] ELSE k[p]]
  BY DEF Write
<1>3. ASSUME NEW p \in Readers
      PROVE  /\ ctl'[p] \in ReaderSet
             /\ Same(k[p], ctl'[p])
             /\ ctl'[p].b = b => ~ctl'[p].freshB
             /\ k[p].b # b => ctl'[p] = k[p]
             /\ ctl'[p].freshV = k[p].freshV
  <2>1. k[p] \in ReaderSet
    OBVIOUS
  <2>2. CASE k[p].b = b
    <3>1. ctl'[p] = [k[p] EXCEPT !.freshB = FALSE]
      BY <1>2, <2>2
    <3>2. ctl'[p] \in ReaderSet
      BY <2>1, <3>1 DEF ReaderSet
    <3> QED  BY <2>1, <2>2, <3>1, <3>2 DEF Same, ReaderSet
  <2>3. CASE k[p].b # b
    <3>1. ctl'[p] = k[p]
      BY <1>2, <2>3
    <3> QED  BY <2>1, <2>3, <3>1 DEF Same
  <2> QED  BY <2>2, <2>3
<1>4. TypedCtl'
  BY <1>2, <1>3 DEF TypedCtl
<1> QED  BY <1>1, <1>3, <1>4

(* A write of the volume outdates every copy of it.                        *)
LEMMA WriteVolumeEffect ==
    ASSUME NEW value, NEW k \in [Readers -> ReaderSet], WriteVolume(value, k)
    PROVE  /\ volume' = value
           /\ TypedCtl'
           /\ \A p \in Readers : Same(k[p], ctl'[p]) /\ ~ctl'[p].freshV
                                 /\ ctl'[p].freshB = k[p].freshB
<1>2. ctl' = [p \in Readers |-> [k[p] EXCEPT !.freshV = FALSE]]
  BY DEF WriteVolume
<1>3. ASSUME NEW p \in Readers
      PROVE  ctl'[p] \in ReaderSet /\ Same(k[p], ctl'[p]) /\ ~ctl'[p].freshV
             /\ ctl'[p].freshB = k[p].freshB
  <2>1. k[p] \in ReaderSet /\ ctl'[p] = [k[p] EXCEPT !.freshV = FALSE]
    BY <1>2
  <2>2. ctl'[p] \in ReaderSet
    BY <2>1 DEF ReaderSet
  <2> QED  BY <2>1, <2>2 DEF Same, ReaderSet
<1> QED  BY <1>2, <1>3 DEF WriteVolume, TypedCtl

(* What c does next: its round is over, or goes on at the step.            *)
Stopped(c) == ctl'[c] = Idle
Moved(c, step) ==
    /\ ctl'[c].pc = step /\ ctl'[c].b = ctl[c].b /\ ctl'[c].del = ctl[c].del
    /\ ctl'[c].seen = ctl[c].seen /\ ctl'[c].found = ctl[c].found
    /\ ctl'[c].holder = ctl[c].holder
    /\ ctl'[c].freshB => ctl[c].freshB
    /\ ctl'[c].freshV => ctl[c].freshV
OthersKept(c) == \A p \in Readers \ {c} : Kept(p)

(* status(): the phase is written, or nothing is.                          *)
LEMMA StatusEffect ==
    ASSUME Typed, NEW c \in Controllers, NEW phase \in Phases, NEW step \in Steps,
           ctl[c].b \in Backups, None \notin Backups, Status(c, phase, step)
    PROVE  /\ backup' \in [Backups -> BackupSet]
           /\ TypedCtl'
           /\ OthersKept(c)
           /\ Stopped(c) \/ (step # "idle" /\ Moved(c, step))
           /\ \A x \in Backups :
                \/ backup'[x] = backup[x]
                \/ /\ x = ctl[c].b
                   /\ ctl[c].freshB /\ ctl[c].seen # phase
                   /\ backup'[x] = [backup[x] EXCEPT !.phase = phase]
                   /\ \A p \in Readers : ctl'[p].b = x => ~ctl'[p].freshB
           /\ ~Stopped(c) => ctl[c].seen = phase \/ backup'[ctl[c].b].phase = phase
<1> DEFINE b == ctl[c].b
           k == GotoOrFinish(c, step)
<1>1. c \in Readers /\ TypedCtl /\ backup \in [Backups -> BackupSet]
  BY DEF Readers, Typed
<1>2. /\ k \in [Readers -> ReaderSet]
      /\ k[c] = IF step = "idle" THEN Idle ELSE [ctl[c] EXCEPT !.pc = step]
      /\ \A p \in Readers \ {c} : k[p] = ctl[p]
  BY <1>1, GotoEffect, FinishEffect DEF GotoOrFinish
<1>3. ctl[c] \in ReaderSet
  BY <1>1 DEF TypedCtl
<1>4. CASE ctl[c].seen # phase /\ ctl[c].freshB
  <2> DEFINE v == [backup[b] EXCEPT !.phase = phase]
  <2>1. Write(b, v, k)
    BY <1>4 DEF Status
  <2>2. v \in BackupSet /\ v.phase = phase
    BY <1>1 DEF BackupSet
  <2> HIDE DEF v, k
  <2>3. /\ backup' \in [Backups -> BackupSet]
        /\ backup'[b] = v
        /\ \A x \in Backups \ {b} : backup'[x] = backup[x]
        /\ TypedCtl'
        /\ \A p \in Readers : Same(k[p], ctl'[p]) /\ (ctl'[p].b = b => ~ctl'[p].freshB)
        /\ \A p \in Readers : k[p].b # b => ctl'[p] = k[p]
    BY <1>1, <1>2, <2>1, <2>2, WriteEffect
  <2>4. OthersKept(c)
    BY <1>2, <2>3 DEF OthersKept, Kept
  <2>5. step = "idle" => Stopped(c)
    BY <1>1, <1>2, <2>3, IdleTyped DEF Stopped
  <2>6. step # "idle" => Moved(c, step)
    BY <1>1, <1>2, <1>3, <2>3 DEF Moved, Same, ReaderSet
  <2> QED  BY <1>4, <2>2, <2>3, <2>4, <2>5, <2>6 DEF v
<1>5. CASE ~(ctl[c].seen # phase /\ ctl[c].freshB)
  <2>1. /\ ctl' = IF ctl[c].seen = phase THEN k ELSE Finish(c)
        /\ backup' = backup
    BY <1>5 DEF Status
  <2> HIDE DEF k
  <2>2. TypedCtl'
    BY <1>1, <1>2, <2>1, FinishEffect DEF TypedCtl
  <2>3. OthersKept(c)
    BY <1>1, <1>2, <2>1, FinishEffect DEF OthersKept, Kept, Same
  <2>4. CASE ctl[c].seen # phase
    BY <1>1, <2>1, <2>2, <2>3, <2>4, FinishEffect DEF Stopped
  <2>5. CASE ctl[c].seen = phase
    <3>1. step = "idle" => Stopped(c)
      BY <1>1, <1>2, <2>1, <2>5 DEF Stopped
    <3>2. step # "idle" => Moved(c, step)
      BY <1>1, <1>2, <1>3, <2>1, <2>5 DEF Moved, ReaderSet
    <3> QED  BY <1>1, <2>1, <2>2, <2>3, <2>5, <3>1, <3>2
  <2> QED  BY <2>4, <2>5
<1> QED  BY <1>4, <1>5
-----------------------------------------------------------------------------
(* A restored disk is being filled, or is about to be created.             *)
Busy ==
    /\ service.state = "live"
    /\ home = "copying" \/ (home = "none" /\ \E c \in Controllers : restorer[c] = "create")

(* A step of c leaves what a restore reads alone.                          *)
Spared(c) ==
    Busy => /\ backup'[service.from].life \in {"live", "deleting"}
            /\ snap'[service.from].at = "ready"
            /\ ~snap'[service.from].dying
            /\ ctl'[c].del /\ ctl'[c].b = service.from => ctl'[c].pc = "guard"

(* A step of a replica that writes only backups, snapshots and the volume. *)
LEMMA RoundStands ==
    ASSUME VaultInv, NEW c \in Controllers, API \notin Controllers, BTypeOK',
           OthersKept(c), Fenced, \A x \in Backups : Onward(x),
           UNCHANGED <<service, home, asked, restorer, offsite>>,
           Working(c)', Deleting(c)', Reporting(c)',
           \A b \in Backups : Stored(b)',
           Spared(c)
    PROVE  VaultInv'
<1>1. Typed /\ TypedCtl' /\ Typed'
  BY TypedParts, PTL DEF VaultInv, Typed
<1>2. \A p \in Controllers \ {c} : Working(p)' /\ Deleting(p)' /\ Reporting(p)'
  BY <1>1, KeptStands DEF VaultInv, OthersKept, Readers
<1>3. Removing'
  <2>1. API \in Readers /\ Kept(API)
    BY DEF OthersKept, Readers
  <2>2. ctl[API] \in ReaderSet /\ ctl'[API] \in ReaderSet
    BY <1>1, <2>1 DEF Typed, TypedCtl
  <2> QED  BY <2>1, <2>2 DEF VaultInv, Removing, Kept, Same, Fenced, ReaderSet
<1>4. Restoration'
  <2>1. \A p \in Controllers \ {c} :
            /\ ctl'[p].del = ctl[p].del /\ ctl'[p].b = ctl[p].b
            /\ ctl'[p].pc = ctl[p].pc
    BY DEF OthersKept, Kept, Same, Readers
  <2>2. Busy => Safe(service.from)'
    BY <2>1 DEF VaultInv, Restoration, Busy, Safe, Spared
  <2> QED  BY <2>2 DEF VaultInv, Restoration, Busy
<1> QED  BY <1>2, <1>3, <1>4 DEF VaultInv

(* A step that changes nothing but where c's round is.                     *)
LEMMA MoveStands ==
    ASSUME VaultInv, NEW c \in Controllers, API \notin Controllers,
           TypedCtl', OthersKept(c),
           UNCHANGED <<backup, snap, disk, restoring, outside>>,
           volume' \in [lock : Backups \cup {None}, target : Destinations \cup {Default}],
           Working(c)', Deleting(c)', Reporting(c)',
           Busy /\ ctl'[c].del /\ ctl'[c].b = service.from => ctl'[c].pc = "guard"
    PROVE  VaultInv'
<1>1. BTypeOK'
  BY DEF VaultInv, BTypeOK, TypedCtl, ReaderSet, restoring, outside
<1>2. Fenced /\ \A x \in Backups : Onward(x)
  BY DEF Fenced, Onward
<1>3. \A b \in Backups : Stored(b)'
  BY DEF VaultInv, Stored
<1>4. Spared(c)
  BY DEF VaultInv, Restoration, Busy, Spared, Safe
<1>5. UNCHANGED <<service, home, asked, restorer, offsite>>
  BY DEF restoring, outside
<1> QED  BY <1>1, <1>2, <1>3, <1>4, <1>5, RoundStands

(* A round that ends changes nothing else.                                 *)
LEMMA StoppedStands ==
    ASSUME NEW c \in Controllers, Stopped(c)
    PROVE  Working(c)' /\ Deleting(c)' /\ Reporting(c)' /\ ~ctl'[c].del
<1> QED  BY IdleTyped DEF Stopped, Working, Deleting, Reporting

(* A phase written by a round: a live backup that is ready stays ready.    *)
LEMMA ReadyKept ==
    ASSUME VaultInv, NEW c \in Controllers, None \notin Backups,
           ctl[c].pc \in {"look", "lock", "holder", "lockPatch", "source", "report"},
           NEW phase \in Phases, NEW step \in Steps, Status(c, phase, step),
           phase # "ready" /\ ctl[c].pc = "report" => ctl[c].found # "ready",
           phase # "ready" /\ ctl[c].pc = "look" => snap[ctl[c].b].at = "none"
    PROVE  \A x \in Backups :
              backup[x].life = "live" /\ backup[x].phase = "ready" => backup'[x].phase = "ready"
<1> DEFINE b == ctl[c].b
<1>1. Typed /\ b \in Backups
  BY TypedParts DEF VaultInv, Working
<1>2. \A x \in Backups :
         \/ backup'[x] = backup[x]
         \/ /\ x = b
            /\ ctl[c].freshB /\ ctl[c].seen # phase
            /\ backup'[x] = [backup[x] EXCEPT !.phase = phase]
  BY <1>1, StatusEffect
<1>3. ASSUME backup[b].life = "live", ctl[c].freshB, ctl[c].seen # phase, phase # "ready"
      PROVE  backup[b].phase # "ready"
  <2>1. ctl[c].seen = backup[b].phase
    BY <1>3 DEF VaultInv, Working
  <2>2. ctl[c].seen # "ready"
    BY <1>1, <1>3 DEF VaultInv, Reporting, Stored
  <2> QED  BY <2>1, <2>2
<1>4. \A x \in Backups : backup[x] \in BackupSet
  BY <1>1 DEF Typed
<1>5. \A x \in Backups : backup'[x] = [backup[x] EXCEPT !.phase = phase]
                            => backup'[x].phase = phase
  BY <1>4 DEF BackupSet
<1> QED  BY <1>1, <1>2, <1>3, <1>5

(* A round that goes on from a live backup's step to another.              *)
LEMMA StatusStands ==
    ASSUME VaultInv, NEW c \in Controllers, API \notin Controllers, None \notin Backups,
           ctl[c].pc \in {"look", "lock", "holder", "lockPatch", "source", "report"},
           NEW phase \in Phases, NEW step \in {"idle", "unlock"}, Status(c, phase, step),
           UNCHANGED <<snap, disk, volume, restoring, outside>>,
           phase # "ready" => step = "idle",
           phase = "ready" => ctl[c].found = "ready" /\ ctl[c].pc = "report",
           phase # "ready" /\ ctl[c].pc = "report" => ctl[c].found # "ready",
           phase # "ready" /\ ctl[c].pc = "look" => snap[ctl[c].b].at = "none"
    PROVE  VaultInv'
<1> DEFINE b == ctl[c].b
<1>1. Typed /\ c \in Readers
  BY TypedParts DEF VaultInv, Readers
<1>2. b \in Backups /\ ~ctl[c].del /\ ctl[c] \in ReaderSet /\ backup[b].life # "absent"
  BY <1>1 DEF VaultInv, Working, Deleting, Typed, TypedCtl
<1>3. step \in Steps
  BY DEF Steps
<1>4. /\ backup' \in [Backups -> BackupSet]
      /\ TypedCtl'
      /\ OthersKept(c)
      /\ Stopped(c) \/ (step # "idle" /\ Moved(c, step))
      /\ \A x \in Backups :
           \/ backup'[x] = backup[x]
           \/ /\ x = b
              /\ ctl[c].freshB /\ ctl[c].seen # phase
              /\ backup'[x] = [backup[x] EXCEPT !.phase = phase]
              /\ \A p \in Readers : ctl'[p].b = x => ~ctl'[p].freshB
      /\ ~Stopped(c) => ctl[c].seen = phase \/ backup'[b].phase = phase
  BY <1>1, <1>2, <1>3, StatusEffect
<1>5. BTypeOK'
  BY <1>4 DEF VaultInv, BTypeOK, TypedCtl, ReaderSet, BackupSet, restoring, outside
<1>6. \A x \in Backups :
         /\ backup'[x].life = backup[x].life
         /\ backup'[x].phase # backup[x].phase =>
               /\ x = b /\ backup'[x].phase = phase
               /\ \A p \in Readers : ctl'[p].b = x => ~ctl'[p].freshB
         /\ backup'[x] = backup[x] \/ (x = b /\ ctl[c].freshB /\ ctl[c].seen # phase)
  BY <1>1, <1>4 DEF Typed, BackupSet
<1>8. \A x \in Backups :
         backup[x].life = "live" /\ backup[x].phase = "ready" => backup'[x].phase = "ready"
  BY <1>3, ReadyKept
<1>9. Fenced /\ \A x \in Backups : Onward(x)
  BY <1>6, <1>8 DEF Fenced, Onward
<1>10. \A x \in Backups : Stored(x)'
  <2> SUFFICES ASSUME NEW x \in Backups PROVE Stored(x)'
    OBVIOUS
  <2>1. backup'[x].life = "live" /\ backup'[x].phase = "ready" => snap'[x].at = "ready"
    BY <1>2, <1>6 DEF VaultInv, Stored, Reporting
  <2> QED  BY <1>6, <2>1 DEF VaultInv, Stored
<1>11. Working(c)' /\ Deleting(c)' /\ Reporting(c)' /\ ~ctl'[c].del
  <2>1. CASE Stopped(c)
    BY <2>1, StoppedStands
  <2>2. CASE step # "idle" /\ Moved(c, step) /\ ~Stopped(c)
    <3>1. phase = "ready" /\ step = "unlock" /\ ctl[c].found = "ready" /\ ctl[c].pc = "report"
      BY <2>2
    <3>2. ctl'[c].freshB => backup'[b] = backup[b]
      BY <1>1, <1>2, <1>4, <2>2 DEF Moved
    <3>3. Working(c)'
      BY <1>2, <1>6, <2>2, <3>1, <3>2 DEF VaultInv, Working, Moved
    <3>4. Deleting(c)' /\ ~ctl'[c].del
      BY <1>2, <2>2, <3>1 DEF Deleting, Moved
    <3>5. backup'[b].life = "live" => backup'[b].phase = "ready"
      <4>1. CASE backup'[b].phase = phase
        BY <3>1, <4>1
      <4>2. CASE ctl[c].seen = phase
        <5>1. backup'[b] = backup[b]
          BY <1>2, <1>6, <4>2
        <5> QED  BY <1>2, <1>4, <2>2, <3>1, <4>2, <5>1 DEF VaultInv, Reporting
      <4> QED  BY <1>4, <2>2, <4>1, <4>2
    <3>6. Reporting(c)'
      BY <1>2, <1>6, <2>2, <3>1, <3>5 DEF VaultInv, Reporting, Moved
    <3> QED  BY <3>3, <3>4, <3>6
  <2> QED  BY <1>4, <2>1, <2>2
<1>12. Spared(c)
  BY <1>6, <1>11 DEF VaultInv, Restoration, Busy, Spared, Safe
<1>13. UNCHANGED <<service, home, asked, restorer, offsite>>
  BY DEF restoring, outside
<1> QED  BY <1>4, <1>5, <1>9, <1>10, <1>11, <1>12, <1>13, RoundStands
-----------------------------------------------------------------------------
(* One lemma per request of a round.                                       *)
LEMMA PickStands ==
    ASSUME VaultInv, BackupConstants, NEW c \in Controllers, NEW b \in Backups, Pick(c, b)
    PROVE  VaultInv'
<1> DEFINE del == backup[b].life = "deleting"
           step == IF backup[b].life = "deleting" THEN "guard" ELSE "look"
           r == [Idle EXCEPT !.pc = step, !.b = b, !.del = del,
                             !.seen = backup[b].phase, !.freshB = TRUE]
<1>1. Typed /\ c \in Readers
  BY TypedParts DEF VaultInv, Readers
<1>2. del \in BOOLEAN /\ (del <=> backup[b].life = "deleting")
  OBVIOUS
<1>5. /\ ctl' = [ctl EXCEPT ![c] = r]
      /\ UNCHANGED <<backup, snap, disk, volume, restoring, outside>>
      /\ Exists(b)
  BY DEF Pick, objects
<1>11. step \in Steps
  BY DEF Steps
<1> HIDE DEF del
<1>3. backup[b].phase \in Phases
  BY <1>1 DEF Typed, BackupSet
<1>4. r \in ReaderSet
  <2> HIDE DEF step
  <2> QED  BY <1>2, <1>3, <1>11, IdleTyped DEF ReaderSet
<1>10. /\ r.pc = IF backup[b].life = "deleting" THEN "guard" ELSE "look"
       /\ r.b = b /\ r.del = del /\ r.seen = backup[b].phase /\ r.found = "none"
  <2>1. Idle.found = "none"
    BY DEF Idle
  <2> QED  BY <2>1, IdleTyped DEF ReaderSet
<1> HIDE DEF r
<1>6. TypedCtl' /\ OthersKept(c) /\ ctl'[c] = r
  BY <1>1, <1>4, <1>5 DEF Typed, TypedCtl, OthersKept, Kept, Same
<1>7. Working(c)' /\ Deleting(c)' /\ Reporting(c)'
  <2>1. Working(c)'
    BY <1>5, <1>6, <1>10 DEF Working, Exists
  <2>2. Deleting(c)'
    BY <1>2, <1>5, <1>6, <1>10 DEF Deleting
  <2>3. Reporting(c)'
    BY <1>2, <1>5, <1>6, <1>10 DEF Reporting
  <2> QED  BY <2>1, <2>2, <2>3
<1>8. ctl'[c].del => ctl'[c].pc = "guard"
  BY <1>2, <1>6, <1>10
<1>9. volume' \in [lock : Backups \cup {None}, target : Destinations \cup {Default}]
  BY <1>5 DEF VaultInv, BTypeOK
<1> QED  BY <1>5, <1>6, <1>7, <1>8, <1>9, MoveStands DEF BackupConstants

(* Rounds that go on or end without a write.                               *)
LEMMA EndStands ==
    ASSUME VaultInv, BackupConstants, NEW c \in Controllers, ctl' = Finish(c),
           UNCHANGED <<backup, snap, disk, volume, restoring, outside>>
    PROVE  VaultInv'
<1>1. Typed /\ c \in Readers
  BY TypedParts DEF VaultInv, Readers
<1>2. TypedCtl' /\ OthersKept(c) /\ Stopped(c)
  BY <1>1, FinishEffect DEF Typed, TypedCtl, OthersKept, Kept, Same, Stopped
<1>3. Working(c)' /\ Deleting(c)' /\ Reporting(c)' /\ ~ctl'[c].del
  BY <1>2, StoppedStands
<1>4. volume' \in [lock : Backups \cup {None}, target : Destinations \cup {Default}]
  BY DEF VaultInv, BTypeOK
<1> QED  BY <1>2, <1>3, <1>4, MoveStands DEF BackupConstants

(* A live backup's round goes on.                                          *)
LEMMA GoOnStands ==
    ASSUME VaultInv, BackupConstants, NEW c \in Controllers, TypedCtl', OthersKept(c),
           ctl[c].pc \in {"look", "lock", "holder", "lockPatch", "source", "apply"},
           NEW step \in {"lock", "holder", "lockPatch", "source", "apply", "report"},
           ctl'[c].pc = step, ctl'[c].b = ctl[c].b, ctl'[c].del = ctl[c].del,
           ctl'[c].seen = ctl[c].seen, ctl'[c].freshB = ctl[c].freshB,
           backup[ctl[c].b].life = "live" =>
               /\ ctl'[c].found = "ready" => snap[ctl[c].b].at = "ready"
               /\ ctl[c].seen = "ready" => step = "report" /\ ctl'[c].found = "ready",
           UNCHANGED <<backup, snap, disk, restoring, outside>>,
           volume' \in [lock : Backups \cup {None}, target : Destinations \cup {Default}]
    PROVE  VaultInv'
<1>1. Typed /\ c \in Readers
  BY TypedParts DEF VaultInv, Readers
<1>2. ctl[c].b \in Backups /\ ~ctl[c].del
  BY DEF VaultInv, Working, Deleting
<1>3. Working(c)'
  BY <1>2 DEF VaultInv, Working
<1>4. Deleting(c)'
  BY <1>2 DEF Deleting
<1>5. Reporting(c)'
  BY <1>2 DEF VaultInv, Reporting
<1> QED  BY <1>2, <1>3, <1>4, <1>5, MoveStands DEF BackupConstants

(* The guard passes only a backup that no restore reads.                   *)
LEMMA GuardStands ==
    ASSUME VaultInv, BackupConstants, NEW c \in Controllers, Guard(c)
    PROVE  VaultInv'
<1> DEFINE b == ctl[c].b
<1>1. Typed /\ c \in Readers
  BY TypedParts DEF VaultInv, Readers
<1>2. /\ ctl[c].pc = "guard"
      /\ ctl' = IF b \in offsite \/ RestorePending(b) THEN Finish(c) ELSE Goto(c, "purge")
      /\ UNCHANGED <<backup, snap, disk, volume, restoring, outside>>
  BY DEF Guard, objects
<1>3. CASE b \in offsite \/ RestorePending(b)
  BY <1>2, <1>3, EndStands
<1>4. CASE ~(b \in offsite \/ RestorePending(b))
  <2>1. "purge" \in Steps
    BY DEF Steps
  <2>2. TypedCtl' /\ OthersKept(c) /\ ctl'[c] = [ctl[c] EXCEPT !.pc = "purge"]
    BY <1>1, <1>2, <1>4, <2>1, GotoEffect DEF Typed, TypedCtl, OthersKept, Kept, Same
  <2>3. ctl[c] \in ReaderSet
    BY <1>1 DEF Typed, TypedCtl
  <2>4. /\ ctl'[c].pc = "purge" /\ ctl'[c].b = b /\ ctl'[c].del = ctl[c].del
        /\ ctl'[c].seen = ctl[c].seen /\ ctl'[c].freshB = ctl[c].freshB
        /\ ctl'[c].found = ctl[c].found
    BY <2>2, <2>3 DEF ReaderSet
  <2>5. Working(c)' /\ Deleting(c)' /\ Reporting(c)'
    BY <1>2, <2>4 DEF VaultInv, Working, Deleting, Reporting
  <2>6. Busy => service.from # b
    BY <1>4 DEF Busy, RestorePending
  <2>7. volume' \in [lock : Backups \cup {None}, target : Destinations \cup {Default}]
    BY <1>2 DEF VaultInv, BTypeOK
  <2> QED  BY <1>2, <2>2, <2>4, <2>5, <2>6, <2>7, MoveStands DEF BackupConstants
<1> QED  BY <1>3, <1>4

(* The snapshot that is purged is read by no restore.                      *)
LEMMA PurgeStands ==
    ASSUME VaultInv, BackupConstants, NEW c \in Controllers, Purge(c)
    PROVE  VaultInv'
<1> DEFINE b == ctl[c].b
<1>1. Typed /\ c \in Readers /\ ctl[c] \in ReaderSet
  BY TypedParts DEF VaultInv, Readers, Typed, TypedCtl
<1>2. b \in Backups /\ ctl[c].del /\ backup[b].life \in {"deleting", "gone"}
  BY DEF VaultInv, Working, Deleting, Purge
<1>3. Busy => service.from # b
  BY <1>2 DEF VaultInv, Restoration, Busy, Safe, Purge
<1>4. UNCHANGED <<backup, disk, volume, restoring, outside>>
  BY DEF Purge
<1>5. volume' \in [lock : Backups \cup {None}, target : Destinations \cup {Default}]
  BY <1>4 DEF VaultInv, BTypeOK
<1>6. CASE snap[b].at # "none"
  <2>1. snap' = [snap EXCEPT ![b] = [snap[b] EXCEPT !.dying = TRUE]] /\ ctl' = Finish(c)
    BY <1>6 DEF Purge
  <2>2. [snap[b] EXCEPT !.dying = TRUE] \in SnapSet
    <3>1. snap[b] \in SnapSet
      BY <1>1, <1>2 DEF Typed
    <3> QED  BY <3>1 DEF SnapSet
  <2>3. /\ snap' \in [Backups -> SnapSet]
        /\ snap'[b].at = snap[b].at
        /\ \A x \in Backups \ {b} : snap'[x] = snap[x]
    BY <1>1, <1>2, <2>1, <2>2 DEF Typed, SnapSet
  <2>4. TypedCtl' /\ OthersKept(c) /\ Stopped(c)
    BY <1>1, <2>1, FinishEffect DEF Typed, TypedCtl, OthersKept, Kept, Same, Stopped
  <2>5. Working(c)' /\ Deleting(c)' /\ Reporting(c)' /\ ~ctl'[c].del
    BY <2>4, StoppedStands
  <2>6. BTypeOK'
    BY <1>4, <2>3, <2>4
       DEF VaultInv, BTypeOK, TypedCtl, ReaderSet, SnapSet, restoring, outside
  <2>7. Fenced /\ \A x \in Backups : Onward(x)
    BY <1>2, <1>4, <2>3 DEF Fenced, Onward
  <2>8. \A x \in Backups : Stored(x)'
    BY <1>2, <1>4, <1>6, <2>3 DEF VaultInv, Stored
  <2>9. Spared(c)
    BY <1>3, <1>4, <2>3, <2>5 DEF VaultInv, Restoration, Busy, Spared, Safe
  <2>10. UNCHANGED <<service, home, asked, restorer, offsite>>
    BY <1>4 DEF restoring, outside
  <2> QED  BY <2>4, <2>5, <2>6, <2>7, <2>8, <2>9, <2>10, RoundStands DEF BackupConstants
<1>7. CASE snap[b].at = "none"
  <2>1. snap' = snap /\ ctl' = Goto(c, "unlock") /\ ctl[c].pc = "purge"
    BY <1>7 DEF Purge
  <2>2. "unlock" \in Steps
    BY DEF Steps
  <2>3. TypedCtl' /\ OthersKept(c) /\ ctl'[c] = [ctl[c] EXCEPT !.pc = "unlock"]
    BY <1>1, <2>1, <2>2, GotoEffect DEF Typed, TypedCtl, OthersKept, Kept, Same
  <2>4. /\ ctl'[c].pc = "unlock" /\ ctl'[c].b = b /\ ctl'[c].del = ctl[c].del
        /\ ctl'[c].seen = ctl[c].seen /\ ctl'[c].freshB = ctl[c].freshB
        /\ ctl'[c].found = ctl[c].found
    BY <1>1, <2>3 DEF ReaderSet
  <2>5. Working(c)' /\ Deleting(c)' /\ Reporting(c)'
    BY <1>2, <1>4, <2>1, <2>4 DEF VaultInv, Working, Deleting, Reporting
  <2> QED  BY <1>3, <1>4, <1>5, <2>1, <2>3, <2>4, <2>5, MoveStands DEF BackupConstants
<1> QED  BY <1>6, <1>7

(* A deletion's round goes on, or the round is over.                       *)
LEMMA AfterUnlockEffect ==
    ASSUME TypedCtl, NEW c \in Readers
    PROVE  /\ AfterUnlock(c) \in [Readers -> ReaderSet]
           /\ AfterUnlock(c)[c] = IF ctl[c].del THEN [ctl[c] EXCEPT !.pc = "finalize"]
                                                ELSE Idle
           /\ \A p \in Readers \ {c} : AfterUnlock(c)[p] = ctl[p]
<1>1. "finalize" \in Steps
  BY DEF Steps
<1> QED  BY <1>1, GotoEffect, FinishEffect DEF AfterUnlock, GotoOrFinish

(* The end of release_target_lock, whatever happens to copies.             *)
LEMMA UnlockedStands ==
    ASSUME VaultInv, BackupConstants, NEW c \in Controllers,
           ctl[c].pc \in {"unlock", "unlockPatch"}, TypedCtl', OthersKept(c),
           NEW r, r = IF ctl[c].del THEN [ctl[c] EXCEPT !.pc = "finalize"] ELSE Idle,
           Same(r, ctl'[c]),
           UNCHANGED <<backup, snap, disk, restoring, outside>>,
           volume' \in [lock : Backups \cup {None}, target : Destinations \cup {Default}]
    PROVE  VaultInv'
<1>1. Typed /\ c \in Readers /\ ctl[c] \in ReaderSet
  BY TypedParts DEF VaultInv, Readers, Typed, TypedCtl
<1>2. CASE ctl[c].del
  <2>1. /\ ctl'[c].pc = "finalize" /\ ctl'[c].b = ctl[c].b /\ ctl'[c].del = ctl[c].del
        /\ ctl'[c].seen = ctl[c].seen /\ (ctl'[c].freshB => ctl[c].freshB)
        /\ ctl'[c].found = ctl[c].found
    BY <1>1, <1>2 DEF ReaderSet, Same
  <2>2. Working(c)' /\ Deleting(c)' /\ Reporting(c)'
    BY <1>2, <2>1 DEF VaultInv, Working, Deleting, Reporting
  <2>3. Busy => service.from # ctl[c].b
    BY <1>2 DEF VaultInv, Restoration, Busy, Safe
  <2> QED  BY <2>1, <2>2, <2>3, MoveStands DEF BackupConstants
<1>3. CASE ~ctl[c].del
  <2>1. ctl'[c].pc = "idle" /\ ~ctl'[c].del
    BY <1>3, IdleTyped DEF Same
  <2>2. Working(c)' /\ Deleting(c)' /\ Reporting(c)'
    BY <2>1 DEF Working, Deleting, Reporting
  <2> QED  BY <2>1, <2>2, MoveStands DEF BackupConstants
<1> QED  BY <1>2, <1>3

(* release_target_lock, up to its patch.                                   *)
LEMMA UnlockStands ==
    ASSUME VaultInv, BackupConstants, NEW c \in Controllers, Unlock(c)
    PROVE  VaultInv'
<1>1. Typed /\ c \in Readers /\ ctl[c] \in ReaderSet
  BY TypedParts DEF VaultInv, Readers, Typed, TypedCtl
<1>2. /\ ctl[c].pc = "unlock"
      /\ UNCHANGED <<backup, snap, disk, volume, restoring, outside>>
  BY DEF Unlock, objects
<1>3. volume' \in [lock : Backups \cup {None}, target : Destinations \cup {Default}]
  BY <1>2 DEF VaultInv, BTypeOK
<1>4. CASE ctl' = AfterUnlock(c)
  <2>1. TypedCtl' /\ OthersKept(c)
    BY <1>1, <1>4, AfterUnlockEffect DEF Typed, TypedCtl, OthersKept, Kept, Same
  <2>2. ctl'[c] = IF ctl[c].del THEN [ctl[c] EXCEPT !.pc = "finalize"] ELSE Idle
    BY <1>1, <1>4, AfterUnlockEffect DEF Typed
  <2>3. Same(ctl'[c], ctl'[c])
    BY DEF Same
  <2> QED  BY <1>2, <1>3, <2>1, <2>2, <2>3, UnlockedStands
<1>5. CASE ctl' = [ctl EXCEPT ![c].pc = "unlockPatch", ![c].freshV = TRUE]
  <2> DEFINE r == [ctl[c] EXCEPT !.pc = "unlockPatch", !.freshV = TRUE]
  <2>1. r \in ReaderSet
    BY <1>1 DEF ReaderSet, Steps
  <2>2. ctl' = [ctl EXCEPT ![c] = r]
    BY <1>1, <1>5 DEF TypedCtl, Typed
  <2>3. /\ r.pc = "unlockPatch" /\ r.b = ctl[c].b /\ r.del = ctl[c].del
        /\ r.seen = ctl[c].seen /\ r.freshB = ctl[c].freshB /\ r.found = ctl[c].found
    BY <1>1 DEF ReaderSet
  <2> HIDE DEF r
  <2>4. TypedCtl' /\ OthersKept(c) /\ ctl'[c] = r
    BY <1>1, <2>1, <2>2 DEF Typed, TypedCtl, OthersKept, Kept, Same
  <2>5. Working(c)' /\ Deleting(c)' /\ Reporting(c)'
    BY <1>2, <2>3, <2>4 DEF VaultInv, Working, Deleting, Reporting
  <2>6. ctl[c].del => (Busy => service.from # ctl[c].b)
    BY <1>2 DEF VaultInv, Restoration, Busy, Safe
  <2> QED  BY <1>2, <1>3, <2>3, <2>4, <2>5, <2>6, MoveStands DEF BackupConstants
<1> QED  BY <1>4, <1>5 DEF Unlock

(* release_target_lock, its patch.                                         *)
LEMMA UnlockPatchStands ==
    ASSUME VaultInv, BackupConstants, NEW c \in Controllers, UnlockPatch(c)
    PROVE  VaultInv'
<1>1. Typed /\ c \in Readers /\ ctl[c] \in ReaderSet
  BY TypedParts DEF VaultInv, Readers, Typed, TypedCtl
<1>2. /\ ctl[c].pc = "unlockPatch"
      /\ UNCHANGED <<backup, snap, disk, restoring, outside>>
  BY DEF UnlockPatch
<1>3. CASE ctl[c].freshV
  <2> DEFINE k == AfterUnlock(c)
  <2>1. WriteVolume(FreeVolume, k)
    BY <1>3 DEF UnlockPatch
  <2>2. /\ k \in [Readers -> ReaderSet]
        /\ k[c] = IF ctl[c].del THEN [ctl[c] EXCEPT !.pc = "finalize"] ELSE Idle
        /\ \A p \in Readers \ {c} : k[p] = ctl[p]
    BY <1>1, AfterUnlockEffect DEF Typed
  <2> HIDE DEF k
  <2>3. /\ volume' = FreeVolume
        /\ TypedCtl'
        /\ \A p \in Readers : Same(k[p], ctl'[p])
    BY <2>1, <2>2, WriteVolumeEffect
  <2>4. OthersKept(c)
    BY <2>2, <2>3 DEF OthersKept, Kept
  <2>5. volume' \in [lock : Backups \cup {None}, target : Destinations \cup {Default}]
    BY <2>3 DEF FreeVolume
  <2> QED  BY <1>1, <1>2, <2>2, <2>3, <2>4, <2>5, UnlockedStands
<1>4. CASE ~ctl[c].freshV
  BY <1>2, <1>4, EndStands DEF UnlockPatch
<1> QED  BY <1>3, <1>4

(* The finalizer goes from a backup that no restore reads.                 *)
LEMMA FinalizeStands ==
    ASSUME VaultInv, BackupConstants, NEW c \in Controllers, Finalize(c)
    PROVE  VaultInv'
<1> DEFINE b == ctl[c].b
<1>1. Typed /\ c \in Readers /\ ctl[c] \in ReaderSet
  BY TypedParts DEF VaultInv, Readers, Typed, TypedCtl
<1>2. /\ ctl[c].pc = "finalize"
      /\ UNCHANGED <<snap, disk, volume, restoring, outside>>
  BY DEF Finalize
<1>3. b \in Backups /\ ctl[c].del /\ backup[b].life \in {"deleting", "gone"}
  BY <1>2 DEF VaultInv, Working, Deleting
<1>4. Busy => service.from # b
  BY <1>2, <1>3 DEF VaultInv, Restoration, Busy, Safe
<1>5. CASE ctl[c].freshB
  <2> DEFINE v == [backup[b] EXCEPT !.life = "gone"]
             k == Finish(c)
  <2>1. Write(b, v, k)
    BY <1>5 DEF Finalize
  <2>2. v \in BackupSet /\ v.life = "gone" /\ v.phase = backup[b].phase
    BY <1>1, <1>3 DEF Typed, BackupSet
  <2>3. /\ k \in [Readers -> ReaderSet] /\ k[c] = Idle
        /\ \A p \in Readers \ {c} : k[p] = ctl[p]
    BY <1>1, FinishEffect DEF Typed
  <2> HIDE DEF v, k
  <2>4. /\ backup' \in [Backups -> BackupSet]
        /\ backup'[b] = v
        /\ \A x \in Backups \ {b} : backup'[x] = backup[x]
        /\ TypedCtl'
        /\ \A p \in Readers : Same(k[p], ctl'[p]) /\ (ctl'[p].b = b => ~ctl'[p].freshB)
        /\ \A p \in Readers : k[p].b # b => ctl'[p] = k[p]
    BY <1>1, <1>3, <2>1, <2>2, <2>3, WriteEffect DEF Typed
  <2>5. OthersKept(c)
    BY <2>3, <2>4 DEF OthersKept, Kept
  <2>6. Stopped(c)
    BY <1>1, <1>3, <2>3, <2>4, IdleTyped DEF Stopped, BackupConstants
  <2>7. Working(c)' /\ Deleting(c)' /\ Reporting(c)' /\ ~ctl'[c].del
    BY <2>6, StoppedStands
  <2>8. BTypeOK'
    BY <1>2, <2>4 DEF VaultInv, BTypeOK, TypedCtl, ReaderSet, BackupSet, restoring, outside
  <2>9. Fenced /\ \A x \in Backups : Onward(x)
    BY <1>2, <1>3, <2>2, <2>4 DEF Fenced, Onward
  <2>10. \A x \in Backups : Stored(x)'
    BY <1>2, <1>3, <2>2, <2>4 DEF VaultInv, Stored
  <2>11. Spared(c)
    BY <1>2, <1>4, <2>4, <2>7 DEF VaultInv, Restoration, Busy, Spared, Safe
  <2>12. UNCHANGED <<service, home, asked, restorer, offsite>>
    BY <1>2 DEF restoring, outside
  <2> QED  BY <2>5, <2>7, <2>8, <2>9, <2>10, <2>11, <2>12, RoundStands DEF BackupConstants
<1>6. CASE ~ctl[c].freshB
  BY <1>2, <1>6, EndStands DEF Finalize, Retry
<1> QED  BY <1>5, <1>6

(* The first read of a live backup's round.                                *)
LEMMA LookStands ==
    ASSUME VaultInv, BackupConstants, NEW c \in Controllers, Look(c)
    PROVE  VaultInv'
<1> DEFINE b == ctl[c].b
<1>1. Typed /\ c \in Readers /\ ctl[c] \in ReaderSet
  BY TypedParts DEF VaultInv, Readers, Typed, TypedCtl
<1>2. /\ ctl[c].pc = "look"
      /\ UNCHANGED <<snap, disk, volume, restoring, outside>>
  BY DEF Look
<1>3. b \in Backups /\ snap[b] \in SnapSet
  BY <1>1, <1>2 DEF VaultInv, Working, Typed
<1>4. CASE Found(b) = "none" /\ ctl[c].seen \in {"ready", "error"}
  <2>1. Status(c, "error", "idle")
    BY <1>4 DEF Look, Fail
  <2>2. snap[b].at = "none"
    BY <1>3, <1>4 DEF Found, Unready, SnapSet
  <2> QED  BY <1>2, <2>1, <2>2, StatusStands DEF BackupConstants, Phases
<1>5. ASSUME NEW step \in {"report", "lock"}, NEW f \in {"none", "unready", "ready"},
             ctl' = [ctl EXCEPT ![c].pc = step, ![c].found = f], backup' = backup,
             f = "ready" => snap[b].at = "ready",
             ctl[c].seen = "ready" /\ backup[b].life = "live" => step = "report" /\ f = "ready"
      PROVE  VaultInv'
  <2> DEFINE r == [ctl[c] EXCEPT !.pc = step, !.found = f]
  <2>1. r \in ReaderSet
    BY <1>1 DEF ReaderSet, Steps
  <2>2. ctl' = [ctl EXCEPT ![c] = r]
    BY <1>1, <1>5 DEF TypedCtl, Typed
  <2>3. /\ r.pc = step /\ r.b = ctl[c].b /\ r.del = ctl[c].del
        /\ r.seen = ctl[c].seen /\ r.freshB = ctl[c].freshB /\ r.found = f
    BY <1>1 DEF ReaderSet
  <2> HIDE DEF r
  <2>4. TypedCtl' /\ OthersKept(c) /\ ctl'[c] = r
    BY <1>1, <2>1, <2>2 DEF Typed, TypedCtl, OthersKept, Kept, Same
  <2>5. volume' \in [lock : Backups \cup {None}, target : Destinations \cup {Default}]
    BY <1>2 DEF VaultInv, BTypeOK
  <2> QED  BY <1>2, <1>5, <2>3, <2>4, <2>5, GoOnStands
<1>6. CASE Found(b) = "ready" /\ ctl[c].seen = "ready"
  <2>1. ctl' = [ctl EXCEPT ![c].pc = "report", ![c].found = "ready"] /\ backup' = backup
    BY <1>6 DEF Look
  <2>2. snap[b].at = "ready"
    BY <1>3, <1>6 DEF Found, Unready, SnapSet
  <2> QED  BY <1>5, <2>1, <2>2
<1>7. CASE /\ ~(Found(b) = "none" /\ ctl[c].seen \in {"ready", "error"})
           /\ ~(Found(b) = "ready" /\ ctl[c].seen = "ready")
  <2>1. ctl' = [ctl EXCEPT ![c].pc = "lock", ![c].found = Found(b)] /\ backup' = backup
    BY <1>7 DEF Look
  <2>2. Found(b) \in {"none", "unready", "ready"} /\ (Found(b) = "ready" <=> snap[b].at = "ready")
    BY <1>3 DEF Found, Unready, SnapSet
  <2>3. ctl[c].seen = "ready" /\ backup[b].life = "live" => snap[b].at = "ready"
    BY <1>2, <1>3 DEF VaultInv, Reporting, Stored
  <2> QED  BY <1>5, <1>7, <2>1, <2>2, <2>3
<1> QED  BY <1>4, <1>6, <1>7

(* Rounds on a live backup that end, with or without a word on its phase.  *)
LEMMA FailStands ==
    ASSUME VaultInv, BackupConstants, NEW c \in Controllers,
           ctl[c].pc \in {"lock", "holder", "lockPatch", "source"}
                \/ (ctl[c].pc = "report" /\ ctl[c].found # "ready"),
           Fail(c) \/ Wait(c), UNCHANGED <<snap, disk, volume, restoring, outside>>
    PROVE  VaultInv'
<1>1. PICK phase \in {"error", "creating"} : Status(c, phase, "idle")
  BY DEF Fail, Wait
<1>2. phase \in Phases
  BY DEF Phases
<1> QED  BY <1>1, <1>2, StatusStands DEF BackupConstants

(* A round that is to be tried again later.                                *)
LEMMA RetryStands ==
    ASSUME VaultInv, BackupConstants, NEW c \in Controllers, Retry(c),
           UNCHANGED <<snap, disk, volume, restoring, outside>>
    PROVE  VaultInv'
<1> QED  BY EndStands DEF Retry

(* A live backup's round goes on to its next request.                      *)
LEMMA ContinueStands ==
    ASSUME VaultInv, BackupConstants, NEW c \in Controllers,
           ctl[c].pc \in {"lock", "holder", "lockPatch", "source"},
           NEW step \in {"lockPatch", "source", "apply", "report"}, Continue(c, step),
           UNCHANGED <<snap, disk, volume, restoring, outside>>
    PROVE  VaultInv'
<1>1. Typed /\ c \in Readers /\ ctl[c] \in ReaderSet
  BY TypedParts DEF VaultInv, Readers, Typed, TypedCtl
<1>2. ctl' = Goto(c, step) /\ backup' = backup /\ step \in Steps
  BY DEF Continue, Steps
<1>3. TypedCtl' /\ OthersKept(c) /\ ctl'[c] = [ctl[c] EXCEPT !.pc = step]
  BY <1>1, <1>2, GotoEffect DEF Typed, TypedCtl, OthersKept, Kept, Same
<1>4. /\ ctl'[c].pc = step /\ ctl'[c].b = ctl[c].b /\ ctl'[c].del = ctl[c].del
      /\ ctl'[c].seen = ctl[c].seen /\ ctl'[c].freshB = ctl[c].freshB
      /\ ctl'[c].found = ctl[c].found
  BY <1>1, <1>3 DEF ReaderSet
<1>5. backup[ctl[c].b].life = "live" =>
          /\ ctl'[c].found = "ready" => snap[ctl[c].b].at = "ready"
          /\ ctl[c].seen # "ready"
  BY <1>4 DEF VaultInv, Reporting
<1>6. volume' \in [lock : Backups \cup {None}, target : Destinations \cup {Default}]
  BY DEF VaultInv, BTypeOK
<1> QED  BY <1>2, <1>3, <1>4, <1>5, <1>6, GoOnStands, ZenonT(40)

(* acquire_target_lock up to the volume's annotation.                      *)
LEMMA LockStands ==
    ASSUME VaultInv, BackupConstants, NEW c \in Controllers, Lock(c)
    PROVE  VaultInv'
<1>1. Typed /\ c \in Readers /\ ctl[c] \in ReaderSet
  BY TypedParts DEF VaultInv, Readers, Typed, TypedCtl
<1>2. ctl[c].pc = "lock" /\ UNCHANGED <<snap, disk, volume, restoring, outside>>
  BY DEF Lock
<1>3. CASE Retry(c)
  BY <1>2, <1>3, RetryStands
<1>4. CASE Fail(c)
  BY <1>2, <1>4, FailStands
<1>5. CASE Continue(c, Granted(c))
  <2>1. Granted(c) \in {"source", "report"}
    BY DEF Granted
  <2> QED  BY <1>2, <1>5, <2>1, ContinueStands
<1>6. CASE /\ ctl' = [ctl EXCEPT ![c].pc = "holder", ![c].holder = volume.lock,
                                    ![c].freshV = TRUE]
           /\ UNCHANGED backup
  <2> DEFINE r == [ctl[c] EXCEPT !.pc = "holder", !.holder = volume.lock, !.freshV = TRUE]
  <2>1. volume.lock \in Backups \cup {None}
    BY DEF VaultInv, BTypeOK
  <2>2. r \in ReaderSet
    BY <1>1, <2>1 DEF ReaderSet, Steps
  <2>3. ctl' = [ctl EXCEPT ![c] = r]
    BY <1>1, <1>6 DEF TypedCtl, Typed
  <2>4. /\ r.pc = "holder" /\ r.b = ctl[c].b /\ r.del = ctl[c].del
        /\ r.seen = ctl[c].seen /\ r.freshB = ctl[c].freshB /\ r.found = ctl[c].found
    BY <1>1 DEF ReaderSet
  <2> HIDE DEF r
  <2>5. TypedCtl' /\ OthersKept(c) /\ ctl'[c] = r
    BY <1>1, <2>2, <2>3 DEF Typed, TypedCtl, OthersKept, Kept, Same
  <2>6. backup[ctl[c].b].life = "live" =>
            /\ ctl[c].found = "ready" => snap[ctl[c].b].at = "ready"
            /\ ctl[c].seen # "ready"
    BY <1>2 DEF VaultInv, Reporting
  <2>7. volume' \in [lock : Backups \cup {None}, target : Destinations \cup {Default}]
    BY <1>2 DEF VaultInv, BTypeOK
  <2> QED  BY <1>2, <1>6, <2>4, <2>5, <2>6, <2>7, GoOnStands
<1> QED  BY <1>3, <1>4, <1>5, <1>6 DEF Lock

(* acquire_target_lock, the question whether the holder is done.           *)
LEMMA HolderStands ==
    ASSUME VaultInv, BackupConstants, NEW c \in Controllers, Holder(c)
    PROVE  VaultInv'
<1>1. ctl[c].pc = "holder" /\ UNCHANGED <<snap, disk, volume, restoring, outside>>
  BY DEF Holder
<1>2. Wait(c) \/ Retry(c) \/ Continue(c, "lockPatch")
  BY DEF Holder
<1> QED  BY <1>1, <1>2, FailStands, RetryStands, ContinueStands

(* acquire_target_lock, its patch.                                         *)
LEMMA LockPatchStands ==
    ASSUME VaultInv, BackupConstants, NEW c \in Controllers, LockPatch(c)
    PROVE  VaultInv'
<1> DEFINE b == ctl[c].b
           k == Goto(c, Granted(c))
<1>1. Typed /\ c \in Readers /\ ctl[c] \in ReaderSet
  BY TypedParts DEF VaultInv, Readers, Typed, TypedCtl
<1>2. ctl[c].pc = "lockPatch" /\ UNCHANGED <<snap, disk, restoring, outside>>
  BY DEF LockPatch
<1>3. CASE ctl[c].freshV
  <2>1. WriteVolume([lock |-> b, target |-> DestOf[b]], k) /\ backup' = backup
    BY <1>3 DEF LockPatch
  <2>2. Granted(c) \in Steps /\ Granted(c) \in {"source", "report"}
    BY DEF Granted, Steps
  <2>3. /\ k \in [Readers -> ReaderSet]
        /\ k[c] = [ctl[c] EXCEPT !.pc = Granted(c)]
        /\ \A p \in Readers \ {c} : k[p] = ctl[p]
    BY <1>1, <2>2, GotoEffect DEF Typed
  <2> HIDE DEF k
  <2>4. /\ volume' = [lock |-> b, target |-> DestOf[b]]
        /\ TypedCtl'
        /\ \A p \in Readers : Same(k[p], ctl'[p]) /\ ~ctl'[p].freshV
                              /\ ctl'[p].freshB = k[p].freshB
    BY <2>1, <2>3, WriteVolumeEffect
  <2>5. OthersKept(c)
    BY <2>3, <2>4 DEF OthersKept, Kept
  <2>6. b \in Backups
    BY <1>2 DEF VaultInv, Working
  <2>7. volume' \in [lock : Backups \cup {None}, target : Destinations \cup {Default}]
    BY <2>4, <2>6 DEF BackupConstants
  <2>8. /\ ctl'[c].pc = Granted(c) /\ ctl'[c].b = ctl[c].b /\ ctl'[c].del = ctl[c].del
        /\ ctl'[c].seen = ctl[c].seen /\ ctl'[c].freshB = ctl[c].freshB
        /\ ctl'[c].found = ctl[c].found
    BY <1>1, <2>3, <2>4 DEF Same, ReaderSet
  <2>9. backup[b].life = "live" =>
            /\ ctl[c].found = "ready" => snap[b].at = "ready"
            /\ ctl[c].seen # "ready"
    BY <1>2 DEF VaultInv, Reporting
  <2> QED  BY <1>2, <2>1, <2>2, <2>4, <2>5, <2>7, <2>8, <2>9, GoOnStands
<1>4. CASE ~ctl[c].freshV
  <2>1. volume' = volume /\ (Wait(c) \/ Retry(c))
    BY <1>4 DEF LockPatch
  <2> QED  BY <1>2, <2>1, FailStands, RetryStands
<1> QED  BY <1>3, <1>4

(* The check of the source claim.                                          *)
LEMMA SourceStands ==
    ASSUME VaultInv, BackupConstants, NEW c \in Controllers, Source(c)
    PROVE  VaultInv'
<1>1. ctl[c].pc = "source" /\ UNCHANGED <<snap, disk, volume, restoring, outside>>
  BY DEF Source
<1>2. Continue(c, "apply") \/ Fail(c)
  BY DEF Source
<1> QED  BY <1>1, <1>2, FailStands, ContinueStands

(* Ready is reported of a snapshot that was seen ready.                    *)
LEMMA ReportStands ==
    ASSUME VaultInv, BackupConstants, NEW c \in Controllers, Report(c)
    PROVE  VaultInv'
<1>1. ctl[c].pc = "report" /\ UNCHANGED <<snap, disk, volume, restoring, outside>>
  BY DEF Report
<1>2. CASE ctl[c].found = "ready"
  <2>1. Status(c, "ready", "unlock")
    BY <1>2 DEF Report
  <2> QED  BY <1>1, <1>2, <2>1, StatusStands DEF BackupConstants, Phases
<1>3. CASE ctl[c].found # "ready"
  BY <1>1, <1>3, FailStands DEF Report
<1> QED  BY <1>2, <1>3

(* The snapshot is taken: it was not there, so no restore reads it.        *)
LEMMA ApplyStands ==
    ASSUME VaultInv, BackupConstants, NEW c \in Controllers, Apply(c)
    PROVE  VaultInv'
<1> DEFINE b == ctl[c].b
           f == IF snap[b].at = "ready" THEN "ready" ELSE "unready"
           r == [ctl[c] EXCEPT !.pc = "report", !.found = f]
<1>1. Typed /\ c \in Readers /\ ctl[c] \in ReaderSet
  BY TypedParts DEF VaultInv, Readers, Typed, TypedCtl
<1>2. ctl[c].pc = "apply" /\ UNCHANGED <<backup, disk, volume, restoring, outside>>
  BY DEF Apply
<1>3. b \in Backups /\ ~ctl[c].del /\ snap[b] \in SnapSet /\ backup[b].life # "absent"
  BY <1>1, <1>2 DEF VaultInv, Working, Deleting, Typed
<1>4. r \in ReaderSet
  BY <1>1 DEF ReaderSet, Steps
<1>5. ctl' = [ctl EXCEPT ![c] = r]
  BY <1>1 DEF Apply, TypedCtl, Typed
<1>6. /\ r.pc = "report" /\ r.b = ctl[c].b /\ r.del = ctl[c].del
      /\ r.seen = ctl[c].seen /\ r.freshB = ctl[c].freshB /\ r.found = f
  BY <1>1 DEF ReaderSet
<1> HIDE DEF r
<1>7. TypedCtl' /\ OthersKept(c) /\ ctl'[c] = r
  BY <1>1, <1>4, <1>5 DEF Typed, TypedCtl, OthersKept, Kept, Same
<1>8. /\ snap' \in [Backups -> SnapSet]
      /\ \A x \in Backups \ {b} : snap'[x] = snap[x]
      /\ snap'[b].dying = snap[b].dying
      /\ snap'[b].at = IF snap[b].at = "none" THEN "taking" ELSE snap[b].at
  <2>1. CASE snap[b].at = "none"
    <3>1. snap' = [snap EXCEPT ![b] = [snap[b] EXCEPT !.at = "taking"]]
      BY <2>1 DEF Apply
    <3>2. [snap[b] EXCEPT !.at = "taking"] \in SnapSet
      BY <1>3 DEF SnapSet
    <3> QED  BY <1>1, <1>3, <2>1, <3>1, <3>2 DEF Typed, SnapSet
  <2>2. CASE snap[b].at # "none"
    BY <1>1, <2>2 DEF Apply, Typed
  <2> QED  BY <2>1, <2>2
<1>9. BTypeOK'
  BY <1>2, <1>7, <1>8
     DEF VaultInv, BTypeOK, TypedCtl, ReaderSet, SnapSet, restoring, outside
<1>10. Fenced /\ \A x \in Backups : Onward(x)
  BY <1>2, <1>8 DEF Fenced, Onward
<1>11. \A x \in Backups : Stored(x)'
  <2> SUFFICES ASSUME NEW x \in Backups PROVE Stored(x)'
    OBVIOUS
  <2>1. CASE x = b
    BY <1>2, <1>3, <1>8, <2>1 DEF VaultInv, Stored
  <2>2. CASE x # b
    BY <1>2, <1>8, <2>2 DEF VaultInv, Stored
  <2> QED  BY <2>1, <2>2
<1>12. Spared(c)
  BY <1>2, <1>3, <1>6, <1>7, <1>8 DEF VaultInv, Restoration, Busy, Spared, Safe
<1>13. Working(c)' /\ Deleting(c)'
  BY <1>2, <1>3, <1>6, <1>7 DEF VaultInv, Working, Deleting
<1>14. Reporting(c)'
  BY <1>2, <1>3, <1>6, <1>7, <1>8 DEF VaultInv, Reporting
<1>15. UNCHANGED <<service, home, asked, restorer, offsite>>
  BY <1>2 DEF restoring, outside
<1> QED
  BY <1>7, <1>9, <1>10, <1>11, <1>12, <1>13, <1>14, <1>15, RoundStands DEF BackupConstants

(* A restart ends the replica's rounds.                                    *)
LEMMA CrashStands ==
    ASSUME VaultInv, BackupConstants, NEW c \in Controllers, Crash(c)
    PROVE  VaultInv'
<1>1. Typed /\ c \in Readers
  BY TypedParts DEF VaultInv, Readers
<1>2. /\ ctl' = Finish(c) /\ restorer' = [restorer EXCEPT ![c] = "idle"]
      /\ crashes' = crashes + 1
      /\ UNCHANGED <<backup, snap, disk, volume, service, home, asked, dest, offsite, clone, env>>
  BY DEF Crash, objects
<1>3. TypedCtl' /\ OthersKept(c) /\ Stopped(c)
  BY <1>1, <1>2, FinishEffect DEF Typed, TypedCtl, OthersKept, Kept, Same, Stopped
<1>4. Working(c)' /\ Deleting(c)' /\ Reporting(c)' /\ ~ctl'[c].del
  BY <1>3, StoppedStands
<1>5. restorer' \in [Controllers -> {"idle", "create"}]
      /\ \A p \in Controllers : restorer'[p] = "create" => restorer[p] = "create"
  BY <1>2 DEF VaultInv, BTypeOK
<1>6. BTypeOK'
  BY <1>2, <1>3, <1>5 DEF VaultInv, BTypeOK, TypedCtl, ReaderSet
<1>7. Fenced /\ \A x \in Backups : Onward(x)
  BY <1>2 DEF Fenced, Onward
<1>8. \A p \in Controllers : Working(p)' /\ Deleting(p)' /\ Reporting(p)'
  BY <1>3, <1>4, <1>7, KeptStands DEF VaultInv, OthersKept, Readers
<1>9. Removing'
  <2>1. API \in Readers \ {c} /\ ctl'[API] = ctl[API]
    BY <1>1, <1>2, FinishEffect DEF Typed, Readers, BackupConstants
  <2> QED  BY <1>2, <2>1 DEF VaultInv, Removing
<1>10. \A b \in Backups : Stored(b)'
  BY <1>2 DEF VaultInv, Stored
<1>11. Restoration'
  <2>1. \A p \in Controllers \ {c} : ctl'[p] = ctl[p]
    BY <1>1, <1>2, FinishEffect DEF Typed, Readers
  <2>2. ASSUME NEW b \in Backups, Safe(b) PROVE Safe(b)'
    BY <1>2, <1>4, <2>1, <2>2 DEF Safe
  <2>3. restorer \in [Controllers -> {"idle", "create"}]
    BY DEF VaultInv, BTypeOK
  <2> QED  BY <1>2, <1>5, <2>2, <2>3 DEF VaultInv, Restoration
<1> QED  BY <1>6, <1>8, <1>9, <1>10, <1>11 DEF VaultInv
-----------------------------------------------------------------------------
(* The requests of tenants, the exporter, the drill and the storage: every *)
(* round goes on.                                                          *)
LEMMA WorldStands ==
    ASSUME VaultInv, BTypeOK', \A p \in Controllers : Kept(p), Fenced,
           \A x \in Backups : Onward(x), Removing',
           \A b \in Backups : Stored(b)', Restoration'
    PROVE  VaultInv'
<1>1. TypedCtl'
  BY TypedParts, PTL DEF Typed
<1> QED  BY <1>1, KeptStands DEF VaultInv

(* Safety of what a restore reads survives when readers only lose copies.  *)
LEMMA SafeStays ==
    ASSUME \A p \in Controllers : Kept(p), NEW b, Safe(b),
           backup'[b].life \in {"live", "deleting"}, snap'[b] = snap[b]
    PROVE  Safe(b)'
<1> QED  BY DEF Safe, Kept, Same

(* Steps outside of backups, snapshots, readers and restores.              *)
LEMMA AsideStands ==
    ASSUME VaultInv, BTypeOK', UNCHANGED <<backup, snap, ctl, restoring>>,
           offsite' \subseteq offsite
    PROVE  VaultInv'
<1>1. \A p \in Controllers : Kept(p)
  BY DEF Kept, Same
<1>2. Fenced /\ \A x \in Backups : Onward(x)
  BY DEF Fenced, Onward
<1>3. Removing'
  BY DEF VaultInv, Removing
<1>4. \A b \in Backups : Stored(b)'
  BY DEF VaultInv, Stored
<1>5. Restoration'
  <2>1. ASSUME NEW b \in Backups, Safe(b) PROVE Safe(b)'
    BY <2>1 DEF Safe
  <2> QED  BY <2>1 DEF VaultInv, Restoration, restoring
<1> QED  BY <1>1, <1>2, <1>3, <1>4, <1>5, WorldStands

(* A write of one backup outdates the copies of it and no others.          *)
LEMMA WrittenStands ==
    ASSUME VaultInv, BackupConstants, NEW b \in Backups, NEW v \in BackupSet,
           Write(b, v, ctl), UNCHANGED <<snap, disk, volume, restoring, dest, crashes, env>>,
           offsite' \in SUBSET Backups, offsite' \subseteq offsite \cup {b},
           clone' \in [Backups -> {"none", "queued", "running"}],
           v = backup[b] \/ (backup[b].life = "absent" /\ v.life = "live" /\ v.phase = "none")
    PROVE  VaultInv'
<1>1. Typed /\ API \in Readers
  BY TypedParts DEF VaultInv, Readers
<1>2. /\ backup' \in [Backups -> BackupSet]
      /\ backup'[b] = v
      /\ \A x \in Backups \ {b} : backup'[x] = backup[x]
      /\ TypedCtl'
      /\ \A p \in Readers : Same(ctl[p], ctl'[p]) /\ (ctl'[p].b = b => ~ctl'[p].freshB)
  BY <1>1, WriteEffect DEF Typed, TypedCtl
<1>3. BTypeOK'
  BY <1>2 DEF VaultInv, BTypeOK, TypedCtl, ReaderSet, BackupSet, restoring
<1>4. \A p \in Controllers : Kept(p)
  BY <1>2 DEF Kept, Readers
<1>5. Fenced /\ \A x \in Backups : Onward(x)
  BY <1>2 DEF Fenced, Onward
<1>6. Removing'
  <2>1. ctl'[API].b # b \/ ~ctl'[API].freshB
    BY <1>1, <1>2
  <2>2. Same(ctl[API], ctl'[API])
    BY <1>1, <1>2
  <2> QED  BY <1>2, <2>1, <2>2 DEF VaultInv, Removing, Same
<1>7. \A x \in Backups : Stored(x)'
  <2> SUFFICES ASSUME NEW x \in Backups PROVE Stored(x)'
    OBVIOUS
  <2>1. CASE x = b /\ v # backup[b]
    BY <1>2, <2>1 DEF VaultInv, Stored, NoSnap
  <2>2. CASE x # b \/ v = backup[b]
    BY <1>2, <2>2 DEF VaultInv, Stored
  <2> QED  BY <2>1, <2>2
<1>8. Restoration'
  <2>1. ASSUME NEW x \in Backups, Safe(x) PROVE Safe(x)'
    <3>1. backup'[x].life \in {"live", "deleting"}
      BY <1>2, <2>1 DEF Safe
    <3> QED  BY <1>4, <2>1, <3>1, SafeStays
  <2> QED  BY <2>1 DEF VaultInv, Restoration, restoring
<1> QED  BY <1>3, <1>4, <1>5, <1>6, <1>7, <1>8, WorldStands

(* A new backup has no snapshot and no reader.                             *)
LEMMA CreateStands ==
    ASSUME VaultInv, BackupConstants, NEW b \in Backups, Create(b)
    PROVE  VaultInv'
<1>1. PICK u \in SourceSeen :
         Write(b, [life |-> "live", phase |-> "none", uid |-> u, old |-> FALSE], ctl)
  BY DEF Create
<1> DEFINE v == [life |-> "live", phase |-> "none", uid |-> u, old |-> FALSE]
<1>2. u \in Nat
  BY DEF SourceSeen, VaultInv, BTypeOK
<1>3. v \in BackupSet /\ v.life = "live" /\ v.phase = "none"
  BY <1>2 DEF BackupSet, Phases
<1>4. Write(b, v, ctl) /\ backup[b].life = "absent"
  BY <1>1 DEF Create
<1> HIDE DEF v
<1>5. UNCHANGED <<snap, disk, volume, restoring, dest, offsite, clone, crashes, env>>
  BY DEF Create, outside
<1>6. offsite \in SUBSET Backups /\ clone \in [Backups -> {"none", "queued", "running"}]
  BY DEF VaultInv, BTypeOK
<1> QED  BY <1>3, <1>4, <1>5, <1>6, WrittenStands

(* A verification request rewrites the backup as it is.                    *)
LEMMA RequestVerificationStands ==
    ASSUME VaultInv, BackupConstants, NEW b \in Backups, RequestVerification(b)
    PROVE  VaultInv'
<1>1. backup[b] \in BackupSet
  BY TypedParts DEF VaultInv, Typed
<1>2. clone' \in [Backups -> {"none", "queued", "running"}]
  BY DEF VaultInv, BTypeOK, RequestVerification
<1>3. offsite' = offsite /\ offsite \in SUBSET Backups
  BY DEF VaultInv, BTypeOK, RequestVerification
<1> QED  BY <1>1, <1>2, <1>3, WrittenStands DEF RequestVerification

(* An off-site lock outdates the copy a DELETE has checked.                *)
LEMMA OffsiteLockStands ==
    ASSUME VaultInv, BackupConstants, NEW b \in Backups, OffsiteLock(b)
    PROVE  VaultInv'
<1>1. backup[b] \in BackupSet
  BY TypedParts DEF VaultInv, Typed
<1>2. clone' \in [Backups -> {"none", "queued", "running"}]
  BY DEF VaultInv, BTypeOK, OffsiteLock
<1>3. offsite' = offsite \cup {b} /\ offsite' \in SUBSET Backups
  BY DEF VaultInv, BTypeOK, OffsiteLock
<1> QED  BY <1>1, <1>2, <1>3, WrittenStands DEF OffsiteLock

(* DELETE checks a live backup that is not exported.                       *)
LEMMA DeleteCheckStands ==
    ASSUME VaultInv, BackupConstants, NEW b \in Backups, DeleteCheck(b)
    PROVE  VaultInv'
<1> DEFINE r == [ctl[API] EXCEPT !.pc = "delete", !.b = b, !.freshB = TRUE]
<1>1. Typed /\ API \in Readers /\ ctl[API] \in ReaderSet
  BY TypedParts DEF VaultInv, Readers, Typed, TypedCtl
<1>2. /\ backup[b].life = "live" /\ b \notin offsite
      /\ UNCHANGED <<backup, snap, disk, volume, restoring, outside>>
  BY DEF DeleteCheck, objects
<1>3. r \in ReaderSet /\ r.pc = "delete" /\ r.b = b
  BY <1>1 DEF ReaderSet, Steps
<1>4. ctl' = [ctl EXCEPT ![API] = r]
  BY <1>1 DEF DeleteCheck, TypedCtl, Typed
<1> HIDE DEF r
<1>5. TypedCtl' /\ ctl'[API] = r /\ \A p \in Controllers : ctl'[p] = ctl[p]
  BY <1>1, <1>3, <1>4 DEF Typed, TypedCtl, Readers, BackupConstants
<1>6. BTypeOK'
  BY <1>2, <1>5 DEF VaultInv, BTypeOK, TypedCtl, ReaderSet, restoring, outside
<1>7. \A p \in Controllers : Kept(p)
  BY <1>5 DEF Kept, Same
<1>8. Fenced /\ \A x \in Backups : Onward(x)
  BY <1>2 DEF Fenced, Onward
<1>9. Removing'
  BY <1>2, <1>3, <1>5 DEF Removing, outside
<1>10. \A x \in Backups : Stored(x)'
  BY <1>2 DEF VaultInv, Stored
<1>11. Restoration'
  <2>1. ASSUME NEW x \in Backups, Safe(x) PROVE Safe(x)'
    BY <1>2, <1>5, <2>1 DEF Safe
  <2> QED  BY <1>2, <2>1 DEF VaultInv, Restoration, restoring
<1> QED  BY <1>6, <1>7, <1>8, <1>9, <1>10, <1>11, WorldStands

(* A deletion starts from the checked copy or not at all.                  *)
LEMMA DeleteStands ==
    ASSUME VaultInv, BackupConstants, Delete
    PROVE  VaultInv'
<1> DEFINE b == ctl[API].b
           k == Finish(API)
<1>1. Typed /\ API \in Readers /\ ctl[API] \in ReaderSet
  BY TypedParts DEF VaultInv, Readers, Typed, TypedCtl
<1>2. /\ b \in Backups /\ ctl[API].pc = "delete"
      /\ UNCHANGED <<snap, disk, volume, restoring, outside>>
  BY DEF VaultInv, Removing, Delete
<1>3. /\ k \in [Readers -> ReaderSet] /\ k[API] = Idle
      /\ \A p \in Readers \ {API} : k[p] = ctl[p]
  BY <1>1, FinishEffect DEF Typed
<1>4. CASE ctl[API].freshB
  <2> DEFINE v == [backup[b] EXCEPT !.life = "deleting"]
  <2>1. Write(b, v, k)
    BY <1>4 DEF Delete
  <2>2. backup[b].life = "live"
    BY <1>2, <1>4 DEF VaultInv, Removing
  <2>3. v \in BackupSet /\ v.life = "deleting" /\ v.phase = backup[b].phase
    BY <1>1, <1>2 DEF Typed, BackupSet
  <2> HIDE DEF v, k
  <2>4. /\ backup' \in [Backups -> BackupSet]
        /\ backup'[b] = v
        /\ \A x \in Backups \ {b} : backup'[x] = backup[x]
        /\ TypedCtl'
        /\ \A p \in Readers : Same(k[p], ctl'[p]) /\ (ctl'[p].b = b => ~ctl'[p].freshB)
    BY <1>1, <1>2, <1>3, <2>1, <2>3, WriteEffect DEF Typed
  <2>5. \A p \in Controllers : Kept(p)
    BY <1>3, <2>4 DEF Kept, Readers, BackupConstants
  <2>6. BTypeOK'
    BY <1>2, <2>4 DEF VaultInv, BTypeOK, TypedCtl, ReaderSet, BackupSet, restoring, outside
  <2>7. Fenced /\ \A x \in Backups : Onward(x)
    BY <1>2, <2>2, <2>3, <2>4 DEF Fenced, Onward
  <2>8. Removing'
    BY <1>1, <1>3, <2>4, IdleTyped DEF Removing, Same
  <2>9. \A x \in Backups : Stored(x)'
    BY <1>2, <2>2, <2>3, <2>4 DEF VaultInv, Stored
  <2>10. Restoration'
    <3>1. ASSUME NEW x \in Backups, Safe(x) PROVE Safe(x)'
      <4>1. backup'[x].life \in {"live", "deleting"}
        BY <2>3, <2>4, <3>1 DEF Safe
      <4> QED  BY <1>2, <2>5, <3>1, <4>1, SafeStays
    <3> QED  BY <1>2, <3>1 DEF VaultInv, Restoration, restoring
  <2> QED  BY <2>5, <2>6, <2>7, <2>8, <2>9, <2>10, WorldStands
<1>5. CASE ~ctl[API].freshB
  <2>1. ctl' = k /\ backup' = backup
    BY <1>5 DEF Delete, Retry
  <2> HIDE DEF k
  <2>2. TypedCtl' /\ \A p \in Controllers : ctl'[p] = ctl[p]
    BY <1>3, <2>1 DEF TypedCtl, Readers, BackupConstants
  <2>3. BTypeOK'
    BY <1>2, <2>1, <2>2 DEF VaultInv, BTypeOK, TypedCtl, ReaderSet, restoring, outside
  <2>4. \A p \in Controllers : Kept(p)
    BY <2>2 DEF Kept, Same
  <2>5. Fenced /\ \A x \in Backups : Onward(x)
    BY <1>2, <2>1 DEF Fenced, Onward
  <2>6. Removing'
    BY <1>1, <1>3, <2>1, IdleTyped DEF Removing
  <2>7. \A x \in Backups : Stored(x)'
    BY <1>2, <2>1 DEF VaultInv, Stored
  <2>8. Restoration'
    <3>1. ASSUME NEW x \in Backups, Safe(x) PROVE Safe(x)'
      BY <1>2, <2>1, <2>2, <3>1 DEF Safe
    <3> QED  BY <1>2, <3>1 DEF VaultInv, Restoration, restoring
  <2> QED  BY <2>3, <2>4, <2>5, <2>6, <2>7, <2>8, WorldStands
<1> QED  BY <1>4, <1>5

(* A drill touches only its clone.                                         *)
LEMMA DrillStands ==
    ASSUME VaultInv, NEW b \in Backups, Drill(b)
    PROVE  VaultInv'
<1>1. clone' \in [Backups -> {"none", "queued", "running"}]
  BY DEF VaultInv, BTypeOK, Drill
<1>2. BTypeOK'
  BY <1>1 DEF VaultInv, BTypeOK, Drill, objects, restoring
<1> QED  BY <1>2, AsideStands DEF Drill, objects

(* A lock that is not renewed goes.                                        *)
LEMMA OffsiteExpireStands ==
    ASSUME VaultInv, NEW b \in Backups, OffsiteExpire(b)
    PROVE  VaultInv'
<1>1. offsite' \subseteq offsite
  BY DEF OffsiteExpire
<1>2. BTypeOK'
  BY <1>1 DEF VaultInv, BTypeOK, OffsiteExpire, objects, restoring
<1> QED  BY <1>1, <1>2, AsideStands DEF OffsiteExpire, objects

(* A destination is put, reached or lost.                                  *)
LEMMA DestinationStands ==
    ASSUME VaultInv, NEW d \in Destinations, PutDestination(d) \/ Reach(d)
    PROVE  VaultInv'
<1>1. dest' \in [Destinations -> {"absent", "new", "available", "lost"}]
  BY DEF VaultInv, BTypeOK, PutDestination, Reach
<1>2. UNCHANGED <<objects, ctl, restoring, offsite, clone, crashes, env>>
  BY DEF PutDestination, Reach
<1>3. BTypeOK'
  BY <1>1, <1>2 DEF VaultInv, BTypeOK, objects, restoring
<1> QED  BY <1>2, <1>3, AsideStands DEF objects

(* Steps of a restore only.                                                *)
LEMMA RestoreStands ==
    ASSUME VaultInv, UNCHANGED <<objects, ctl, outside>>,
           service' \in [state : {"none", "live", "gone"}, from : Backups \cup {None}],
           home' \in {"none", "copying", "done"}, asked' \in Backups \cup {None},
           restorer' \in [Controllers -> {"idle", "create"}],
           Restoration'
    PROVE  VaultInv'
<1>1. UNCHANGED <<backup, snap, disk, volume>>
  BY DEF objects
<1>2. BTypeOK'
  BY <1>1 DEF VaultInv, BTypeOK, outside
<1>3. \A p \in Controllers : Kept(p)
  BY DEF Kept, Same
<1>4. Fenced /\ \A x \in Backups : Onward(x)
  BY <1>1 DEF Fenced, Onward
<1>5. Removing' /\ \A x \in Backups : Stored(x)'
  BY <1>1 DEF VaultInv, Removing, Stored, outside
<1> QED  BY <1>2, <1>3, <1>4, <1>5, WorldStands

(* A restore is asked for before its service is there.                     *)
LEMMA AskRestoreStands ==
    ASSUME VaultInv, NEW b \in Backups, AskRestore(b)
    PROVE  VaultInv'
<1>1. /\ service.state = "none" /\ asked' = b
      /\ UNCHANGED <<objects, ctl, outside, service, home, restorer>>
  BY DEF AskRestore
<1>2. Restoration'
  BY <1>1 DEF VaultInv, Restoration
<1> QED  BY <1>1, <1>2, RestoreStands DEF VaultInv, BTypeOK

(* A new service restores nothing yet.                                     *)
LEMMA CreateRestoredStands ==
    ASSUME VaultInv, BackupConstants, CreateRestored
    PROVE  VaultInv'
<1>1. /\ asked # None /\ service' = [state |-> "live", from |-> asked] /\ asked' = None
      /\ UNCHANGED <<objects, ctl, outside, home, restorer>>
  BY DEF CreateRestored
<1>2. asked \in Backups /\ service.state = "none"
  BY <1>1 DEF VaultInv, BTypeOK, Restoration
<1>3. service'.state = "live" /\ service'.from = asked
  BY <1>1
<1>4. home' = "none" /\ \A c \in Controllers : restorer'[c] = "idle"
  BY <1>1, <1>2 DEF VaultInv, BTypeOK, Restoration
<1>5. Restoration'
  BY <1>1, <1>2, <1>3, <1>4 DEF Restoration
<1> QED  BY <1>1, <1>2, <1>5, RestoreStands DEF VaultInv, BTypeOK

(* A deleted service never comes back.                                     *)
LEMMA DeleteServiceStands ==
    ASSUME VaultInv, DeleteService
    PROVE  VaultInv'
<1>1. /\ service.state = "live" /\ service' = [service EXCEPT !.state = "gone"]
      /\ home' = "none"
      /\ UNCHANGED <<objects, ctl, outside, asked, restorer>>
  BY DEF DeleteService
<1>2. /\ service' \in [state : {"none", "live", "gone"}, from : Backups \cup {None}]
      /\ service'.state = "gone"
  BY <1>1 DEF VaultInv, BTypeOK
<1>3. Restoration'
  BY <1>1, <1>2 DEF VaultInv, Restoration
<1> QED  BY <1>1, <1>2, <1>3, RestoreStands DEF VaultInv, BTypeOK

(* A ready, live backup is whole and nothing removes it.                   *)
LEMMA EnsureCheckStands ==
    ASSUME VaultInv, NEW c \in Controllers, EnsureCheck(c)
    PROVE  VaultInv'
<1>1. /\ service.state = "live" /\ home = "none"
      /\ backup[service.from].life = "live" /\ backup[service.from].phase = "ready"
      /\ restorer' = [restorer EXCEPT ![c] = "create"]
      /\ UNCHANGED <<objects, ctl, outside, service, home, asked>>
  BY DEF EnsureCheck
<1>2. service.from \in Backups
  BY <1>1 DEF VaultInv, Restoration
<1>3. Safe(service.from)
  BY <1>1, <1>2 DEF VaultInv, Stored, Deleting, Safe
<1>4. Safe(service.from)'
  BY <1>1, <1>3 DEF Safe, objects
<1>5. Restoration'
  BY <1>1, <1>2, <1>4 DEF VaultInv, Restoration
<1>6. restorer' \in [Controllers -> {"idle", "create"}]
  BY <1>1 DEF VaultInv, BTypeOK
<1> QED  BY <1>1, <1>5, <1>6, RestoreStands DEF VaultInv, BTypeOK

(* The claim is created from a backup that is safe.                        *)
LEMMA EnsureCreateStands ==
    ASSUME VaultInv, NEW c \in Controllers, EnsureCreate(c)
    PROVE  VaultInv'
<1>1. /\ restorer[c] = "create" /\ restorer' = [restorer EXCEPT ![c] = "idle"]
      /\ home' = IF service.state = "live" /\ home = "none" THEN "copying" ELSE home
      /\ UNCHANGED <<objects, ctl, outside, service, asked>>
  BY DEF EnsureCreate
<1>2. restorer' \in [Controllers -> {"idle", "create"}]
      /\ \A p \in Controllers : restorer'[p] = "create" => restorer[p] = "create"
  BY <1>1 DEF VaultInv, BTypeOK
<1>3. restorer \in [Controllers -> {"idle", "create"}]
  BY DEF VaultInv, BTypeOK
<1>4. Safe(service.from) => Safe(service.from)'
  BY <1>1 DEF Safe, objects
<1>5. Restoration'
  BY <1>1, <1>2, <1>3, <1>4 DEF VaultInv, Restoration
<1> QED  BY <1>1, <1>2, <1>5, RestoreStands DEF VaultInv, BTypeOK

(* A filled disk reads its backup no more.                                 *)
LEMMA CopiedStands ==
    ASSUME VaultInv, Copied
    PROVE  VaultInv'
<1>1. /\ home = "copying" /\ home' = "done"
      /\ UNCHANGED <<objects, ctl, outside, service, asked, restorer>>
  BY DEF Copied
<1>2. Restoration'
  BY <1>1 DEF VaultInv, Restoration
<1> QED  BY <1>1, <1>2, RestoreStands DEF VaultInv, BTypeOK

(* The storage's steps on one snapshot.                                    *)
LEMMA SnapStands ==
    ASSUME VaultInv, NEW b \in Backups, NEW v \in SnapSet, snap' = [snap EXCEPT ![b] = v],
           UNCHANGED <<backup, disk, volume, ctl, restoring, outside>>,
           snap[b].at # "none",
           \/ v.at \in {"sending", "ready"} /\ v.dying = snap[b].dying /\ snap[b].at # "ready"
           \/ v = NoSnap /\ (snap[b].dying \/ backup[b].life = "gone")
    PROVE  VaultInv'
<1>1. Typed
  BY TypedParts DEF VaultInv
<1>2. /\ snap' \in [Backups -> SnapSet] /\ snap'[b] = v
      /\ \A x \in Backups \ {b} : snap'[x] = snap[x]
  BY <1>1 DEF Typed
<1>3. BTypeOK'
  BY <1>2 DEF VaultInv, BTypeOK, SnapSet, restoring, outside
<1>4. \A p \in Controllers : Kept(p)
  BY DEF Kept, Same
<1>5. NoSnap.at = "none" /\ NoSnap.dying = FALSE
  BY DEF NoSnap
<1>6. Fenced /\ \A x \in Backups : Onward(x)
  BY <1>2 DEF Fenced, Onward, VaultInv, Stored
<1>7. Removing'
  BY DEF VaultInv, Removing, outside
<1>8. \A x \in Backups : Stored(x)'
  <2> SUFFICES ASSUME NEW x \in Backups PROVE Stored(x)'
    OBVIOUS
  <2>1. CASE x # b
    BY <1>2, <2>1 DEF VaultInv, Stored
  <2>2. CASE x = b
    <3>1. backup[b].life # "absent"
      BY <1>5 DEF VaultInv, Stored
    <3>2. CASE v.at \in {"sending", "ready"} /\ v.dying = snap[b].dying /\ snap[b].at # "ready"
      BY <1>2, <2>2, <3>1, <3>2 DEF VaultInv, Stored
    <3>3. CASE v = NoSnap /\ (snap[b].dying \/ backup[b].life = "gone")
      BY <1>2, <1>5, <2>2, <3>1, <3>3 DEF VaultInv, Stored
    <3> QED  BY <3>2, <3>3
  <2> QED  BY <2>1, <2>2
<1>9. Restoration'
  <2>1. ASSUME NEW x \in Backups, Safe(x) PROVE Safe(x)'
    <3>1. x # b
      BY <2>1 DEF Safe
    <3> QED  BY <1>2, <2>1, <3>1 DEF Safe
  <2> QED  BY <2>1 DEF VaultInv, Restoration, restoring
<1> QED  BY <1>3, <1>4, <1>6, <1>7, <1>8, <1>9, WorldStands

(* The storage sends, completes or drops a snapshot.                       *)
LEMMA StorageStands ==
    ASSUME VaultInv, NEW b \in Backups, Send(b) \/ Sent(b) \/ Vanish(b)
    PROVE  VaultInv'
<1>1. snap[b] \in SnapSet /\ snap \in [Backups -> SnapSet]
  BY TypedParts DEF VaultInv, Typed
<1>2. CASE Send(b)
  <2> DEFINE v == [snap[b] EXCEPT !.at = "sending", !.of = disk.uid, !.target = volume.target]
  <2>1. disk.uid \in Nat /\ volume.target \in Destinations \cup {Default}
    BY DEF VaultInv, BTypeOK
  <2>2. v \in SnapSet /\ v.at = "sending" /\ v.dying = snap[b].dying
    BY <1>1, <2>1 DEF SnapSet
  <2>3. snap' = [snap EXCEPT ![b] = v]
    BY <1>1, <1>2 DEF Send
  <2> HIDE DEF v
  <2> QED  BY <1>2, <2>2, <2>3, SnapStands DEF Send
<1>3. CASE Sent(b)
  <2> DEFINE v == [snap[b] EXCEPT !.at = "ready"]
  <2>2. v \in SnapSet /\ v.at = "ready" /\ v.dying = snap[b].dying
    BY <1>1 DEF SnapSet
  <2>3. snap' = [snap EXCEPT ![b] = v]
    BY <1>1, <1>3 DEF Sent
  <2> HIDE DEF v
  <2> QED  BY <1>3, <2>2, <2>3, SnapStands DEF Sent
<1>4. CASE Vanish(b)
  <2>1. NoSnap \in SnapSet
    BY DEF NoSnap, SnapSet
  <2> QED  BY <1>4, <2>1, SnapStands DEF Vanish
<1> QED  BY <1>2, <1>3, <1>4

(* A backup grows older than its limit.                                    *)
LEMMA AgeStands ==
    ASSUME VaultInv, NEW b \in Backups, Age(b)
    PROVE  VaultInv'
<1> DEFINE v == [backup[b] EXCEPT !.old = TRUE]
<1>1. Typed /\ backup[b] \in BackupSet
  BY TypedParts DEF VaultInv, Typed
<1>2. /\ backup' = [backup EXCEPT ![b] = v]
      /\ UNCHANGED <<snap, disk, volume, ctl, restoring, outside>>
  BY <1>1 DEF Age, Typed
<1>3. v \in BackupSet /\ v.life = backup[b].life /\ v.phase = backup[b].phase
  BY <1>1 DEF BackupSet
<1> HIDE DEF v
<1>4. /\ backup' \in [Backups -> BackupSet]
      /\ \A x \in Backups : backup'[x].life = backup[x].life /\ backup'[x].phase = backup[x].phase
  BY <1>1, <1>2, <1>3 DEF Typed
<1>5. BTypeOK'
  BY <1>2, <1>4 DEF VaultInv, BTypeOK, BackupSet, restoring, outside
<1>6. \A p \in Controllers : Kept(p)
  BY <1>2 DEF Kept, Same
<1>7. Fenced /\ \A x \in Backups : Onward(x)
  BY <1>2, <1>4 DEF Fenced, Onward
<1>8. Removing' /\ \A x \in Backups : Stored(x)'
  BY <1>2, <1>4 DEF VaultInv, Removing, Stored, outside
<1>9. Restoration'
  <2>1. ASSUME NEW x \in Backups, Safe(x) PROVE Safe(x)'
    BY <1>2, <1>4, <2>1 DEF Safe
  <2> QED  BY <1>2, <2>1 DEF VaultInv, Restoration, restoring
<1> QED  BY <1>5, <1>6, <1>7, <1>8, <1>9, WorldStands

(* The source disk is lost or created anew.                                *)
LEMMA DiskStands ==
    ASSUME VaultInv, BackupConstants, LoseSource \/ NewSource
    PROVE  VaultInv'
<1>1. Typed /\ API \in Readers
  BY TypedParts DEF VaultInv, Readers
<1>2. /\ WriteVolume(FreeVolume, ctl)
      /\ UNCHANGED <<backup, snap, restoring, outside>>
      /\ disk' \in [uid : Nat, newest : Nat]
  BY DEF LoseSource, NewSource, VaultInv, BTypeOK
<1>3. /\ volume' = FreeVolume
      /\ TypedCtl'
      /\ \A p \in Readers : Same(ctl[p], ctl'[p]) /\ ctl'[p].freshB = ctl[p].freshB
  BY <1>1, <1>2, WriteVolumeEffect DEF Typed, TypedCtl
<1>4. volume' \in [lock : Backups \cup {None}, target : Destinations \cup {Default}]
  BY <1>3 DEF FreeVolume
<1>5. BTypeOK'
  BY <1>2, <1>3, <1>4 DEF VaultInv, BTypeOK, TypedCtl, ReaderSet, restoring, outside
<1>6. \A p \in Controllers : Kept(p)
  BY <1>3 DEF Kept, Readers
<1>7. Fenced /\ \A x \in Backups : Onward(x)
  BY <1>2 DEF Fenced, Onward
<1>8. Removing'
  <2>1. Same(ctl[API], ctl'[API])
    BY <1>1, <1>3
  <2> QED  BY <1>2, <2>1 DEF VaultInv, Removing, Same, outside
<1>9. \A x \in Backups : Stored(x)'
  BY <1>2 DEF VaultInv, Stored
<1>10. Restoration'
  <2>1. ASSUME NEW x \in Backups, Safe(x) PROVE Safe(x)'
    <3>1. backup'[x].life \in {"live", "deleting"} /\ snap'[x] = snap[x]
      BY <1>2, <2>1 DEF Safe
    <3> QED  BY <1>6, <2>1, <3>1, SafeStays
  <2> QED  BY <1>2, <2>1 DEF VaultInv, Restoration, restoring
<1> QED  BY <1>5, <1>6, <1>7, <1>8, <1>9, <1>10, WorldStands
-----------------------------------------------------------------------------
(* The vault invariant holds at the start.                                 *)
LEMMA VaultInit == BackupConstants /\ Init => VaultInv
<1> SUFFICES ASSUME BackupConstants, Init PROVE VaultInv
  OBVIOUS
<1>1. BTypeOK
  <2>1. \A p \in Readers : ctl[p] = Idle
    BY DEF Init
  <2>2. [life |-> "absent", phase |-> "none", uid |-> 0, old |-> FALSE] \in BackupSet
    BY DEF BackupSet, Phases
  <2>3. NoSnap \in SnapSet
    BY DEF NoSnap, SnapSet
  <2>4. backup \in [Backups -> BackupSet] /\ snap \in [Backups -> SnapSet]
        /\ ctl \in [Readers -> ReaderSet]
    BY <2>2, <2>3, IdleTyped DEF Init
  <2> QED  BY <2>4 DEF Init, BTypeOK, BackupSet, SnapSet, ReaderSet, FreeVolume
<1>2. \A p \in Controllers : ctl[p] = Idle
  BY DEF Init, Readers
<1>3. \A p \in Controllers : Working(p) /\ Deleting(p) /\ Reporting(p)
  BY <1>2, IdleTyped DEF Working, Deleting, Reporting
<1>4. Removing
  <2>1. ctl[API] = Idle
    BY DEF Init, Readers
  <2> QED  BY <2>1, IdleTyped DEF Removing
<1>5. \A b \in Backups : Stored(b)
  BY DEF Init, Stored, NoSnap
<1>6. Restoration
  BY DEF Init, Restoration
<1> QED  BY <1>1, <1>3, <1>4, <1>5, <1>6 DEF VaultInv

(* Every step of the system keeps the vault invariant.                     *)
LEMMA VaultStep == ASSUME BackupConstants, VaultInv, [Next]_vars PROVE VaultInv'
<1>1. CASE UNCHANGED vars
  <2>1. BTypeOK' /\ UNCHANGED <<backup, snap, ctl, restoring>> /\ offsite' = offsite
    BY <1>1 DEF VaultInv, BTypeOK, vars, objects, restoring, outside
  <2> QED  BY <2>1, AsideStands
<1>2. CASE Next
  BY <1>2, PickStands, GuardStands, PurgeStands, UnlockStands, UnlockPatchStands,
     FinalizeStands, LookStands, LockStands, HolderStands, LockPatchStands, SourceStands,
     ApplyStands, ReportStands, CrashStands, EnsureCheckStands, EnsureCreateStands,
     CreateStands, DeleteCheckStands, DeleteStands, RequestVerificationStands, DrillStands,
     OffsiteLockStands, OffsiteExpireStands, DestinationStands, AskRestoreStands,
     CreateRestoredStands, DeleteServiceStands, StorageStands, CopiedStands, AgeStands,
     DiskStands
     DEF Next, Step
<1> QED  BY <1>1, <1>2

(* The inductive invariant of the vault, types included: a replica knows   *)
(* only what fences keep true, and what a restore reads is safe.           *)
THEOREM VaultInvariance == Spec => []VaultInv
<1>1. Init => VaultInv
  BY BackupConstants, VaultInit
<1>2. VaultInv /\ [Next]_vars => VaultInv'
  BY BackupConstants, VaultStep
<1> QED  BY <1>1, <1>2, PTL DEF Spec

(* Every variable of the backup service keeps its type.                    *)
THEOREM BackupTypes == Spec => []BTypeOK
<1>1. VaultInv => BTypeOK
  BY DEF VaultInv
<1> QED  BY <1>1, VaultInvariance, PTL

(* Of the life, source and age of a backup a round writes only the end.    *)
Lasting(x) ==
    /\ backup'[x].life = backup[x].life
    /\ backup'[x].uid = backup[x].uid
    /\ backup'[x].old = backup[x].old

(* status() writes nothing but the phase.                                  *)
LEMMA StatusLasting ==
    ASSUME VaultInv, BackupConstants, NEW c \in Controllers, ctl[c].pc # "idle",
           NEW phase \in Phases, NEW step \in Steps, Status(c, phase, step)
    PROVE  \A x \in Backups : Lasting(x)
<1>1. Typed /\ ctl[c].b \in Backups
  BY TypedParts DEF VaultInv, Working
<1>2. \A x \in Backups :
         \/ backup'[x] = backup[x]
         \/ backup'[x] = [backup[x] EXCEPT !.phase = phase]
  BY <1>1, StatusEffect DEF BackupConstants
<1>3. ASSUME NEW x \in Backups PROVE Lasting(x)
  <2>1. backup[x] \in BackupSet
    BY <1>1 DEF Typed
  <2>2. CASE backup'[x] = backup[x]
    BY <2>2 DEF Lasting
  <2>3. CASE backup'[x] = [backup[x] EXCEPT !.phase = phase]
    BY <2>1, <2>3 DEF BackupSet, Lasting
  <2> QED  BY <1>2, <2>2, <2>3
<1> QED  BY <1>3

(* Failing and waiting write nothing but the phase.                        *)
LEMMA FailLasting ==
    ASSUME VaultInv, BackupConstants, NEW c \in Controllers, ctl[c].pc # "idle",
           Fail(c) \/ Wait(c)
    PROVE  \A x \in Backups : Lasting(x)
<1>1. PICK phase \in {"error", "creating"} : Status(c, phase, "idle")
  BY DEF Fail, Wait
<1> QED  BY <1>1, StatusLasting DEF Phases, Steps

(* A round writes only phases, or ends a deleted backup's life.            *)
LEMMA StepLasting ==
    ASSUME VaultInv, BackupConstants, NEW c \in Controllers, Step(c)
    PROVE  \A x \in Backups : Lasting(x) \/ backup[x].life \in {"deleting", "gone"}
<1>1. ASSUME backup' = backup PROVE \A x \in Backups : Lasting(x)
  BY <1>1 DEF Lasting
<1>2. CASE Guard(c) \/ Purge(c) \/ Unlock(c) \/ UnlockPatch(c) \/ Apply(c)
  BY <1>1, <1>2 DEF Guard, Purge, Unlock, UnlockPatch, Apply, objects
<1>3. CASE Finalize(c)
  <2>1. ctl[c].b \in Backups /\ backup[ctl[c].b].life \in {"deleting", "gone"}
    BY <1>3 DEF Finalize, VaultInv, Working, Deleting
  <2>2. \A x \in Backups \ {ctl[c].b} : backup'[x] = backup[x]
    BY <1>3, TypedParts DEF Finalize, Write, Retry, VaultInv, Typed
  <2> QED  BY <2>1, <2>2 DEF Lasting
<1>4. CASE Look(c)
  BY <1>1, <1>4, FailLasting DEF Look
<1>5. CASE Lock(c)
  BY <1>1, <1>5, FailLasting DEF Lock, Retry, Continue
<1>6. CASE Holder(c)
  BY <1>1, <1>6, FailLasting DEF Holder, Retry, Continue
<1>7. CASE LockPatch(c)
  BY <1>1, <1>7, FailLasting DEF LockPatch, Retry
<1>8. CASE Source(c)
  BY <1>1, <1>8, FailLasting DEF Source, Continue
<1>9. CASE Report(c)
  BY <1>9, FailLasting, StatusLasting DEF Report, Phases, Steps
<1> QED  BY <1>2, <1>3, <1>4, <1>5, <1>6, <1>7, <1>8, <1>9 DEF Step

(* Only DELETE ends a backup's life, and it holds a copy that the off-site *)
(* lock would have outdated.                                               *)
THEOREM ExportedBackupsStay == Spec => ExportedStays
<1>1. ASSUME VaultInv, [Next]_vars
      PROVE  \A b \in offsite : backup[b].life = "live" => backup'[b].life = "live"
  <2> SUFFICES ASSUME NEW b \in offsite, backup[b].life = "live"
               PROVE  backup'[b].life = "live"
    OBVIOUS
  <2>1. b \in Backups /\ Typed
    BY <1>1, TypedParts DEF VaultInv, BTypeOK
  <2>2. CASE backup' = backup
    BY <2>2
  <2>3. CASE \E c \in Controllers : Step(c)
    BY <1>1, <2>1, <2>3, StepLasting, BackupConstants DEF Lasting
  <2>4. CASE \E x \in Backups : Create(x)
    BY <2>1, <2>4 DEF Create, Write, Typed
  <2>5. CASE \E x \in Backups : RequestVerification(x) \/ OffsiteLock(x)
    BY <2>1, <2>5 DEF RequestVerification, OffsiteLock, Write, Typed
  <2>6. CASE \E x \in Backups : Age(x)
    BY <2>1, <2>6 DEF Age, Typed, BackupSet
  <2>7. CASE Delete
    <3>1. CASE ctl[API].freshB
      <4>1. ctl[API].b \in Backups \ offsite
        BY <1>1, <2>7, <3>1 DEF VaultInv, Removing, Delete
      <4> QED  BY <2>1, <2>7, <3>1, <4>1 DEF Delete, Write, Typed
    <3>2. CASE ~ctl[API].freshB
      BY <2>7, <3>2 DEF Delete, Retry
    <3> QED  BY <3>1, <3>2
  <2>8. CASE UNCHANGED vars
    BY <2>8 DEF vars, objects
  <2> QED
    BY <1>1, <2>2, <2>3, <2>4, <2>5, <2>6, <2>7, <2>8
       DEF Next, Pick, Crash, EnsureCheck, EnsureCreate, DeleteCheck, AskRestore, Drill,
           OffsiteExpire, Send, Sent, Vanish, PutDestination, Reach, CreateRestored,
           DeleteService, Copied, LoseSource, NewSource, objects
<1>2. VaultInv /\ [Next]_vars
        => [\A b \in offsite : backup[b].life = "live" => backup'[b].life = "live"]_vars
  BY <1>1
<1> QED  BY <1>2, VaultInvariance, PTL DEF Spec, ExportedStays
-----------------------------------------------------------------------------
(* The refinement.                                                         *)
Datum(s) ==
    IF s.dying \/ s.at = "none" THEN "none"
    ELSE IF s.at = "ready" THEN "whole" ELSE "partial"

(* The vault's data, backup by backup.                                     *)
LEMMA DataOf == VaultData = [b \in Backups |-> Datum(snap[b])]
                /\ VaultData' = [b \in Backups |-> Datum(snap'[b])]
<1> QED  BY DEF VaultData, Datum

(* Steps away from snapshots and restores are invisible.                   *)
LEMMA StutterVault ==
    ASSUME UNCHANGED <<snap, service, home>>
    PROVE  UNCHANGED Vault!vvars
<1> QED  BY DEF VaultData, VaultReading, Vault!vvars

(* A step on the snapshot of one backup.                                   *)
LEMMA SnapVault ==
    ASSUME NEW b \in Backups, snap \in [Backups -> SnapSet], snap' \in [Backups -> SnapSet],
           \A x \in Backups \ {b} : snap'[x] = snap[x],
           UNCHANGED <<service, home>>,
           \/ Datum(snap'[b]) = Datum(snap[b])
           \/ Datum(snap[b]) = "none" /\ Datum(snap'[b]) = "partial"
           \/ Datum(snap[b]) = "partial" /\ Datum(snap'[b]) = "whole"
           \/ /\ Datum(snap[b]) # "none" /\ Datum(snap'[b]) = "none"
              /\ b \notin VaultReading
    PROVE  Vault!Next \/ UNCHANGED Vault!vvars
<1>1. VaultReading' = VaultReading
  BY DEF VaultReading
<1>2. VaultData' = [VaultData EXCEPT ![b] = Datum(snap'[b])] /\ VaultData[b] = Datum(snap[b])
  BY DataOf
<1>3. CASE Datum(snap'[b]) = Datum(snap[b])
  <2>1. VaultData' = VaultData
    BY <1>3, DataOf
  <2> QED  BY <1>1, <2>1 DEF Vault!vvars
<1>4. CASE Datum(snap[b]) = "none" /\ Datum(snap'[b]) = "partial"
  BY <1>1, <1>2, <1>4 DEF Vault!Next, Vault!Begin
<1>5. CASE Datum(snap[b]) = "partial" /\ Datum(snap'[b]) = "whole"
  BY <1>1, <1>2, <1>5 DEF Vault!Next, Vault!Complete
<1>6. CASE Datum(snap[b]) # "none" /\ Datum(snap'[b]) = "none" /\ b \notin VaultReading
  BY <1>1, <1>2, <1>6 DEF Vault!Next, Vault!Discard
<1> QED  BY <1>3, <1>4, <1>5, <1>6

(* What a restore reads is safe.                                           *)
LEMMA ReadingSafe ==
    ASSUME VaultInv, NEW b \in VaultReading
    PROVE  b \in Backups /\ Safe(b)
<1> QED  BY DEF VaultReading, VaultInv, Restoration

(* A purge discards what no restore reads.                                 *)
LEMMA PurgeVault ==
    ASSUME VaultInv, VaultInv', NEW c \in Controllers, Purge(c)
    PROVE  Vault!Next \/ UNCHANGED Vault!vvars
<1> DEFINE b == ctl[c].b
<1>1. snap \in [Backups -> SnapSet] /\ snap' \in [Backups -> SnapSet]
  BY DEF VaultInv, BTypeOK, SnapSet
<1>2. b \in Backups /\ ctl[c].del /\ ctl[c].pc = "purge"
  BY DEF VaultInv, Working, Deleting, Purge
<1>3. b \notin VaultReading
  BY <1>2, ReadingSafe DEF Safe
<1>4. UNCHANGED <<service, home>>
  BY DEF Purge, restoring
<1>5. CASE snap[b].at = "none"
  BY <1>4, <1>5, StutterVault DEF Purge
<1>6. CASE snap[b].at # "none"
  <2>1. snap' = [snap EXCEPT ![b].dying = TRUE]
    BY <1>6 DEF Purge
  <2>2. \A x \in Backups \ {b} : snap'[x] = snap[x]
    BY <1>1, <2>1
  <2>3. snap'[b].dying
    BY <1>1, <1>2, <2>1 DEF SnapSet
  <2>4. Datum(snap'[b]) = "none"
    BY <2>3 DEF Datum
  <2> QED  BY <1>1, <1>2, <1>3, <1>4, <2>2, <2>4, SnapVault
<1> QED  BY <1>5, <1>6

(* A snapshot that is applied begins a copy.                               *)
LEMMA ApplyVault ==
    ASSUME VaultInv, VaultInv', NEW c \in Controllers, Apply(c)
    PROVE  Vault!Next \/ UNCHANGED Vault!vvars
<1> DEFINE b == ctl[c].b
<1>1. snap \in [Backups -> SnapSet] /\ snap' \in [Backups -> SnapSet]
  BY DEF VaultInv, BTypeOK, SnapSet
<1>2. b \in Backups
  BY DEF VaultInv, Working, Apply
<1>3. UNCHANGED <<service, home>>
  BY DEF Apply, restoring
<1>4. CASE snap[b].at # "none"
  BY <1>3, <1>4, StutterVault DEF Apply
<1>5. CASE snap[b].at = "none"
  <2>1. snap' = [snap EXCEPT ![b].at = "taking"]
    BY <1>5 DEF Apply
  <2>2. \A x \in Backups \ {b} : snap'[x] = snap[x]
    BY <1>1, <2>1
  <2>3. snap'[b].at = "taking" /\ snap'[b].dying = snap[b].dying /\ ~snap[b].dying
    BY <1>1, <1>2, <1>5, <2>1 DEF SnapSet, VaultInv, Stored
  <2>4. Datum(snap[b]) = "none" /\ Datum(snap'[b]) = "partial"
    BY <1>5, <2>3 DEF Datum
  <2> QED  BY <1>1, <1>2, <1>3, <2>2, <2>4, SnapVault
<1> QED  BY <1>4, <1>5

(* The storage completes a copy or drops an unread one.                    *)
LEMMA StorageVault ==
    ASSUME VaultInv, VaultInv', NEW b \in Backups, Send(b) \/ Sent(b) \/ Vanish(b)
    PROVE  Vault!Next \/ UNCHANGED Vault!vvars
<1>1. snap \in [Backups -> SnapSet] /\ snap' \in [Backups -> SnapSet]
  BY DEF VaultInv, BTypeOK, SnapSet
<1>2. UNCHANGED <<service, home>> /\ \A x \in Backups \ {b} : snap'[x] = snap[x]
  BY <1>1 DEF Send, Sent, Vanish, restoring
<1>3. CASE Send(b)
  <2>1. snap'[b].at = "sending" /\ snap'[b].dying = snap[b].dying /\ snap[b].at = "taking"
    BY <1>1, <1>3 DEF Send, SnapSet
  <2>2. Datum(snap'[b]) = Datum(snap[b])
    BY <2>1 DEF Datum
  <2> QED  BY <1>1, <1>2, <2>2, SnapVault
<1>4. CASE Sent(b)
  <2>1. snap'[b].at = "ready" /\ snap'[b].dying = snap[b].dying /\ snap[b].at = "sending"
    BY <1>1, <1>4 DEF Sent, SnapSet
  <2>2. \/ Datum(snap'[b]) = Datum(snap[b])
        \/ Datum(snap[b]) = "partial" /\ Datum(snap'[b]) = "whole"
    BY <2>1 DEF Datum
  <2> QED  BY <1>1, <1>2, <2>2, SnapVault
<1>5. CASE Vanish(b)
  <2>1. snap'[b] = NoSnap
    BY <1>1, <1>5 DEF Vanish
  <2>2. Datum(snap'[b]) = "none"
    BY <2>1 DEF Datum, NoSnap
  <2>3. b \in VaultReading => Safe(b)
    BY ReadingSafe
  <2>4. b \notin VaultReading
    BY <1>5, <2>3 DEF Vanish, Safe
  <2> QED  BY <1>1, <1>2, <2>2, <2>4, SnapVault
<1> QED  BY <1>3, <1>4, <1>5

(* The steps of a restore.                                                 *)
LEMMA RestoreVault ==
    ASSUME VaultInv, BackupConstants,
           \/ \E c \in Controllers : EnsureCreate(c)
           \/ CreateRestored \/ DeleteService \/ Copied
    PROVE  Vault!Next \/ UNCHANGED Vault!vvars
<1>1. snap' = snap
  BY DEF EnsureCreate, CreateRestored, DeleteService, Copied, objects
<1>2. VaultData' = VaultData
  BY <1>1, DataOf
<1>3. CASE VaultReading' = VaultReading
  BY <1>2, <1>3 DEF Vault!vvars
<1>4. CASE \E c \in Controllers : EnsureCreate(c)
  <2> DEFINE b == service.from
  <2>1. PICK c \in Controllers : EnsureCreate(c)
    BY <1>4
  <2>2. CASE ~(service.state = "live" /\ home = "none")
    BY <1>3, <2>1, <2>2 DEF EnsureCreate, VaultReading
  <2>3. CASE service.state = "live" /\ home = "none"
    <3>1. b \in Backups /\ Safe(b)
      BY <2>1, <2>3 DEF VaultInv, Restoration, EnsureCreate
    <3>2. VaultData[b] = "whole"
      BY <3>1, DataOf DEF Safe, Datum
    <3>3. VaultReading' = VaultReading \cup {b}
      BY <2>1, <2>3, <3>1 DEF EnsureCreate, VaultReading
    <3> QED  BY <1>2, <3>1, <3>2, <3>3 DEF Vault!Next, Vault!StartRestore
  <2> QED  BY <2>2, <2>3
<1>5. CASE CreateRestored
  <2>1. home = "none" /\ home' = home
    BY <1>5 DEF VaultInv, BTypeOK, Restoration, CreateRestored
  <2> QED  BY <1>3, <2>1 DEF VaultReading
<1>6. CASE DeleteService \/ Copied
  <2>1. home' # "copying"
    BY <1>6 DEF DeleteService, Copied
  <2>2. CASE home # "copying"
    BY <1>3, <2>1, <2>2 DEF VaultReading
  <2>3. CASE home = "copying"
    <3> DEFINE b == service.from
    <3>1. b \in Backups
      BY <2>3 DEF VaultInv, Restoration
    <3>2. VaultReading = {b} /\ VaultReading' = {}
      BY <2>1, <2>3, <3>1 DEF VaultReading
    <3> QED  BY <1>2, <3>1, <3>2 DEF Vault!Next, Vault!EndRestore
  <2> QED  BY <2>2, <2>3
<1> QED  BY <1>4, <1>5, <1>6

(* The loops implement the vault specification, for any backups, replicas, *)
(* destinations and scenarios: a restore begins from a whole copy, and no  *)
(* purge, finalizer or garbage collection takes a copy that is being read. *)
THEOREM BackupsImplementVault == Spec => ImplementsVault
<1>1. Init => Vault!Init
  BY DEF Init, Vault!Init, VaultData, VaultReading, NoSnap
<1>2. ASSUME VaultInv, VaultInv', [Next]_vars
      PROVE  Vault!Next \/ UNCHANGED Vault!vvars
  <2>1. CASE UNCHANGED <<snap, service, home>>
    BY <2>1, StutterVault
  <2>2. CASE \E c \in Controllers : Purge(c) \/ Apply(c) \/ EnsureCreate(c)
    BY <1>2, <2>2, PurgeVault, ApplyVault, RestoreVault, BackupConstants
  <2>3. CASE \E b \in Backups : Send(b) \/ Sent(b) \/ Vanish(b)
    BY <1>2, <2>3, StorageVault
  <2>4. CASE CreateRestored \/ DeleteService \/ Copied
    BY <1>2, <2>4, RestoreVault, BackupConstants
  <2>5. CASE UNCHANGED vars
    BY <2>1, <2>5 DEF vars, objects, restoring
  <2>6. ASSUME NEW c \in Controllers, Step(c), ~Purge(c), ~Apply(c)
        PROVE  UNCHANGED <<snap, service, home>>
    BY <2>6 DEF Step, Guard, Unlock, UnlockPatch, Finalize, Look, Lock, Holder, LockPatch,
                Source, Report, objects, restoring
  <2>7. ASSUME \/ \E c \in Controllers :
                     (\E b \in Backups : Pick(c, b)) \/ Crash(c) \/ EnsureCheck(c)
               \/ \E b \in Backups :
                     \/ Create(b) \/ DeleteCheck(b) \/ AskRestore(b)
                     \/ RequestVerification(b) \/ Drill(b) \/ OffsiteLock(b)
                     \/ OffsiteExpire(b) \/ Age(b)
               \/ \E d \in Destinations : PutDestination(d) \/ Reach(d)
               \/ Delete \/ LoseSource \/ NewSource
        PROVE  UNCHANGED <<snap, service, home>>
    BY <2>7 DEF Pick, Crash, EnsureCheck, Create, DeleteCheck, AskRestore,
                RequestVerification, Drill, OffsiteLock, OffsiteExpire, Age, PutDestination,
                Reach, Delete, LoseSource, NewSource, objects, restoring
  <2> QED  BY <1>2, <2>1, <2>2, <2>3, <2>4, <2>5, <2>6, <2>7 DEF Next
<1>3. VaultInv /\ VaultInv' /\ [Next]_vars => [Vault!Next]_(Vault!vvars)
  BY <1>2
<1> QED  BY <1>1, <1>3, VaultInvariance, PTL DEF Spec, ImplementsVault, Vault!Spec
-----------------------------------------------------------------------------
(* How a step carries over what a reader relies on.                        *)
Carried(x) ==
    Current(x)' /\ backup[x].life # "absent" =>
        /\ Current(x)
        /\ backup[x].phase = "ready" => backup'[x].phase = "ready"
        /\ Attached' => Attached
        /\ Attached' /\ (Held(x) \/ snap[x].at \in {"sending", "ready"})
              => Held(x)' \/ snap'[x].at \in {"sending", "ready"}

(* A round that goes on still knows what it knew of the lock.              *)
LEMMA KeptLocking ==
    ASSUME Locked, NEW p \in Controllers, Kept(p), Working(p), Locking(p),
           volume.lock \in Backups \cup {None},
           ~ctl'[p].freshV \/ (volume' = volume /\ disk'.uid = disk.uid),
           \A x \in Backups : Carried(x)
    PROVE  Locking(p)'
<1> DEFINE x == ctl[p].b
           h == volume.lock
<1>1. /\ ctl'[p].pc = ctl[p].pc /\ ctl'[p].b = ctl[p].b /\ ctl'[p].holder = ctl[p].holder
      /\ ctl'[p].freshV => ctl[p].freshV
  BY DEF Kept, Same
<1>2. ASSUME ctl'[p].freshV, ctl[p].pc = "lockPatch", volume'.lock # None, Current(volume.lock)'
      PROVE  backup'[volume.lock].phase = "ready"
  <2>1. volume' = volume /\ h \in Backups /\ backup[h].life # "absent"
    BY <1>2 DEF Locked
  <2>2. Current(h) /\ (backup[h].phase = "ready" => backup'[h].phase = "ready")
    <3>1. Current(h)'
      BY <1>2, <2>1
    <3> QED  BY <2>1, <3>1 DEF Carried
  <2> QED  BY <1>1, <1>2, <2>1, <2>2 DEF Locking
<1>3. ASSUME ctl[p].pc \in {"source", "apply"}, Current(x)', Attached'
      PROVE  Held(x)' \/ snap'[x].at \in {"sending", "ready"}
  <2>1. x \in Backups /\ backup[x].life # "absent"
    BY <1>3 DEF Working
  <2>2. Carried(ctl[p].b)
    BY <2>1
  <2> QED  BY <1>1, <1>3, <2>1, <2>2 DEF Carried, Locking, Current, Held
<1>5. /\ Enabled = {} => ctl'[p].pc \notin {"holder", "lockPatch", "unlockPatch"}
      /\ ctl'[p].freshV /\ ctl'[p].pc \in {"holder", "lockPatch"} =>
            ctl'[p].holder = volume'.lock /\ disk'.uid # 0
      /\ ctl'[p].freshV /\ ctl'[p].pc = "unlockPatch" => volume'.lock = ctl'[p].b
  BY <1>1 DEF Locking
<1>6. ctl'[p].freshV /\ ctl'[p].pc = "lockPatch" /\ volume'.lock # None /\ Current(volume.lock)'
          => backup'[volume'.lock].phase = "ready"
  BY <1>1, <1>2
<1>7. ctl'[p].pc \in {"source", "apply"} /\ Current(ctl[p].b)' /\ Attached'
          => Held(ctl[p].b)' \/ snap'[ctl'[p].b].at \in {"sending", "ready"}
  BY <1>1, <1>3
<1> QED  BY <1>5, <1>6, <1>7 DEF Locking

(* Steps that leave the snapshots, the disk and the volume alone.          *)
Calm(x) ==
    /\ backup'[x].life = "absent" => backup[x].life = "absent"
    /\ backup'[x].life # "absent" => backup'[x].uid \in 1..disk.newest
    /\ Current(x)' =>
         \/ backup[x].life = "absent" /\ backup'[x].phase = "none"
         \/ /\ Current(x)
            /\ backup[x].phase = "ready" => backup'[x].phase = "ready"
            /\ backup'[x].phase = "error" => backup[x].phase = "error" \/ disk.uid = 0

(* Such steps keep the lock invariant.                                     *)
LEMMA CalmStands ==
    ASSUME VaultInv, LockInv, UNCHANGED <<snap, disk, volume>>,
           \A x \in Backups : Calm(x),
           \A p \in Controllers : Kept(p) \/ Locking(p)'
    PROVE  LockInv'
<1>1. volume.lock \in Backups \cup {None} /\ disk \in [uid : Nat, newest : Nat]
  BY DEF VaultInv, BTypeOK
<1>2. Sources'
  BY <1>1 DEF LockInv, Sources, Calm
<1>3. Locked'
  BY <1>1 DEF LockInv, Locked, Calm
<1>4. \A x \in Backups : Carried(x)
  BY DEF Calm, Carried, Attached, Held
<1>5. \A p \in Controllers : Locking(p)'
  BY <1>1, <1>4, KeptLocking DEF VaultInv, LockInv
<1>6. ASSUME NEW x \in Backups PROVE Placed(x)'
  <2>1. SUFFICES ASSUME Current(x)' PROVE Placed(x)'
    BY DEF Placed
  <2>2. CASE backup[x].life = "absent" /\ backup'[x].phase = "none"
    <3>1. snap'[x].at = "none"
      BY <2>2 DEF VaultInv, Stored, NoSnap
    <3> QED  BY <2>2, <3>1 DEF Placed
  <2>3. CASE /\ Current(x)
             /\ backup[x].phase = "ready" => backup'[x].phase = "ready"
             /\ backup'[x].phase = "error" => backup[x].phase = "error" \/ disk.uid = 0
    <3>1. backup'[x].uid = backup[x].uid
      BY <2>1, <2>3 DEF Current
    <3> QED  BY <2>3, <3>1 DEF LockInv, Placed, Attached, Held
  <2> QED  BY <2>1, <2>2, <2>3 DEF Calm
<1> QED  BY <1>2, <1>3, <1>5, <1>6 DEF LockInv

(* A backup whose life, source, age and phase stay is calm.                *)
LEMMA CalmBackup ==
    ASSUME LockInv, NEW x \in Backups, UNCHANGED disk, Lasting(x),
           backup'[x].phase = backup[x].phase
    PROVE  Calm(x)
<1> QED  BY DEF Calm, Lasting, Current, LockInv, Sources

(* Nothing but rounds and restores moves.                                  *)
LEMMA StillStands ==
    ASSUME VaultInv, LockInv, UNCHANGED <<backup, snap, disk, volume>>,
           \A p \in Controllers : Kept(p) \/ Locking(p)'
    PROVE  LockInv'
<1>1. \A x \in Backups : Calm(x)
  BY CalmBackup DEF Lasting
<1> QED  BY <1>1, CalmStands

(* A reader at rest relies on no lock.                                     *)
LEMMA StoppedLocking ==
    ASSUME NEW c \in Controllers, Stopped(c)
    PROVE  Locking(c)'
<1> QED  BY IdleTyped DEF Stopped, Locking

(* A step of c that does not touch the lock's state.                       *)
LEMMA PassedLocking ==
    ASSUME NEW c \in Controllers,
           ctl'[c].pc \in {"guard", "purge", "unlock", "finalize", "look", "lock", "report"}
    PROVE  Locking(c)'
<1> QED  BY DEF Locking

(* status(), where an error is either old news or tells of a lost disk.    *)
LEMMA StatusLock ==
    ASSUME VaultInv, LockInv, BackupConstants, NEW c \in Controllers,
           ctl[c].pc \in {"look", "lock", "holder", "lockPatch", "source", "report"},
           NEW phase \in Phases, NEW step \in {"idle", "unlock"}, Status(c, phase, step),
           UNCHANGED <<snap, disk, volume>>,
           phase # "ready" /\ ctl[c].pc = "report" => ctl[c].found # "ready",
           phase # "ready" /\ ctl[c].pc = "look" => snap[ctl[c].b].at = "none",
           phase = "error" /\ Current(ctl[c].b) => ctl[c].seen = "error" \/ disk.uid = 0
    PROVE  LockInv'
<1> DEFINE b == ctl[c].b
<1>1. Typed /\ b \in Backups /\ step \in Steps
  BY TypedParts DEF VaultInv, Working, Steps
<1>2. /\ OthersKept(c)
      /\ Stopped(c) \/ (step # "idle" /\ Moved(c, step))
      /\ \A x \in Backups :
           \/ backup'[x] = backup[x]
           \/ /\ x = b
              /\ ctl[c].seen # phase
              /\ backup'[x] = [backup[x] EXCEPT !.phase = phase]
  BY <1>1, StatusEffect DEF BackupConstants
<1>3. \A x \in Backups : backup[x].life = "live" /\ backup[x].phase = "ready"
                            => backup'[x].phase = "ready"
  BY <1>1, ReadyKept DEF BackupConstants
<1>4. \A x \in Backups : Lasting(x)
  BY <1>1, StatusLasting
<1>5. \A x \in Backups : backup'[x].phase = "error" /\ Current(x)
                            => backup[x].phase = "error" \/ disk.uid = 0
  <2> SUFFICES ASSUME NEW x \in Backups, backup'[x].phase = "error", Current(x),
                      backup'[x] # backup[x]
               PROVE  disk.uid = 0
    OBVIOUS
  <2>1. x = b /\ ctl[c].seen # phase /\ backup'[x] = [backup[x] EXCEPT !.phase = phase]
    BY <1>2
  <2>2. phase = "error"
    BY <1>1, <2>1 DEF Typed, BackupSet
  <2> QED  BY <2>1, <2>2
<1>6. \A x \in Backups : Calm(x)
  BY <1>3, <1>4, <1>5 DEF Calm, Lasting, Current, LockInv, Sources
<1>7. Locking(c)'
  BY <1>2, StoppedLocking, PassedLocking DEF Moved
<1>8. \A p \in Controllers : Kept(p) \/ Locking(p)'
  BY <1>2, <1>7 DEF OthersKept, Readers
<1> QED  BY <1>6, <1>8, CalmStands

(* An error that tells of a lost disk.                                     *)
LEMMA FailLock ==
    ASSUME VaultInv, LockInv, BackupConstants, NEW c \in Controllers,
           ctl[c].pc \in {"lock", "holder", "lockPatch", "source"},
           Fail(c), UNCHANGED <<snap, disk, volume>>, Current(ctl[c].b) => disk.uid = 0
    PROVE  LockInv'
<1> QED  BY StatusLock DEF Fail, Phases

(* Waiting: an error only once the backup is old.                          *)
LEMMA WaitLock ==
    ASSUME VaultInv, LockInv, BackupConstants, NEW c \in Controllers,
           ctl[c].pc \in {"lock", "holder", "lockPatch", "source"}
                \/ (ctl[c].pc = "report" /\ ctl[c].found # "ready"),
           Wait(c), UNCHANGED <<snap, disk, volume>>
    PROVE  LockInv'
<1>1. PICK phase \in {"error", "creating"} :
         Status(c, phase, "idle") /\ (phase = "error" => backup[ctl[c].b].old)
  BY DEF Wait
<1>2. phase = "error" => ~Current(ctl[c].b)
  BY <1>1 DEF Current
<1> QED  BY <1>1, <1>2, StatusLock DEF Phases

(* A round that ends leaves the lock as it is.                             *)
LEMMA EndLock ==
    ASSUME VaultInv, LockInv, NEW c \in Readers, ctl' = Finish(c),
           UNCHANGED <<backup, snap, disk, volume>>
    PROVE  LockInv'
<1>1. TypedCtl
  BY TypedParts DEF VaultInv, Typed
<1>2. OthersKept(c) /\ Stopped(c)
  BY <1>1, FinishEffect DEF OthersKept, Kept, Same, Stopped
<1>3. \A p \in Controllers : Kept(p) \/ Locking(p)'
  BY <1>2, StoppedLocking DEF OthersKept, Readers
<1> QED  BY <1>3, StillStands

(* One reader's record is replaced, the objects are not.                   *)
LEMMA TurnLock ==
    ASSUME VaultInv, LockInv, NEW c \in Readers, NEW r, ctl' = [ctl EXCEPT ![c] = r],
           UNCHANGED <<backup, snap, disk, volume>>,
           c \in Controllers => Locking(c)'
    PROVE  LockInv'
<1>1. TypedCtl
  BY TypedParts DEF VaultInv, Typed
<1>2. \A p \in Readers \ {c} : ctl'[p] = ctl[p]
  BY <1>1 DEF TypedCtl
<1>3. \A p \in Controllers : Kept(p) \/ Locking(p)'
  BY <1>2 DEF Kept, Same, Readers
<1> QED  BY <1>3, StillStands

(* A round that goes on, with what its next step relies on.                *)
LEMMA ContinueLock ==
    ASSUME VaultInv, LockInv, NEW c \in Controllers, NEW step \in Steps, ctl' = Goto(c, step),
           UNCHANGED <<backup, snap, disk, volume>>,
           \/ step \in {"guard", "purge", "unlock", "finalize", "look", "lock", "report"}
           \/ step \in {"source", "apply"} /\
                 (Current(ctl[c].b) /\ Attached
                     => Held(ctl[c].b) \/ snap[ctl[c].b].at \in {"sending", "ready"})
           \/ step = "lockPatch" /\ ctl[c].pc = "holder" /\
                 (ctl[c].freshV /\ volume.lock # None /\ Current(volume.lock)
                     => backup[volume.lock].phase = "ready")
    PROVE  LockInv'
<1>1. TypedCtl /\ c \in Readers /\ ctl[c] \in ReaderSet
  BY TypedParts DEF VaultInv, Typed, TypedCtl, Readers
<1> DEFINE r == [ctl[c] EXCEPT !.pc = step]
<1>2. ctl' = [ctl EXCEPT ![c] = r] /\ ctl'[c] = r
  BY <1>1 DEF Goto, TypedCtl
<1>3. /\ r.pc = step /\ r.b = ctl[c].b /\ r.holder = ctl[c].holder /\ r.freshV = ctl[c].freshV
  BY <1>1 DEF ReaderSet
<1> HIDE DEF r
<1>4. Locking(c)'
  <2>1. CASE step \in {"guard", "purge", "unlock", "finalize", "look", "lock", "report"}
    BY <1>2, <1>3, <2>1, PassedLocking
  <2>2. CASE step \in {"source", "apply"} /\
                 (Current(ctl[c].b) /\ Attached
                     => Held(ctl[c].b) \/ snap[ctl[c].b].at \in {"sending", "ready"})
    BY <1>2, <1>3, <2>2 DEF Locking, Current, Held, Attached
  <2>3. CASE step = "lockPatch" /\ ctl[c].pc = "holder" /\
                 (ctl[c].freshV /\ volume.lock # None /\ Current(volume.lock)
                     => backup[volume.lock].phase = "ready")
    BY <1>2, <1>3, <2>3 DEF LockInv, Locking, Current
  <2> QED  BY <2>1, <2>2, <2>3
<1> QED  BY <1>1, <1>2, <1>4, TurnLock
-----------------------------------------------------------------------------
(* Steps that read, and unlock up to its patch.                            *)
LEMMA ReadLock ==
    ASSUME VaultInv, LockInv, BackupConstants, NEW c \in Controllers,
           (\E b \in Backups : Pick(c, b)) \/ Guard(c) \/ Unlock(c)
    PROVE  LockInv'
<1>1. Typed /\ TypedCtl /\ c \in Readers /\ ctl[c] \in ReaderSet
  BY TypedParts DEF VaultInv, Typed, TypedCtl, Readers
<1>2. UNCHANGED <<backup, snap, disk, volume>>
  BY DEF Pick, Guard, Unlock, objects
<1>3. CASE \E b \in Backups : Pick(c, b)
  <2>1. PICK b \in Backups : Pick(c, b)
    BY <1>3
  <2> DEFINE del == backup[b].life = "deleting"
             r == [Idle EXCEPT !.pc = IF backup[b].life = "deleting" THEN "guard" ELSE "look",
                               !.b = b, !.del = del,
                               !.seen = backup[b].phase, !.freshB = TRUE]
  <2>2. ctl' = [ctl EXCEPT ![c] = r]
    BY <2>1 DEF Pick
  <2>3. r.pc \in {"guard", "look"}
    <3> HIDE DEF del
    <3> QED  BY IdleTyped DEF ReaderSet
  <2> HIDE DEF r
  <2>4. ctl'[c].pc \in {"guard", "look"}
    BY <1>1, <2>2, <2>3 DEF TypedCtl
  <2> QED  BY <1>1, <1>2, <2>2, <2>4, PassedLocking, TurnLock
<1>4. CASE Guard(c)
  <2>1. ctl' = Finish(c) \/ ctl' = Goto(c, "purge")
    BY <1>4 DEF Guard
  <2> QED  BY <1>1, <1>2, <2>1, EndLock, ContinueLock DEF Steps
<1>5. CASE Unlock(c)
  <2>1. CASE ctl' = AfterUnlock(c)
    <3>1. ctl' = Finish(c) \/ ctl' = Goto(c, "finalize")
      BY <2>1 DEF AfterUnlock, GotoOrFinish
    <3> QED  BY <1>1, <1>2, <3>1, EndLock, ContinueLock DEF Steps
  <2>2. CASE /\ ctl' = [ctl EXCEPT ![c].pc = "unlockPatch", ![c].freshV = TRUE]
             /\ c \in Enabled /\ volume.lock = ctl[c].b
    <3> DEFINE r == [ctl[c] EXCEPT !.pc = "unlockPatch", !.freshV = TRUE]
    <3>1. ctl' = [ctl EXCEPT ![c] = r] /\ ctl'[c] = r
      BY <1>1, <2>2 DEF TypedCtl
    <3>2. r.pc = "unlockPatch" /\ r.b = ctl[c].b
      BY <1>1 DEF ReaderSet
    <3> HIDE DEF r
    <3>3. Locking(c)'
      BY <1>2, <2>2, <3>1, <3>2 DEF Locking
    <3> QED  BY <1>1, <1>2, <3>1, <3>3, TurnLock
  <2> QED  BY <1>5, <2>1, <2>2 DEF Unlock
<1> QED  BY <1>3, <1>4, <1>5

(* A live backup within its limit fails here only if it had failed.        *)
LEMMA LookLock ==
    ASSUME VaultInv, LockInv, BackupConstants, NEW c \in Controllers, Look(c)
    PROVE  LockInv'
<1> DEFINE b == ctl[c].b
<1>1. Typed /\ TypedCtl /\ c \in Readers /\ ctl[c] \in ReaderSet
  BY TypedParts DEF VaultInv, Typed, TypedCtl, Readers
<1>2. ctl[c].pc = "look" /\ UNCHANGED <<snap, disk, volume>>
  BY DEF Look
<1>3. b \in Backups /\ snap[b] \in SnapSet
  BY <1>1, <1>2 DEF VaultInv, Working, Typed
<1>4. CASE Found(b) = "none" /\ ctl[c].seen \in {"ready", "error"}
  <2>1. Status(c, "error", "idle")
    BY <1>4 DEF Look, Fail
  <2>2. snap[b].at = "none"
    BY <1>3, <1>4 DEF Found, Unready, SnapSet
  <2>3. Current(b) => ctl[c].seen = "error"
    BY <1>2, <1>3, <1>4, <2>2 DEF Current, VaultInv, Reporting, Stored
  <2> QED  BY <1>2, <2>1, <2>2, <2>3, StatusLock DEF Phases
<1>5. ASSUME NEW step \in {"report", "lock"}, NEW f,
             ctl' = [ctl EXCEPT ![c].pc = step, ![c].found = f], backup' = backup
      PROVE  LockInv'
  <2> DEFINE r == [ctl[c] EXCEPT !.pc = step, !.found = f]
  <2>1. ctl' = [ctl EXCEPT ![c] = r] /\ ctl'[c] = r
    BY <1>1, <1>5 DEF TypedCtl
  <2>2. r.pc = step
    BY <1>1 DEF ReaderSet
  <2> HIDE DEF r
  <2> QED  BY <1>1, <1>2, <1>5, <2>1, <2>2, PassedLocking, TurnLock
<1> QED  BY <1>4, <1>5 DEF Look

(* The lock is granted to a backup whose target is selected.               *)
LEMMA LockLock ==
    ASSUME Uniform, VaultInv, LockInv, BackupConstants, NEW c \in Controllers, Lock(c)
    PROVE  LockInv'
<1> DEFINE b == ctl[c].b
<1>1. Typed /\ TypedCtl /\ c \in Readers /\ ctl[c] \in ReaderSet
  BY TypedParts DEF VaultInv, Typed, TypedCtl, Readers
<1>2. ctl[c].pc = "lock" /\ UNCHANGED <<snap, disk, volume>>
  BY DEF Lock
<1>3. b \in Backups /\ backup[b].life # "absent" /\ backup[b].uid > 0
  BY <1>2 DEF VaultInv, Working, LockInv, Sources, BTypeOK
<1>4. CASE Retry(c)
  BY <1>1, <1>2, <1>4, EndLock DEF Retry
<1>5. CASE Fail(c) /\ disk.uid # backup[b].uid
  <2>1. Current(b) => disk.uid = 0
    BY <1>5 DEF Current, LockInv, Sources
  <2> QED  BY <1>2, <1>5, <2>1, FailLock
<1>6. CASE /\ c \notin Enabled /\ DestOf[b] = Default /\ volume = FreeVolume
           /\ Continue(c, Granted(c))
  <2>1. Held(b)
    BY <1>6 DEF Held, Uniform, FreeVolume
  <2> QED  BY <1>2, <1>6, <2>1, ContinueLock DEF Continue, Granted, Steps
<1>7. CASE /\ c \in Enabled /\ volume.lock = b
           /\ IF volume.target = DestOf[b] THEN Continue(c, Granted(c)) ELSE Fail(c)
  <2>1. volume.target = DestOf[b]
    BY <1>3, <1>7 DEF LockInv, Locked, BackupConstants
  <2>2. Held(b)
    BY <1>7, <2>1 DEF Held
  <2> QED  BY <1>2, <1>7, <2>1, <2>2, ContinueLock DEF Continue, Granted, Steps
<1>8. CASE /\ ctl' = [ctl EXCEPT ![c].pc = "holder", ![c].holder = volume.lock,
                                    ![c].freshV = TRUE]
           /\ UNCHANGED backup /\ c \in Enabled /\ disk.uid = backup[b].uid
  <2> DEFINE r == [ctl[c] EXCEPT !.pc = "holder", !.holder = volume.lock, !.freshV = TRUE]
  <2>1. ctl' = [ctl EXCEPT ![c] = r] /\ ctl'[c] = r
    BY <1>1, <1>8 DEF TypedCtl
  <2>2. r.pc = "holder" /\ r.holder = volume.lock
    BY <1>1 DEF ReaderSet
  <2> HIDE DEF r
  <2>3. disk.uid # 0
    BY <1>3, <1>8
  <2>4. Locking(c)'
    BY <1>2, <1>8, <2>1, <2>2, <2>3 DEF Locking
  <2> QED  BY <1>1, <1>2, <1>8, <2>1, <2>4, TurnLock
<1> QED  BY <1>4, <1>5, <1>6, <1>7, <1>8 DEF Lock

(* The holder's transfer has ended: a current one is ready, for an error   *)
(* within the time limit means that the disk is gone.                      *)
LEMMA HolderLock ==
    ASSUME VaultInv, LockInv, BackupConstants, NEW c \in Controllers, Holder(c)
    PROVE  LockInv'
<1>1. c \in Readers
  BY DEF Readers
<1>2. ctl[c].pc = "holder" /\ UNCHANGED <<snap, disk, volume>>
  BY DEF Holder
<1>3. CASE Wait(c)
  BY <1>2, <1>3, WaitLock
<1>4. CASE Retry(c)
  BY <1>1, <1>2, <1>4, EndLock DEF Retry
<1>5. CASE MayTake(c) /\ Continue(c, "lockPatch")
  <2>1. ASSUME ctl[c].freshV, volume.lock # None, Current(volume.lock)
        PROVE  backup[volume.lock].phase = "ready"
    <3>1. volume.lock \in Backups /\ ctl[c].holder = volume.lock /\ disk.uid # 0
      BY <1>2, <2>1 DEF VaultInv, BTypeOK, LockInv, Locking
    <3>2. Exists(volume.lock)
      BY <2>1 DEF Current, Exists
    <3>3. backup[volume.lock].phase \in {"ready", "error"}
      BY <1>5, <2>1, <3>1, <3>2 DEF MayTake
    <3> QED  BY <2>1, <3>1, <3>3 DEF LockInv, Placed
  <2> QED  BY <1>2, <1>5, <2>1, ContinueLock DEF Continue, Steps
<1> QED  BY <1>3, <1>4, <1>5 DEF Holder

(* The source check keeps the lock that was granted.                       *)
LEMMA SourceLock ==
    ASSUME VaultInv, LockInv, BackupConstants, NEW c \in Controllers, Source(c)
    PROVE  LockInv'
<1>1. ctl[c].pc = "source" /\ UNCHANGED <<snap, disk, volume>>
  BY DEF Source
<1>2. CASE disk.uid = backup[ctl[c].b].uid
  <2>1. ctl' = Goto(c, "apply") /\ backup' = backup
    BY <1>2 DEF Source, Continue
  <2>2. Current(ctl[c].b) /\ Attached
            => Held(ctl[c].b) \/ snap[ctl[c].b].at \in {"sending", "ready"}
    BY <1>1 DEF LockInv, Locking
  <2> QED  BY <1>1, <2>1, <2>2, ContinueLock DEF Steps
<1>3. CASE disk.uid # backup[ctl[c].b].uid
  <2>1. Current(ctl[c].b) => disk.uid = 0
    BY <1>3 DEF Current, LockInv, Sources
  <2> QED  BY <1>1, <1>3, <2>1, FailLock DEF Source
<1> QED  BY <1>2, <1>3

(* The report of a round.                                                  *)
LEMMA ReportLock ==
    ASSUME VaultInv, LockInv, BackupConstants, NEW c \in Controllers, Report(c)
    PROVE  LockInv'
<1>1. ctl[c].pc = "report" /\ UNCHANGED <<snap, disk, volume>>
  BY DEF Report
<1>2. CASE ctl[c].found = "ready"
  <2>1. Status(c, "ready", "unlock")
    BY <1>2 DEF Report
  <2> QED  BY <1>1, <1>2, <2>1, StatusLock DEF Phases
<1>3. CASE ctl[c].found # "ready"
  BY <1>1, <1>3, WaitLock DEF Report
<1> QED  BY <1>2, <1>3

(* The volume's lock and target change hands.                              *)
LEMMA VolumeLock ==
    ASSUME VaultInv, LockInv, NEW k \in [Readers -> ReaderSet], NEW v, WriteVolume(v, k),
           UNCHANGED <<backup, snap, disk>>,
           NEW c \in Controllers, \A p \in Readers \ {c} : k[p] = ctl[p],
           \/ v = FreeVolume
           \/ /\ Enabled # {}
              /\ v.lock \in Backups /\ v.lock # None /\ v.target = DestOf[v.lock]
              /\ backup[v.lock].life # "absent",
           \/ k[c].pc \in {"idle", "finalize", "report"}
           \/ k[c].pc = "source" /\ v.lock = k[c].b /\ v.target = DestOf[v.lock],
           \A x \in Backups : Current(x) /\ Attached /\ Held(x) => snap[x].at = "ready"
    PROVE  LockInv'
<1>1. /\ volume' = v
      /\ \A p \in Readers : Same(k[p], ctl'[p]) /\ ~ctl'[p].freshV
  BY WriteVolumeEffect
<1>2. Sources'
  BY DEF LockInv, Sources
<1>3. Locked'
  BY <1>1 DEF Locked, FreeVolume
<1>4. \A x \in Backups : Carried(x)
  BY DEF Carried, Current, Attached
<1>5. ASSUME NEW p \in Controllers, p # c PROVE Locking(p)'
  <2>1. Kept(p) /\ ~ctl'[p].freshV
    BY <1>1, <1>5 DEF Kept, Readers
  <2>2. volume.lock \in Backups \cup {None}
    BY DEF VaultInv, BTypeOK
  <2> QED  BY <1>4, <2>1, <2>2, KeptLocking DEF VaultInv, LockInv
<1>6. Locking(c)'
  <2>1. ctl'[c].pc = k[c].pc /\ ctl'[c].b = k[c].b /\ ~ctl'[c].freshV
    BY <1>1 DEF Same, Readers
  <2>2. CASE k[c].pc \in {"idle", "finalize", "report"}
    BY <2>1, <2>2 DEF Locking
  <2>3. CASE k[c].pc = "source" /\ v.lock = k[c].b /\ v.target = DestOf[v.lock]
    BY <1>1, <2>1, <2>3 DEF Locking, Held
  <2> QED  BY <2>2, <2>3
<1>7. \A x \in Backups : Placed(x)'
  BY DEF LockInv, Placed, Current, Attached
<1> QED  BY <1>2, <1>3, <1>5, <1>6, <1>7 DEF LockInv

(* The lock is released by a backup that is ready or deleted.              *)
LEMMA UnlockPatchLock ==
    ASSUME VaultInv, LockInv, BackupConstants, NEW c \in Controllers, UnlockPatch(c)
    PROVE  LockInv'
<1> DEFINE b == ctl[c].b
           k == AfterUnlock(c)
<1>1. Typed /\ TypedCtl /\ c \in Readers /\ ctl[c] \in ReaderSet
  BY TypedParts DEF VaultInv, Typed, TypedCtl, Readers
<1>2. ctl[c].pc = "unlockPatch" /\ UNCHANGED <<backup, snap, disk>>
  BY DEF UnlockPatch
<1>3. CASE ctl[c].freshV
  <2>1. WriteVolume(FreeVolume, k)
    BY <1>3 DEF UnlockPatch
  <2>2. /\ k \in [Readers -> ReaderSet]
        /\ k[c] = IF ctl[c].del THEN [ctl[c] EXCEPT !.pc = "finalize"] ELSE Idle
        /\ \A p \in Readers \ {c} : k[p] = ctl[p]
    BY <1>1, AfterUnlockEffect
  <2>3. k[c].pc \in {"idle", "finalize"}
    BY <1>1, <2>2, IdleTyped DEF ReaderSet
  <2>4. volume.lock = b /\ Enabled # {} /\ b \in Backups
    BY <1>2, <1>3 DEF LockInv, Locking, VaultInv, Working
  <2>5. Current(b) => snap[b].at = "ready"
    BY <1>2, <2>4 DEF Current, VaultInv, Reporting, Stored
  <2>6. \A x \in Backups : Current(x) /\ Attached /\ Held(x) => snap[x].at = "ready"
    BY <2>4, <2>5 DEF Held
  <2> HIDE DEF k
  <2> QED  BY <1>2, <2>1, <2>2, <2>3, <2>6, VolumeLock, ZenonT(40)
<1>4. CASE ~ctl[c].freshV
  BY <1>1, <1>2, <1>4, EndLock DEF UnlockPatch
<1> QED  BY <1>3, <1>4

(* The lock is taken when no current transfer depends on it.               *)
LEMMA LockPatchLock ==
    ASSUME VaultInv, LockInv, BackupConstants, NEW c \in Controllers, LockPatch(c)
    PROVE  LockInv'
<1> DEFINE b == ctl[c].b
           k == Goto(c, Granted(c))
           v == [lock |-> b, target |-> DestOf[b]]
<1>1. Typed /\ TypedCtl /\ c \in Readers /\ ctl[c] \in ReaderSet
  BY TypedParts DEF VaultInv, Typed, TypedCtl, Readers
<1>2. ctl[c].pc = "lockPatch" /\ UNCHANGED <<snap, disk>>
  BY DEF LockPatch
<1>3. CASE ctl[c].freshV
  <2>1. WriteVolume(v, k) /\ backup' = backup
    BY <1>3 DEF LockPatch
  <2>2. Granted(c) \in Steps /\ Granted(c) \in {"source", "report"}
    BY DEF Granted, Steps
  <2>3. /\ k \in [Readers -> ReaderSet]
        /\ k[c] = [ctl[c] EXCEPT !.pc = Granted(c)]
        /\ \A p \in Readers \ {c} : k[p] = ctl[p]
    BY <1>1, <2>2, GotoEffect
  <2>4. k[c].pc = Granted(c) /\ k[c].b = b
    BY <1>1, <2>3 DEF ReaderSet
  <2>5. /\ b \in Backups /\ b # None /\ backup[b].life # "absent" /\ Enabled # {}
        /\ v.lock = b /\ v.target = DestOf[b]
    BY <1>2 DEF VaultInv, Working, LockInv, Locking, BackupConstants
  <2>6. ASSUME NEW x \in Backups, Current(x), Attached, Held(x)
        PROVE  snap[x].at = "ready"
    <3>1. volume.lock = x /\ x # None
      BY <2>5, <2>6 DEF Held, BackupConstants
    <3>2. backup[x].phase = "ready"
      BY <1>2, <1>3, <2>6, <3>1 DEF LockInv, Locking
    <3> QED  BY <2>6, <3>2 DEF VaultInv, Stored, Current
  <2>7. \A x \in Backups : Current(x) /\ Attached /\ Held(x) => snap[x].at = "ready"
    BY <2>6
  <2> HIDE DEF k, v
  <2>8. \/ v = FreeVolume
        \/ /\ Enabled # {}
           /\ v.lock \in Backups /\ v.lock # None /\ v.target = DestOf[v.lock]
           /\ backup[v.lock].life # "absent"
    BY <2>5
  <2>9. \/ k[c].pc \in {"idle", "finalize", "report"}
        \/ k[c].pc = "source" /\ v.lock = k[c].b /\ v.target = DestOf[v.lock]
    BY <2>2, <2>4, <2>5
  <2>10. UNCHANGED <<backup, snap, disk>>
    BY <1>2, <2>1
  <2>11. k \in [Readers -> ReaderSet] /\ \A p \in Readers \ {c} : k[p] = ctl[p]
    BY <2>3
  <2> QED  BY <2>1, <2>7, <2>8, <2>9, <2>10, <2>11, VolumeLock
<1>4. CASE ~ctl[c].freshV
  <2>1. volume' = volume /\ (Wait(c) \/ Retry(c))
    BY <1>4 DEF LockPatch
  <2> QED  BY <1>1, <1>2, <2>1, WaitLock, EndLock DEF Retry
<1> QED  BY <1>3, <1>4

(* Steps on one snapshot.                                                  *)
LEMMA SnapLock ==
    ASSUME VaultInv, LockInv, UNCHANGED <<backup, disk, volume>>, NEW b \in Backups,
           \A x \in Backups \ {b} : snap'[x] = snap[x],
           \A p \in Controllers : Kept(p) \/ Locking(p)',
           Current(b) =>
             /\ snap[b].at \in {"sending", "ready"} => snap'[b].at \in {"sending", "ready"}
             /\ snap'[b].at = "taking" /\ Attached => Held(b)
             /\ snap'[b].at \in {"sending", "ready"} =>
                   snap'[b].of = backup[b].uid /\ snap'[b].target = DestOf[b]
    PROVE  LockInv'
<1>1. Sources' /\ Locked'
  BY DEF LockInv, Sources, Locked
<1>2. \A x \in Backups : Carried(x)
  BY DEF Carried, Current, Attached, Held
<1>3. \A p \in Controllers : Locking(p)'
  <2>1. volume.lock \in Backups \cup {None}
    BY DEF VaultInv, BTypeOK
  <2> QED  BY <1>2, <2>1, KeptLocking DEF VaultInv, LockInv
<1>4. ASSUME NEW x \in Backups PROVE Placed(x)'
  <2>1. CASE x = b
    BY <2>1 DEF LockInv, Placed, Current, Attached, Held
  <2>2. CASE x # b
    BY <2>2 DEF LockInv, Placed, Current, Attached, Held
  <2> QED  BY <2>1, <2>2
<1> QED  BY <1>1, <1>3, <1>4 DEF LockInv

(* A purged backup is not current.                                         *)
LEMMA PurgeLock ==
    ASSUME VaultInv, LockInv, BackupConstants, NEW c \in Controllers, Purge(c)
    PROVE  LockInv'
<1> DEFINE b == ctl[c].b
<1>1. Typed /\ TypedCtl /\ c \in Readers
  BY TypedParts DEF VaultInv, Typed, Readers
<1>2. UNCHANGED <<backup, disk, volume>>
  BY DEF Purge
<1>3. CASE snap[b].at = "none"
  BY <1>2, <1>3, ContinueLock DEF Purge, Steps
<1>4. CASE snap[b].at # "none"
  <2>1. b \in Backups /\ ~Current(b)
    BY DEF VaultInv, Working, Deleting, Purge, Current
  <2>2. ctl' = Finish(c) /\ \A x \in Backups \ {b} : snap'[x] = snap[x]
    BY <1>1, <1>4 DEF Purge, Typed
  <2>3. OthersKept(c) /\ Stopped(c)
    BY <1>1, <2>2, FinishEffect DEF OthersKept, Kept, Same, Stopped
  <2>4. \A p \in Controllers : Kept(p) \/ Locking(p)'
    BY <2>3, StoppedLocking DEF OthersKept, Readers
  <2> QED  BY <1>2, <2>1, <2>2, <2>4, SnapLock
<1> QED  BY <1>3, <1>4

(* A snapshot is taken under the lock.                                     *)
LEMMA ApplyLock ==
    ASSUME VaultInv, LockInv, BackupConstants, NEW c \in Controllers, Apply(c)
    PROVE  LockInv'
<1> DEFINE b == ctl[c].b
           f == IF snap[b].at = "ready" THEN "ready" ELSE "unready"
           r == [ctl[c] EXCEPT !.pc = "report", !.found = f]
<1>1. Typed /\ TypedCtl /\ c \in Readers /\ ctl[c] \in ReaderSet
  BY TypedParts DEF VaultInv, Typed, TypedCtl, Readers
<1>2. ctl[c].pc = "apply" /\ UNCHANGED <<backup, disk, volume>>
  BY DEF Apply
<1>3. b \in Backups /\ snap[b] \in SnapSet
  BY <1>1, <1>2 DEF VaultInv, Working, Typed
<1>4. ctl' = [ctl EXCEPT ![c] = r] /\ ctl'[c] = r
  BY <1>1 DEF Apply, TypedCtl
<1>5. r.pc = "report"
  BY <1>1 DEF ReaderSet
<1> HIDE DEF r
<1>6. \A p \in Controllers : Kept(p) \/ Locking(p)'
  <2>1. \A p \in Readers \ {c} : ctl'[p] = ctl[p]
    BY <1>1, <1>4 DEF TypedCtl
  <2> QED  BY <1>4, <1>5, <2>1, PassedLocking DEF Kept, Same, Readers
<1>7. \A x \in Backups \ {b} : snap'[x] = snap[x]
  BY <1>1 DEF Apply, Typed
<1>8. CASE snap[b].at # "none"
  <2>1. snap' = snap
    BY <1>8 DEF Apply
  <2> QED  BY <1>2, <1>3, <1>6, <1>7, <2>1, SnapLock DEF LockInv, Placed
<1>9. CASE snap[b].at = "none"
  <2>1. snap'[b].at = "taking"
    BY <1>1, <1>3, <1>9 DEF Apply, Typed, SnapSet
  <2>2. Current(b) /\ Attached => Held(b)
    BY <1>2, <1>9 DEF LockInv, Locking
  <2> QED  BY <1>2, <1>3, <1>6, <1>7, <1>9, <2>1, <2>2, SnapLock
<1> QED  BY <1>8, <1>9

(* A transfer goes to the target its backup asked for.                     *)
LEMMA StorageLock ==
    ASSUME VaultInv, LockInv, NEW b \in Backups, Send(b) \/ Sent(b) \/ Vanish(b)
    PROVE  LockInv'
<1>1. snap \in [Backups -> SnapSet] /\ snap[b] \in SnapSet
  BY TypedParts DEF VaultInv, Typed
<1>2. /\ UNCHANGED <<backup, disk, volume, ctl>>
      /\ \A x \in Backups \ {b} : snap'[x] = snap[x]
  BY <1>1 DEF Send, Sent, Vanish
<1>3. \A p \in Controllers : Kept(p)
  BY <1>2 DEF Kept, Same
<1>4. CASE Send(b)
  <2>1. /\ snap'[b].at = "sending" /\ snap'[b].of = disk.uid
        /\ snap'[b].target = volume.target /\ disk.uid # 0 /\ snap[b].at = "taking"
    BY <1>1, <1>4 DEF Send, SnapSet
  <2>2. Attached
    BY <2>1 DEF LockInv, Sources, Attached
  <2>3. Current(b) => disk.uid = backup[b].uid /\ volume.target = DestOf[b]
    BY <2>1, <2>2 DEF LockInv, Placed, Held, Current, Attached
  <2> QED  BY <1>2, <1>3, <2>1, <2>3, SnapLock
<1>5. CASE Sent(b)
  <2>1. /\ snap'[b].at = "ready" /\ snap'[b].of = snap[b].of
        /\ snap'[b].target = snap[b].target /\ snap[b].at = "sending"
    BY <1>1, <1>5 DEF Sent, SnapSet
  <2> QED  BY <1>2, <1>3, <2>1, SnapLock DEF LockInv, Placed
<1>6. CASE Vanish(b)
  <2>1. ~Current(b)
    BY <1>6 DEF Vanish, VaultInv, Stored, Current
  <2> QED  BY <1>2, <1>3, <2>1, SnapLock
<1> QED  BY <1>4, <1>5, <1>6

(* A disk is lost for good: its successor has another uid.                 *)
LEMMA DiskLock ==
    ASSUME VaultInv, LockInv, LoseSource \/ NewSource
    PROVE  LockInv'
<1>1. /\ WriteVolume(FreeVolume, ctl) /\ UNCHANGED <<backup, snap>>
      /\ ctl \in [Readers -> ReaderSet]
      /\ disk \in [uid : Nat, newest : Nat]
  BY TypedParts DEF LoseSource, NewSource, VaultInv, BTypeOK, ReaderSet
<1>2. /\ volume' = FreeVolume
      /\ \A p \in Readers : Same(ctl[p], ctl'[p]) /\ ~ctl'[p].freshV
  BY <1>1, WriteVolumeEffect
<1>3. Locked'
  BY <1>2 DEF Locked, FreeVolume
<1>4. \/ disk'.uid = 0 /\ disk'.newest = disk.newest
      \/ disk'.uid = disk.newest + 1 /\ disk'.newest = disk.newest + 1
  BY <1>1 DEF LoseSource, NewSource
<1>5. Sources'
  BY <1>1, <1>4 DEF LockInv, Sources
<1>6. \A x \in Backups : Current(x)' => \/ Current(x) /\ disk'.uid = 0 /\ ~Attached'
                                        \/ backup[x].life = "absent"
  BY <1>1, <1>4 DEF Current, Attached, LockInv, Sources
<1>7. \A x \in Backups : Carried(x)
  BY <1>1, <1>6 DEF Carried
<1>8. \A p \in Controllers : Locking(p)'
  <2>1. \A p \in Controllers : Kept(p) /\ ~ctl'[p].freshV
    BY <1>2 DEF Kept, Readers
  <2>2. volume.lock \in Backups \cup {None}
    BY DEF VaultInv, BTypeOK
  <2> QED  BY <1>7, <2>1, <2>2, KeptLocking DEF VaultInv, LockInv
<1>9. \A x \in Backups : Placed(x)'
  BY <1>1, <1>6 DEF LockInv, Placed, Current
<1> QED  BY <1>3, <1>5, <1>8, <1>9 DEF LockInv

(* The other writes of a backup.                                           *)
LEMMA WriteLock ==
    ASSUME VaultInv, LockInv, BackupConstants,
           \/ \E b \in Backups :
                 Create(b) \/ RequestVerification(b) \/ OffsiteLock(b) \/ Age(b)
           \/ Delete
           \/ \E c \in Controllers : Finalize(c)
    PROVE  LockInv'
<1>1. Typed /\ TypedCtl /\ UNCHANGED <<snap, disk, volume>>
  BY TypedParts DEF VaultInv, Typed, Create, RequestVerification, OffsiteLock, Age, Delete,
                    Finalize
<1>2. ASSUME NEW b \in Backups, NEW v \in BackupSet, NEW k \in [Readers -> ReaderSet],
             Write(b, v, k), \A p \in Controllers : k[p] = ctl[p] \/ k[p] = Idle,
             v.uid \in 1..disk.newest,
             \/ v = backup[b]
             \/ v.life \in {"deleting", "gone"}
             \/ v.life = "live" /\ backup[b].life = "absent" /\ v.phase = "none"
      PROVE  LockInv'
  <2>1. /\ backup'[b] = v
        /\ \A x \in Backups \ {b} : backup'[x] = backup[x]
        /\ \A p \in Readers : Same(k[p], ctl'[p])
    BY <1>1, <1>2, WriteEffect DEF Typed
  <2>2. \A x \in Backups \ {b} : Calm(x)
    BY <1>1, <2>1, CalmBackup DEF Lasting
  <2>3. Calm(b)
    BY <1>1, <1>2, <2>1 DEF Calm, Current
  <2>4. \A p \in Controllers : Kept(p) \/ Locking(p)'
    BY <1>2, <2>1, IdleTyped DEF Kept, Same, Locking, Readers
  <2> QED  BY <1>1, <2>2, <2>3, <2>4, CalmStands
<1>3. ctl \in [Readers -> ReaderSet]
  BY <1>1 DEF TypedCtl
<1>4. CASE \E b \in Backups : Create(b)
  <2>1. PICK b \in Backups : Create(b)
    BY <1>4
  <2>2. PICK u \in SourceSeen :
           Write(b, [life |-> "live", phase |-> "none", uid |-> u, old |-> FALSE], ctl)
    BY <2>1 DEF Create
  <2> DEFINE v == [life |-> "live", phase |-> "none", uid |-> u, old |-> FALSE]
  <2>3. u \in Nat /\ u \in 1..disk.newest
    BY DEF SourceSeen, VaultInv, BTypeOK
  <2>4. v \in BackupSet /\ v.life = "live" /\ v.phase = "none" /\ v.uid \in 1..disk.newest
    BY <2>3 DEF BackupSet, Phases
  <2>5. Write(b, v, ctl) /\ backup[b].life = "absent"
    BY <2>1, <2>2 DEF Create
  <2> HIDE DEF v
  <2> QED  BY <1>2, <1>3, <2>4, <2>5
<1>5. CASE \E b \in Backups : RequestVerification(b) \/ OffsiteLock(b)
  <2>1. PICK b \in Backups : Write(b, backup[b], ctl) /\ backup[b].life = "live"
    BY <1>5 DEF RequestVerification, OffsiteLock
  <2>2. backup[b] \in BackupSet /\ backup[b].uid \in 1..disk.newest
    BY <1>1, <2>1 DEF Typed, LockInv, Sources
  <2> QED  BY <1>2, <1>3, <2>1, <2>2
<1>6. CASE \E b \in Backups : Age(b)
  <2>1. PICK b \in Backups : Age(b)
    BY <1>6
  <2>2. ctl' = ctl /\ \A x \in Backups \ {b} : backup'[x] = backup[x]
    BY <1>1, <2>1 DEF Age, Typed
  <2>3. backup'[b].old /\ backup'[b].life = backup[b].life /\ backup'[b].uid = backup[b].uid
    BY <1>1, <2>1 DEF Age, Typed, BackupSet
  <2>4. \A x \in Backups \ {b} : Calm(x)
    BY <1>1, <2>2, CalmBackup DEF Lasting
  <2>5. Calm(b)
    BY <2>3 DEF Calm, Current, LockInv, Sources
  <2>6. \A p \in Controllers : Kept(p)
    BY <2>2 DEF Kept, Same
  <2> QED  BY <1>1, <2>4, <2>5, <2>6, CalmStands
<1>7. CASE Delete
  <2> DEFINE b == ctl[API].b
             v == [backup[b] EXCEPT !.life = "deleting"]
  <2>1. API \in Readers /\ b \in Backups
    BY <1>7 DEF Delete, VaultInv, Removing, Readers
  <2>2. CASE ctl[API].freshB
    <3>1. Write(b, v, Finish(API)) /\ backup[b].life = "live"
      BY <1>7, <2>2 DEF Delete, VaultInv, Removing
    <3>2. v \in BackupSet /\ v.life = "deleting" /\ v.uid = backup[b].uid
      BY <1>1, <2>1 DEF Typed, BackupSet
    <3>3. v.uid \in 1..disk.newest
      BY <2>1, <3>1, <3>2 DEF LockInv, Sources
    <3>4. /\ Finish(API) \in [Readers -> ReaderSet]
          /\ \A p \in Controllers : Finish(API)[p] = ctl[p]
      BY <1>1, <2>1, FinishEffect DEF Readers, BackupConstants
    <3> HIDE DEF v
    <3> QED  BY <1>2, <2>1, <3>1, <3>2, <3>3, <3>4
  <2>3. CASE ~ctl[API].freshB
    BY <1>1, <1>7, <2>1, <2>3, EndLock DEF Delete, Retry
  <2> QED  BY <2>2, <2>3
<1>8. CASE \E c \in Controllers : Finalize(c)
  <2>1. PICK c \in Controllers : Finalize(c)
    BY <1>8
  <2> DEFINE b == ctl[c].b
             v == [backup[b] EXCEPT !.life = "gone"]
  <2>2. c \in Readers /\ b \in Backups /\ backup[b].life # "absent"
    BY <2>1 DEF Finalize, VaultInv, Working, Readers
  <2>3. CASE ctl[c].freshB
    <3>1. Write(b, v, Finish(c))
      BY <2>1, <2>3 DEF Finalize
    <3>2. v \in BackupSet /\ v.life = "gone" /\ v.uid = backup[b].uid
      BY <1>1, <2>2 DEF Typed, BackupSet
    <3>3. v.uid \in 1..disk.newest
      BY <2>2, <3>2 DEF LockInv, Sources
    <3>4. /\ Finish(c) \in [Readers -> ReaderSet]
          /\ \A p \in Controllers : Finish(c)[p] = ctl[p] \/ Finish(c)[p] = Idle
      BY <1>1, <2>2, FinishEffect DEF Readers
    <3> HIDE DEF v
    <3> QED  BY <1>2, <2>2, <3>1, <3>2, <3>3, <3>4
  <2>4. CASE ~ctl[c].freshB
    BY <1>1, <2>1, <2>2, <2>4, EndLock DEF Finalize, Retry
  <2> QED  BY <2>3, <2>4
<1> QED  BY <1>4, <1>5, <1>6, <1>7, <1>8

(* DELETE's checks leave the lock alone.                                   *)
LEMMA DeleteCheckLock ==
    ASSUME VaultInv, LockInv, BackupConstants, NEW b \in Backups, DeleteCheck(b)
    PROVE  LockInv'
<1>1. TypedCtl /\ API \in Readers
  BY TypedParts DEF VaultInv, Typed, Readers
<1>2. \A p \in Controllers : ctl'[p] = ctl[p]
  BY <1>1 DEF DeleteCheck, TypedCtl, Readers, BackupConstants
<1>3. \A p \in Controllers : Kept(p)
  BY <1>2 DEF Kept, Same
<1> QED  BY <1>3, StillStands DEF DeleteCheck, objects

(* The lock invariant holds at the start.                                  *)
LEMMA LockInit == BackupConstants /\ Init => LockInv
<1> SUFFICES ASSUME BackupConstants, Init PROVE LockInv
  OBVIOUS
<1>1. Sources
  BY DEF Init, Sources
<1>2. Locked
  BY DEF Init, Locked, FreeVolume
<1>3. \A p \in Controllers : Locking(p)
  <2>1. \A p \in Controllers : ctl[p].pc = "idle"
    BY IdleTyped DEF Init, Readers
  <2> QED  BY <2>1 DEF Locking
<1>4. \A b \in Backups : Placed(b)
  BY DEF Init, Placed, Current
<1> QED  BY <1>1, <1>2, <1>3, <1>4 DEF LockInv

(* Every step keeps the lock invariant when replicas are uniform.          *)
LEMMA LockStep ==
    ASSUME Uniform, BackupConstants, VaultInv, LockInv, [Next]_vars
    PROVE  LockInv'
<1>1. ASSUME UNCHANGED <<backup, snap, disk, volume, ctl>> PROVE LockInv'
  BY <1>1, StillStands DEF Kept, Same
<1>2. CASE UNCHANGED vars
  BY <1>1, <1>2 DEF vars, objects
<1>3. CASE \E c \in Controllers : Crash(c)
  BY <1>3, EndLock DEF Crash, objects, Readers
<1>4. CASE \/ \E c \in Controllers : EnsureCheck(c) \/ EnsureCreate(c)
           \/ \E b \in Backups : AskRestore(b) \/ Drill(b) \/ OffsiteExpire(b)
           \/ \E d \in Destinations : PutDestination(d) \/ Reach(d)
           \/ CreateRestored \/ DeleteService \/ Copied
  BY <1>1, <1>4 DEF EnsureCheck, EnsureCreate, AskRestore, Drill, OffsiteExpire,
     PutDestination, Reach, CreateRestored, DeleteService, Copied, objects
<1>5. ASSUME NEW c \in Controllers, (\E b \in Backups : Pick(c, b)) \/ Step(c)
      PROVE  LockInv'
  BY <1>5, ReadLock, PurgeLock, UnlockPatchLock, WriteLock, LookLock, LockLock, HolderLock,
     LockPatchLock, SourceLock, ApplyLock, ReportLock
     DEF Step
<1>6. CASE \/ \E b \in Backups :
                 \/ Create(b) \/ DeleteCheck(b) \/ RequestVerification(b) \/ OffsiteLock(b)
                 \/ Send(b) \/ Sent(b) \/ Vanish(b) \/ Age(b)
           \/ Delete \/ LoseSource \/ NewSource
  BY <1>6, WriteLock, DeleteCheckLock, StorageLock, DiskLock
<1> QED  BY <1>2, <1>3, <1>4, <1>5, <1>6 DEF Next

(* The inductive invariant of the destination lock, when all replicas have *)
(* the same configuration.                                                 *)
THEOREM LockInvariance == ASSUME Uniform PROVE Spec => []LockInv
<1>1. Init => LockInv
  BY BackupConstants, LockInit
<1>2. VaultInv /\ LockInv /\ [Next]_vars => LockInv'
  BY BackupConstants, LockStep
<1> QED  BY <1>1, <1>2, VaultInvariance, PTL DEF Spec

(* A backup reported ready within its limit holds its disk's data where it *)
(* was asked to be, for any number of replicas without leader election.    *)
THEOREM ReadyBackupsAreWhereAsked == ASSUME Uniform PROVE Spec => []ReadyWhereAsked
<1>1. VaultInv /\ LockInv => ReadyWhereAsked
  <2> SUFFICES ASSUME VaultInv, LockInv, NEW b \in Backups, Current(b),
                      backup[b].phase = "ready"
               PROVE  snap[b] = [at |-> "ready", dying |-> FALSE, of |-> backup[b].uid,
                                 target |-> DestOf[b]]
    BY DEF ReadyWhereAsked, Current
  <2>1. snap[b] \in SnapSet
    BY TypedParts DEF VaultInv, Typed
  <2>2. snap[b].at = "ready" /\ ~snap[b].dying
    BY DEF VaultInv, Stored, Current
  <2>3. snap[b].of = backup[b].uid /\ snap[b].target = DestOf[b]
    BY <2>2 DEF LockInv, Placed
  <2> QED  BY <2>1, <2>2, <2>3 DEF SnapSet
<1> QED  BY <1>1, VaultInvariance, LockInvariance, PTL
=============================================================================
