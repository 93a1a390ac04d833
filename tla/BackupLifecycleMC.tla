-------------------------- MODULE BackupLifecycleMC --------------------------
(* Instances of BackupLifecycle: two backups of one disk, one to a tenant  *)
(* destination and one to the default target.                              *)
EXTENDS BackupLifecycle

CONSTANTS tenant, own, d1, c1, c2

TwoTargets == [b \in Backups |-> IF b = tenant THEN d1 ELSE Default]

Quiet == [replicas |-> {c1, c2}, orders |-> {tenant, own}, restores |-> {},
          exported |-> {}, verified |-> {}, aging |-> {}, outages |-> FALSE,
          losses |-> 0, crashes |-> 0]

(* Two replicas compete for the lock.                                      *)
Contention == Quiet
(* Two replicas restore a backup that is also deleted.                     *)
Restoring == [Quiet EXCEPT !.orders = {own}, !.restores = {own}]
(* A backup is exported and verified while it may be restored and deleted. *)
Keeping == [Quiet EXCEPT !.replicas = {c1}, !.orders = {own}, !.restores = {own},
                         !.exported = {own}, !.verified = {own}, !.crashes = 1]
(* The disk is replaced, backups age, the destination comes and goes and   *)
(* the only replica restarts.                                              *)
Replacing == [Quiet EXCEPT !.replicas = {c1}, !.aging = {tenant}, !.outages = TRUE,
                           !.losses = 1, !.crashes = 1]

AllScenarios == {Contention, Restoring, Keeping, Replacing}
OnlyContention == {Contention}
OnlyKeeping == {Keeping}
=============================================================================
