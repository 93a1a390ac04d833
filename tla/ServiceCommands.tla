--------------------------- MODULE ServiceCommands --------------------------
(***************************************************************************)
(* Commands of the control plane on one FlashService, as the provider API  *)
(* of src/src/bin/flash-api.rs handles them: reconcile (create, update,    *)
(* quota-only update) and remove.  Every API replica reads the service,    *)
(* checks the command against what it read, and writes.  A quota-only      *)
(* update carries the resourceVersion it read; the full update is a forced *)
(* server-side apply without one.  Commands may be repeated and may be     *)
(* handled concurrently.                                                   *)
(*                                                                         *)
(* One step is one Kubernetes call.  Answers to the control plane change   *)
(* no state and are not modelled.                                          *)
(***************************************************************************)
EXTENDS Integers, FiniteSets

CONSTANTS Handlers,    \* concurrent request handlers, over all API replicas
          Updates,     \* reconcile requests: [gen, org, work, source, owner, ceiling, quotaOnly]
          Removals,    \* remove requests: [gen]
          None,        \* an omitted owner, ceiling or backup to restore from
          MaxRequests  \* bound: requests received in all

ASSUME RequestsAssumption ==
    /\ MaxRequests \in Nat
    /\ \A r \in Updates : r.gen \in Nat /\ r.quotaOnly \in BOOLEAN
    /\ \A r \in Removals : r.gen \in Nat

VARIABLES svc,       \* the FlashService object, NoService when there is none
          managers,  \* the field managers that own each of its quota fields
          received,  \* requests received so far
          pc,        \* where each handler stands
          req,       \* the request it handles
          merged,    \* the quota fields it will write
          fresh      \* handlers that hold the current resourceVersion of svc

cvars == <<svc, managers, received, pc, req, merged, fresh>>

NoService == [exists |-> FALSE]
NoRequest == [kind |-> "none"]

(* quota_user_id with policy.member, and policy.cloud_organization *)
QuotaFields == {"owner", "ceiling"}
NoQuota == [f \in QuotaFields |-> None]
NoManagers == [f \in QuotaFields |-> {}]
QuotaOf(r) == [f \in QuotaFields |-> r[f]]

CInit ==
    /\ svc = NoService
    /\ managers = NoManagers
    /\ received = 0
    /\ pc = [h \in Handlers |-> "idle"]
    /\ req = [h \in Handlers |-> NoRequest]
    /\ merged = [h \in Handlers |-> NoQuota]
    /\ fresh = {}

Done(h) ==
    /\ pc' = [pc EXCEPT ![h] = "idle"]
    /\ req' = [req EXCEPT ![h] = NoRequest]
    /\ merged' = [merged EXCEPT ![h] = NoQuota]

Reject(h) == Done(h) /\ fresh' = fresh \ {h} /\ UNCHANGED <<svc, managers, received>>

(* A verified request reaches a handler. *)
Receive(h) ==
    /\ pc[h] = "idle"
    /\ received < MaxRequests
    /\ received' = received + 1
    /\ \/ /\ pc' = [pc EXCEPT ![h] = "check"]
          /\ req' \in {[req EXCEPT ![h] = r] : r \in Updates}
       \/ /\ pc' = [pc EXCEPT ![h] = "checkRemove"]
          /\ req' \in {[req EXCEPT ![h] = r] : r \in Removals}
    /\ UNCHANGED <<svc, managers, merged, fresh>>

-----------------------------------------------------------------------------
(* reconcile: the checks against the service it reads. *)

(* preserve_existing_member_quota *)
OwnerConflict(r) == svc.quota.owner # None /\ r.owner \notin {None, svc.quota.owner}

(* Mutant: an equal generation is refused, an older one is not. *)
RefusedIfSame(r) ==
    \/ svc.source # r.source \/ svc.org # r.org \/ OwnerConflict(r)
    \/ svc.gen = r.gen /\ svc.work # r.work
    \/ r.quotaOnly /\ svc.gen # r.gen

Refused(r) ==
    \/ svc.source # r.source                        \* the disk's source is immutable
    \/ svc.org # r.org
    \/ OwnerConflict(r)
    \/ svc.gen > r.gen                              \* generation is stale
    \/ svc.gen = r.gen /\ svc.work # r.work    \* generation already used
    \/ r.quotaOnly /\ svc.gen # r.gen

(* Mutant: an omitted field is written as omitted. *)
MergedOmitting(r) == QuotaOf(r)

(* An old worker omits the owner and the ceiling: keep what is there. *)
Merged(r) ==
    [f \in QuotaFields |-> IF r[f] = None THEN svc.quota[f] ELSE r[f]]

(* A service that is to be restored is created if its backup is ready; the   *)
(* backups are not in this model, so either may happen.                      *)
Check(h) ==
    LET r == req[h] IN
    /\ pc[h] = "check"
    /\ \/ /\ svc # NoService
          /\ ~Refused(r)
          /\ merged' = [merged EXCEPT ![h] = Merged(r)]
          /\ fresh' = fresh \cup {h}
          /\ pc' = [pc EXCEPT ![h] = IF r.quotaOnly THEN "quota" ELSE "apply"]
          /\ UNCHANGED <<svc, managers, received, req>>
       \/ /\ svc = NoService
          /\ ~r.quotaOnly
          /\ merged' = [merged EXCEPT ![h] = QuotaOf(r)]
          /\ pc' = [pc EXCEPT ![h] = "apply"]
          /\ UNCHANGED <<svc, managers, received, req, fresh>>
       \/ /\ IF svc = NoService THEN r.quotaOnly \/ r.source # None ELSE Refused(r)
          /\ Reject(h)

-----------------------------------------------------------------------------
(* The writes. *)

(* Server-side apply of a field: giving it takes or shares it, omitting it   *)
(* gives up one's share, and a field nobody owns is removed.                 *)
AppliedManagers(f, value) ==
    IF value = None THEN managers[f] \ {"provider"}
    ELSE IF svc # NoService /\ svc.quota[f] = value THEN managers[f] \cup {"provider"}
    ELSE {"provider"}

AppliedValue(f, value) ==
    IF value = None /\ managers[f] \ {"provider"} # {} THEN svc.quota[f] ELSE value

(* The full update: unfenced, creates the service if it is gone. *)
Apply(h) ==
    LET r == req[h] IN
    /\ pc[h] = "apply"
    /\ svc' = [exists |-> TRUE, gen |-> r.gen, org |-> r.org, work |-> r.work,
               source |-> r.source,
               quota |-> [f \in QuotaFields |-> AppliedValue(f, merged[h][f])]]
    /\ managers' = [f \in QuotaFields |-> AppliedManagers(f, merged[h][f])]
    /\ fresh' = {}
    /\ Done(h)
    /\ UNCHANGED received

(* Mutant: the merge patch carries no resourceVersion. *)
QuotaFencedNever(h) == TRUE

QuotaFenced(h) == h \in fresh

(* quota_only_patch: a merge patch of the quota fields with the version that *)
(* was checked; another field manager than the apply's.                      *)
PatchQuota(h) ==
    /\ pc[h] = "quota"
    /\ \/ /\ QuotaFenced(h)
          /\ svc # NoService
          /\ svc' = [svc EXCEPT !.quota = merged[h]]
          /\ managers' = [f \in QuotaFields |-> IF merged[h][f] = svc.quota[f]
                                                THEN managers[f] ELSE {"quota"}]
          /\ fresh' = {}
          /\ Done(h)
          /\ UNCHANGED received
       \/ /\ h \notin fresh                           \* 409, or 404
          /\ Reject(h)

(* remove: the generation check, then a delete without precondition. *)
CheckRemove(h) ==
    /\ pc[h] = "checkRemove"
    /\ \/ /\ svc # NoService
          /\ ~(svc.gen > req[h].gen)
          /\ pc' = [pc EXCEPT ![h] = "delete"]
          /\ UNCHANGED <<svc, managers, received, req, merged, fresh>>
       \/ /\ svc # NoService => svc.gen > req[h].gen
          /\ Reject(h)

Delete(h) ==
    /\ pc[h] = "delete"
    /\ svc' = NoService
    /\ managers' = NoManagers
    /\ fresh' = {}
    /\ Done(h)
    /\ UNCHANGED received

(* The controller or the activator writes status or an annotation. *)
Touch ==
    /\ svc # NoService
    /\ fresh # {}
    /\ fresh' = {}
    /\ UNCHANGED <<svc, managers, received, pc, req, merged>>

CNext ==
    \/ \E h \in Handlers : \/ Receive(h) \/ Check(h) \/ Apply(h)
                           \/ PatchQuota(h) \/ CheckRemove(h) \/ Delete(h)
    \/ Touch

CSpec == CInit /\ [][CNext]_cvars

-----------------------------------------------------------------------------
CTypeOK ==
    /\ received \in 0..MaxRequests
    /\ pc \in [Handlers -> {"idle", "check", "apply", "quota", "checkRemove", "delete"}]
    /\ DOMAIN req = Handlers /\ DOMAIN merged = Handlers
    /\ fresh \subseteq Handlers

(* What a handler checked still holds of the service whose resourceVersion   *)
(* it carries: it exists, is of the organization and the disk source of the  *)
(* command, has no later generation and no other workload of the same one,   *)
(* and what is to be written keeps its owner and does not omit its ceiling.  *)
Lawful(h) ==
    /\ svc # NoService
    /\ svc.org = req[h].org /\ svc.source = req[h].source
    /\ ~(svc.gen > req[h].gen)
    /\ svc.gen = req[h].gen => svc.work = req[h].work
    /\ svc.quota.owner \in {None, merged[h].owner}
    /\ svc.quota.ceiling # None => merged[h].ceiling # None

(* A quota-only command is for the generation there is. *)
Current(h) == Lawful(h) /\ svc.gen = req[h].gen

(* The inductive invariant: a write of reconcile whose resourceVersion is    *)
(* still the server's is one whose checks still hold.                        *)
FreshCommandIsLawful ==
    /\ CTypeOK
    /\ \A h \in fresh :
          /\ pc[h] \in {"apply", "quota"}
          /\ pc[h] = "apply" => Lawful(h)
          /\ pc[h] = "quota" => Current(h)

(* "A concurrent service edit must not be reverted by a quota refresh"       *)
(* (quota_only_patch): when the quota of a service changes through a         *)
(* quota-only command, the service still has the generation and the workload *)
(* the command was checked against, and no other owner.                      *)
QuotaLandsOnItsGeneration ==
    [][\A h \in Handlers :
          pc[h] = "quota" /\ pc'[h] = "idle" /\ svc' # svc => Current(h)]_cvars

(* A full update that nobody overtook (the service is as reconcile read it)  *)
(* takes nothing back: not the generation, not the owner or the ceiling that *)
(* the command omits, not the organization or the source of the disk.        *)
UpdateTakesNothingBack ==
    [][\A h \in fresh :
          pc[h] = "apply" /\ pc'[h] = "idle"
             => /\ ~(svc.gen > svc'.gen)
                /\ svc'.org = svc.org /\ svc'.source = svc.source
                /\ svc.quota.owner # None => svc'.quota.owner = svc.quota.owner
                /\ svc.quota.ceiling # None => svc'.quota.ceiling # None]_cvars

(* "It must never erase an already-enforced cloud organization ceiling": a   *)
(* command that omits the ceiling leaves the one in force.                   *)
CeilingKept ==
    [][svc # NoService /\ svc' # NoService /\ svc.quota.ceiling # None
          => svc'.quota.ceiling # None]_cvars
=============================================================================
