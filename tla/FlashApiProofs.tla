--------------------------- MODULE FlashApiProofs ---------------------------
(***************************************************************************)
(* TLAPS proofs about src/bin/flash-api.rs.                                *)
(*                                                                         *)
(* ServiceCommands, for any number of API handlers and requests and any    *)
(* set of commands: a command that is still fenced is one that was         *)
(* checked against the service it will change.                             *)
(*                                                                         *)
(* ExecSessions, for any number of sessions and permits: permits are       *)
(* neither lost nor made, a shutdown cuts no session off, no process       *)
(* outlives its session, and a reported success is complete.  The          *)
(* invariant counts the permits against the sessions that own one, and     *)
(* follows one session's record through its steps (Sane): until a process  *)
(* is started it has no status, a success is the status of a process that  *)
(* ended by itself, and a command waits for that status only after it has  *)
(* read all of its output.                                                 *)
(***************************************************************************)
EXTENDS ServiceCommands, ExecSessions, TLAPS, FiniteSetTheorems

-----------------------------------------------------------------------------
(* The commands of the provider.                                           *)

(* No handler holds a resourceVersion at the start. *)
LEMMA InitCurrent == CInit => FreshCommandIsLawful
BY RequestsAssumption DEF CInit, FreshCommandIsLawful, CTypeOK

(* Whoever writes the service leaves no handler with its resourceVersion. *)
LEMMA TypeStep == CTypeOK /\ [CNext]_cvars => CTypeOK'
<1> SUFFICES ASSUME CTypeOK, [CNext]_cvars PROVE CTypeOK'
    OBVIOUS
<1> USE RequestsAssumption DEF CTypeOK, Done
<1>1. ASSUME NEW h \in Handlers, Receive(h) PROVE CTypeOK'
    <2>1. received' \in 0..MaxRequests
        BY <1>1 DEF Receive
    <2>2. DOMAIN req' = Handlers
        BY <1>1, Zenon DEF Receive
    <2>3. QED  BY <1>1, <2>1, <2>2 DEF Receive
<1>2. ASSUME NEW h \in Handlers, Check(h) PROVE CTypeOK'
    BY <1>2 DEF Check, Reject
<1>3. ASSUME NEW h \in Handlers, Apply(h) PROVE CTypeOK'
    BY <1>3 DEF Apply
<1>4. ASSUME NEW h \in Handlers, PatchQuota(h) PROVE CTypeOK'
    BY <1>4 DEF PatchQuota, Reject
<1>5. ASSUME NEW h \in Handlers, CheckRemove(h) PROVE CTypeOK'
    BY <1>5 DEF CheckRemove, Reject
<1>6. ASSUME NEW h \in Handlers, Delete(h) PROVE CTypeOK'
    BY <1>6 DEF Delete
<1>7. CASE Touch
    BY <1>7 DEF Touch
<1>8. CASE UNCHANGED cvars
    BY <1>8 DEF cvars
<1>9. QED
    BY <1>1, <1>2, <1>3, <1>4, <1>5, <1>6, <1>7, <1>8 DEF CNext

(* A step preserves the invariant: a write empties fresh, a check makes its  *)
(* own handler current, and the other steps touch neither.                   *)
LEMMA StepCurrent == FreshCommandIsLawful /\ [CNext]_cvars => FreshCommandIsLawful'
<1> SUFFICES ASSUME FreshCommandIsLawful, [CNext]_cvars PROVE FreshCommandIsLawful'
    OBVIOUS
<1>0. CTypeOK /\ CTypeOK'
    BY TypeStep DEF FreshCommandIsLawful
<1> DEFINE Inv(g) == /\ pc[g] \in {"apply", "quota"}
                     /\ pc[g] = "apply" => Lawful(g)
                     /\ pc[g] = "quota" => Current(g)
<1> SUFFICES ASSUME NEW g \in fresh' PROVE Inv(g)'
    BY <1>0 DEF FreshCommandIsLawful
<1> g \in Handlers
    BY <1>0 DEF CTypeOK
<1>1. ASSUME /\ svc' = svc /\ pc'[g] = pc[g] /\ req'[g] = req[g]
             /\ merged'[g] = merged[g] /\ g \in fresh
      PROVE  Inv(g)'
    BY <1>1 DEF FreshCommandIsLawful, Current, Lawful
<1>2. ASSUME NEW h \in Handlers, Receive(h) PROVE Inv(g)'
    <2>1. CASE g = h
        BY <1>2, <1>0, <2>1 DEF Receive, CTypeOK, FreshCommandIsLawful
    <2>2. CASE g # h
        BY <1>2, <1>0, <1>1, <2>2 DEF Receive, CTypeOK
    <2>3. QED  BY <2>1, <2>2
<1>3. ASSUME NEW h \in Handlers, Check(h) PROVE Inv(g)'
    <2>1. CASE g # h
        BY <1>1, <1>3, <1>0, <2>1 DEF Check, Reject, Done, CTypeOK
    <2>2. CASE g = h /\ svc # NoService /\ ~Refused(req[h])
        <3>1. /\ req' = req /\ svc' = svc /\ merged'[g] = Merged(req[g])
              /\ pc'[g] \in {"apply", "quota"}
              /\ pc'[g] = "quota" => req[g].quotaOnly
            BY <1>3, <1>0, <2>2 DEF Check, Reject, Done, CTypeOK
        <3>2. \A f \in {"owner", "ceiling"} :
                 merged'[g][f] = IF req[g][f] = None THEN svc.quota[f] ELSE req[g][f]
            BY <3>1 DEF Merged, QuotaFields
        <3>3. /\ merged'[g].owner = IF req[g].owner = None THEN svc.quota.owner
                                                           ELSE req[g].owner
              /\ merged'[g].ceiling = IF req[g].ceiling = None THEN svc.quota.ceiling
                                                               ELSE req[g].ceiling
            BY <3>2
        <3>4. Lawful(g)'
            BY <2>2, <3>1, <3>3 DEF Lawful, Refused, OwnerConflict
        <3>5. QED  BY <2>2, <3>1, <3>4 DEF Current, Refused
    <2>3. CASE g = h /\ (svc = NoService \/ Refused(req[h]))
        BY <1>3, <1>0, <2>3 DEF Check, Reject, Done, CTypeOK, FreshCommandIsLawful
    <2>4. QED  BY <2>1, <2>2, <2>3
<1>4. ASSUME NEW h \in Handlers, PatchQuota(h) \/ CheckRemove(h) PROVE Inv(g)'
    <2>1. CASE g # h
        BY <1>1, <1>4, <1>0, <2>1 DEF PatchQuota, CheckRemove, Reject, Done, CTypeOK
    <2>2. CASE g = h
        BY <1>4, <1>0, <2>2 DEF PatchQuota, CheckRemove, Reject, Done, CTypeOK,
              FreshCommandIsLawful
    <2>3. QED  BY <2>1, <2>2
<1>6. ASSUME NEW h \in Handlers, Apply(h) \/ Delete(h) PROVE Inv(g)'
    BY <1>6 DEF Apply, Delete
<1>7. CASE Touch \/ UNCHANGED cvars
    BY <1>7, <1>1 DEF Touch, cvars
<1>8. QED
    BY <1>2, <1>3, <1>4, <1>6, <1>7 DEF CNext

(* FreshCommandIsLawful is an invariant: what reconcile checked for a         *)
(* quota-only command holds as long as its resourceVersion is current.       *)
THEOREM FreshCommandThm == CSpec => []FreshCommandIsLawful
BY InitCurrent, StepCurrent, PTL DEF CSpec

(* QuotaLandsOnItsGeneration: the merge patch of a quota-only command never  *)
(* lands on a service that a concurrent edit has changed.                    *)
THEOREM QuotaLandsThm == CSpec => QuotaLandsOnItsGeneration
<1> DEFINE Lands == \A h \in Handlers :
              pc[h] = "quota" /\ pc'[h] = "idle" /\ svc' # svc => Current(h)
<1>1. FreshCommandIsLawful /\ [CNext]_cvars => [Lands]_cvars
    <2> SUFFICES ASSUME FreshCommandIsLawful, CNext,
                        NEW h \in Handlers,
                        pc[h] = "quota", pc'[h] = "idle", svc' # svc
                 PROVE  Current(h)
        OBVIOUS
    <2>1. ASSUME NEW k \in Handlers, PatchQuota(k) PROVE Current(h)
        <3>1. k = h
            BY <2>1 DEF PatchQuota, Reject, Done, FreshCommandIsLawful, CTypeOK
        <3>2. h \in fresh
            BY <2>1, <3>1 DEF PatchQuota, Reject, QuotaFenced
        <3>3. QED  BY <3>2 DEF FreshCommandIsLawful
    <2>2. ASSUME NEW k \in Handlers, Apply(k) \/ Delete(k) PROVE FALSE
        BY <2>2 DEF Apply, Delete, Done, FreshCommandIsLawful, CTypeOK
    <2>3. ASSUME NEW k \in Handlers, Receive(k) \/ Check(k) \/ CheckRemove(k) PROVE FALSE
        BY <2>3 DEF Receive, Check, CheckRemove, Reject
    <2>4. QED
        BY <2>1, <2>2, <2>3 DEF CNext, Touch
<1>2. QED
    BY <1>1, FreshCommandThm, PTL DEF CSpec, QuotaLandsOnItsGeneration

(* UpdateTakesNothingBack: a full update that nobody overtook keeps the      *)
(* generation, the owner, the ceiling, the organization and the disk source, *)
(* although reconcile sends the omitted fields back as it read them.         *)
THEOREM NothingTakenBackThm == CSpec => UpdateTakesNothingBack
<1> DEFINE Keeps == /\ ~(svc.gen > svc'.gen)
                    /\ svc'.org = svc.org /\ svc'.source = svc.source
                    /\ svc.quota.owner # None => svc'.quota.owner = svc.quota.owner
                    /\ svc.quota.ceiling # None => svc'.quota.ceiling # None
           Step == \A h \in fresh : pc[h] = "apply" /\ pc'[h] = "idle" => Keeps
<1>1. FreshCommandIsLawful /\ [CNext]_cvars => [Step]_cvars
    <2> SUFFICES ASSUME FreshCommandIsLawful, CNext, NEW h \in fresh,
                        pc[h] = "apply", pc'[h] = "idle"
                 PROVE  Keeps
        OBVIOUS
    <2>0. CTypeOK /\ h \in Handlers /\ Lawful(h)
        BY DEF FreshCommandIsLawful, CTypeOK
    <2>1. CASE Apply(h)
        <3>1. /\ svc'.gen = req[h].gen /\ svc'.org = req[h].org
              /\ svc'.source = req[h].source
              /\ svc'.quota.owner = AppliedValue("owner", merged[h].owner)
              /\ svc'.quota.ceiling = AppliedValue("ceiling", merged[h].ceiling)
            BY <2>1 DEF Apply, QuotaFields
        <3>2. QED  BY <2>0, <3>1 DEF Lawful, AppliedValue
    <2>2. ASSUME NEW k \in Handlers, k # h, Apply(k) \/ PatchQuota(k) \/ Delete(k)
          PROVE  FALSE
        BY <2>0, <2>2 DEF Apply, PatchQuota, Delete, Reject, Done, CTypeOK
    <2>3. ASSUME NEW k \in Handlers, Receive(k) \/ Check(k) \/ CheckRemove(k)
          PROVE  FALSE
        BY <2>0, <2>3 DEF Receive, Check, CheckRemove, Reject, Done, CTypeOK
    <2>4. ~PatchQuota(h) /\ ~Delete(h) /\ ~Touch
        BY DEF PatchQuota, Delete, Touch
    <2>5. QED  BY <2>1, <2>2, <2>3, <2>4 DEF CNext
<1>2. QED
    BY <1>1, FreshCommandThm, PTL DEF CSpec, UpdateTakesNothingBack

-----------------------------------------------------------------------------
(* Sessions in containers.                                                 *)

Early == Http \cup {"new", "refused", "upgrade", "first", "start"}
Holders == {s \in Sessions : sess[s].pc \in Owns}

Sane(s, r) ==
    /\ r.process = "runs" => r.pc \in Owns
    /\ r.pc \in Early => r.process = "none" /\ r.result # "success" /\ r.code # "success"
    /\ r.got <= r.made
    /\ r.result = "success" => r.succeeded /\ r.process \in {"exits", "gone"}
    /\ r.result = "success" /\ r.pc \in Owns => r.process = "exits"
    /\ r.pc = "tell" => s \in Commands
    /\ s \in Commands /\ r.pc \in {"status", "tell"} =>
          /\ r.process \in {"exits", "gone"}
          /\ r.process = "exits" => r.got = r.made
    /\ r.code = "success" =>
          r.succeeded /\ r.got = r.made /\ r.process # "runs" /\ r.pc \in {"abort", "over"}

Inv ==
    /\ server \in {"serving", "draining", "drained", "exited"}
    /\ free \in Nat
    /\ pod \in BOOLEAN /\ current \in BOOLEAN
    /\ sess \in [Sessions -> SessionRecords]
    /\ free + Cardinality(Holders) = Permits
    /\ \A s \in Sessions : Sane(s, sess[s])
    /\ server \in {"drained", "exited"} => \A s \in Sessions : sess[s].pc \notin Http
    /\ server = "exited" => \A s \in Sessions : sess[s].pc \notin Owns

(* A step of one session: its record stays sane, and it takes or gives     *)
(* back a permit exactly when it begins or ceases to own one.              *)
Accounts(s) ==
    \/ (sess[s].pc \in Owns <=> sess'[s].pc \in Owns) /\ free' = free
    \/ sess[s].pc \notin Owns /\ sess'[s].pc \in Owns /\ free' = free - 1 /\ free > 0
    \/ sess[s].pc \in Owns /\ sess'[s].pc \notin Owns /\ free' = free + 1
Moves(s) ==
    /\ sess' = [sess EXCEPT ![s] = sess'[s]]
    /\ sess'[s] \in SessionRecords
    /\ Sane(s, sess'[s])
    /\ Accounts(s)
    /\ server' = server /\ pod' = pod /\ current' = current
    /\ server \in {"drained", "exited"} => sess'[s].pc \notin Http
    /\ server = "exited" => sess'[s].pc \notin Owns
-----------------------------------------------------------------------------
(* The sessions that own a permit are finitely many.                       *)
LEMMA HoldersFinite ==
    ASSUME Inv
    PROVE  IsFiniteSet(Holders) /\ Cardinality(Holders) \in Nat
<1>1. IsFiniteSet(Holders)
  BY SessionConstants, FS_Subset DEF Holders
<1> QED
  BY <1>1, FS_CardinalityType

(* The permits are accounted for after a step of one session.              *)
LEMMA Counting ==
    ASSUME Inv, NEW s \in Sessions, Moves(s)
    PROVE  free' \in Nat /\ free' + Cardinality(Holders') = Permits
<1>1. \A t \in Sessions : t # s => sess'[t] = sess[t]
  BY DEF Moves, Inv
<1>2. IsFiniteSet(Holders) /\ Cardinality(Holders) \in Nat
  BY HoldersFinite
<1>3. CASE sess[s].pc \in Owns <=> sess'[s].pc \in Owns
  <2>1. Holders' = Holders
    BY <1>1, <1>3 DEF Holders
  <2>2. free' = free
    BY <1>3 DEF Moves, Accounts
  <2> QED
    BY <2>1, <2>2 DEF Inv
<1>4. CASE sess[s].pc \notin Owns /\ sess'[s].pc \in Owns
  <2>1. Holders' = Holders \cup {s} /\ s \notin Holders
    BY <1>1, <1>4 DEF Holders
  <2>2. Cardinality(Holders') = Cardinality(Holders) + 1
    BY <2>1, <1>2, FS_AddElement
  <2>3. free' = free - 1 /\ free > 0
    BY <1>4 DEF Moves, Accounts
  <2> QED
    BY <2>2, <2>3, <1>2, SessionConstants DEF Inv
<1>5. CASE sess[s].pc \in Owns /\ sess'[s].pc \notin Owns
  <2>1. Holders' = Holders \ {s} /\ s \in Holders
    BY <1>1, <1>5 DEF Holders
  <2>2. Cardinality(Holders') = Cardinality(Holders) - 1
    BY <2>1, <1>2, FS_RemoveElement
  <2>3. free' = free + 1
    BY <1>5 DEF Moves, Accounts
  <2> QED
    BY <2>2, <2>3, <1>2, SessionConstants DEF Inv
<1> QED
  BY <1>3, <1>4, <1>5

(* A step of one session that moves as it should keeps the invariant.      *)
LEMMA MovesKeep ==
    ASSUME Inv, NEW s \in Sessions, Moves(s)
    PROVE  Inv'
<1>1. /\ sess'[s] \in SessionRecords /\ Sane(s, sess'[s])
      /\ server' = server /\ pod' = pod /\ current' = current
      /\ server \in {"drained", "exited"} => sess'[s].pc \notin Http
      /\ server = "exited" => sess'[s].pc \notin Owns
  BY DEF Moves
<1>2. \A t \in Sessions : t # s => sess'[t] = sess[t]
  BY DEF Moves, Inv
<1>3. sess' \in [Sessions -> SessionRecords]
  BY <1>1 DEF Moves, Inv
<1>4. \A t \in Sessions : Sane(t, sess'[t])
  BY <1>1, <1>2 DEF Inv
<1>5. free' \in Nat /\ free' + Cardinality(Holders') = Permits
  BY Counting
<1>6. /\ server' \in {"drained", "exited"} => \A t \in Sessions : sess'[t].pc \notin Http
      /\ server' = "exited" => \A t \in Sessions : sess'[t].pc \notin Owns
  BY <1>1, <1>2 DEF Inv
<1> QED
  BY <1>1, <1>3, <1>4, <1>5, <1>6 DEF Inv
-----------------------------------------------------------------------------
(* A request is refused or goes on to its checks; it owns nothing yet. *)
LEMMA ArriveMoves ==
    ASSUME Inv, NEW s \in Sessions, Arrive(s)
    PROVE  Moves(s)
<1> DEFINE r == sess[s]
<1>1. r \in SessionRecords /\ Sane(s, r)
  BY DEF Inv
<1> QED
  BY <1>1, SessionConstants DEF Inv, Arrive, Go, Moves, Accounts, Sane,
         SessionRecords, Early, Http, Owns

(* The service check changes only where the request is. *)
LEMMA ScopeMoves ==
    ASSUME Inv, NEW s \in Sessions, Scope(s)
    PROVE  Moves(s)
<1> DEFINE r == sess[s]
<1>1. r \in SessionRecords /\ Sane(s, r)
  BY DEF Inv
<1> QED
  BY <1>1, SessionConstants DEF Inv, Scope, Go, Moves, Accounts, Sane,
         SessionRecords, Early, Http, Owns

(* The Pod check changes only where the request is. *)
LEMMA CheckPodMoves ==
    ASSUME Inv, NEW s \in Sessions, CheckPod(s)
    PROVE  Moves(s)
<1> DEFINE r == sess[s]
<1>1. r \in SessionRecords /\ Sane(s, r)
  BY DEF Inv
<1> QED
  BY <1>1, SessionConstants DEF Inv, CheckPod, Go, Moves, Accounts, Sane,
         SessionRecords, Early, Http, Owns

(* A permit is taken, or the request refused for want of one. *)
LEMMA TakePermitMoves ==
    ASSUME Inv, NEW s \in Sessions, TakePermit(s)
    PROVE  Moves(s)
<1> DEFINE r == sess[s]
<1>1. r \in SessionRecords /\ Sane(s, r)
  BY DEF Inv
<1> QED
  BY <1>1, SessionConstants DEF Inv, TakePermit, Go, Moves, Accounts, Sane,
         SessionRecords, Early, Http, Owns

(* A request that finds the server draining gives its permit back. *)
LEMMA CheckDrainingMoves ==
    ASSUME Inv, NEW s \in Sessions, CheckDraining(s)
    PROVE  Moves(s)
<1> DEFINE r == sess[s]
<1>1. r \in SessionRecords /\ Sane(s, r)
  BY DEF Inv
<1> QED
  BY <1>1, SessionConstants DEF Inv, CheckDraining, Go, Moves, Accounts, Sane,
         SessionRecords, Early, Http, Owns

(* The permit goes to the task, or back if the client is gone. *)
LEMMA UpgradeMoves ==
    ASSUME Inv, NEW s \in Sessions, Upgrade(s)
    PROVE  Moves(s)
<1> DEFINE r == sess[s]
<1>1. r \in SessionRecords /\ Sane(s, r)
  BY DEF Inv
<1> QED
  BY <1>1, SessionConstants DEF Inv, Upgrade, Go, End, Moves, Accounts, Sane,
         SessionRecords, Early, Http, Owns

(* Without a valid start message the permit goes back. *)
LEMMA FirstMessageMoves ==
    ASSUME Inv, NEW s \in Sessions, FirstMessage(s)
    PROVE  Moves(s)
<1> DEFINE r == sess[s]
<1>1. r \in SessionRecords /\ Sane(s, r)
  BY DEF Inv
<1> QED
  BY <1>1, SessionConstants DEF Inv, FirstMessage, Go, End, Moves, Accounts, Sane,
         SessionRecords, Early, Http, Owns

(* A process starts only under a permit, and without a status. *)
LEMMA StartProcessMoves ==
    ASSUME Inv, NEW s \in Sessions, StartProcess(s)
    PROVE  Moves(s)
<1> DEFINE r == sess[s]
<1>1. r \in SessionRecords /\ Sane(s, r)
  BY DEF Inv
<1> QED
  BY <1>1, SessionConstants DEF Inv, StartProcess, End, Moves, Accounts, Sane,
         SessionRecords, Early, Http, Owns

(* A client that is gone before the start ends the session. *)
LEMMA AnnounceMoves ==
    ASSUME Inv, NEW s \in Sessions, Announce(s)
    PROVE  Moves(s)
<1> DEFINE r == sess[s]
<1>1. r \in SessionRecords /\ Sane(s, r)
  BY DEF Inv
<1> QED
  BY <1>1, SessionConstants DEF Inv, Announce, Go, End, Moves, Accounts, Sane,
         SessionRecords, Early, Http, Owns

(* Reading moves one piece of output to the client. *)
LEMMA ReadOutputMoves ==
    ASSUME Inv, NEW s \in Sessions, ReadOutput(s)
    PROVE  Moves(s)
<1> DEFINE r == sess[s]
<1>1. r \in SessionRecords /\ Sane(s, r)
  BY DEF Inv
<1> QED
  BY <1>1, SessionConstants DEF Inv, ReadOutput, Pending, Moves, Accounts, Sane,
         SessionRecords, Early, Http, Owns

(* A command waits for its status only when all output is read. *)
LEMMA EndOfStreamMoves ==
    ASSUME Inv, NEW s \in Sessions, EndOfStream(s)
    PROVE  Moves(s)
<1> DEFINE r == sess[s]
<1>1. r \in SessionRecords /\ Sane(s, r)
  BY DEF Inv
<1>2. PICK out, err \in BOOLEAN :
        sess' = [sess EXCEPT ![s].out = out, ![s].err = err,
                             ![s].pc = IF out \/ err THEN "loop"
                                       ELSE IF s \in Forwards THEN "abort" ELSE "status"]
  BY Zenon DEF EndOfStream
<1>3. /\ r.pc = "loop" /\ server # "exited" /\ r.process \in {"exits", "gone"}
      /\ r.process = "gone" \/ ~(r.got < r.made)
      /\ UNCHANGED <<server, free, pod, current>>
  BY DEF EndOfStream, Ended, Pending
<1>4. /\ sess'[s].pc \in {"loop", "abort", "status"}
      /\ sess'[s].out = out /\ sess'[s].err = err
      /\ sess'[s].process = r.process /\ sess'[s].made = r.made /\ sess'[s].got = r.got
      /\ sess'[s].succeeded = r.succeeded /\ sess'[s].result = r.result
      /\ sess'[s].code = r.code
      /\ sess' = [sess EXCEPT ![s] = sess'[s]]
  BY <1>1, <1>2 DEF Inv, SessionRecords
<1>5. sess'[s] \in SessionRecords
  BY <1>1, <1>2 DEF Inv, SessionRecords, Owns
<1>6. Sane(s, sess'[s])
  BY <1>1, <1>3, <1>4, SessionConstants DEF Sane, SessionRecords, Early, Http, Owns
<1> QED
  BY <1>3, <1>4, <1>5, <1>6 DEF Moves, Accounts, Http, Owns

(* A client that leaves ends the loop; a command gets no status then. *)
LEMMA ClientGoneMoves ==
    ASSUME Inv, NEW s \in Sessions, ClientGone(s)
    PROVE  Moves(s)
<1> DEFINE r == sess[s]
<1>1. r \in SessionRecords /\ Sane(s, r)
  BY DEF Inv
<1> QED
  BY <1>1, SessionConstants DEF Inv, ClientGone, Moves, Accounts, Sane,
         SessionRecords, Early, Http, Owns

(* The status, or none, is taken over. *)
LEMMA TakeStatusMoves ==
    ASSUME Inv, NEW s \in Sessions, TakeStatus(s)
    PROVE  Moves(s)
<1> DEFINE r == sess[s]
<1>1. r \in SessionRecords /\ Sane(s, r)
  BY DEF Inv
<1> QED
  BY <1>1, SessionConstants DEF Inv, TakeStatus, Moves, Accounts, Sane,
         SessionRecords, Early, Http, Owns

(* Success is told only for the status of a process that succeeded. *)
LEMMA TellMoves ==
    ASSUME Inv, NEW s \in Sessions, Tell(s)
    PROVE  Moves(s)
<1> DEFINE r == sess[s]
<1>1. r \in SessionRecords /\ Sane(s, r)
  BY DEF Inv
<1>2. PICK code \in {ExitCode(r.result), "none"} :
        sess' = [sess EXCEPT ![s] = [r EXCEPT !.pc = "abort", !.code = code]]
  BY DEF Tell, Inv
<1>3. r.pc = "tell" /\ server # "exited" /\ UNCHANGED <<server, free, pod, current>>
  BY DEF Tell
<1>4. /\ sess'[s].pc = "abort" /\ sess'[s].code = code
      /\ sess'[s].out = r.out /\ sess'[s].err = r.err
      /\ sess'[s].process = r.process /\ sess'[s].made = r.made /\ sess'[s].got = r.got
      /\ sess'[s].succeeded = r.succeeded /\ sess'[s].result = r.result
      /\ sess' = [sess EXCEPT ![s] = sess'[s]]
  BY <1>1, <1>2 DEF Inv, SessionRecords
<1>5. code \in {"none", "success", "failure"} /\ (code = "success" => r.result = "success")
  BY <1>2 DEF ExitCode
<1>6. sess'[s] \in SessionRecords
  BY <1>1, <1>2, <1>5 DEF Inv, SessionRecords, Owns
<1>7. Sane(s, sess'[s])
  BY <1>1, <1>3, <1>4, <1>5 DEF Sane, SessionRecords, Early, Http, Owns
<1> QED
  BY <1>3, <1>4, <1>6, <1>7 DEF Moves, Accounts, Http, Owns

(* The end of the task aborts the process and returns the permit. *)
LEMMA AbortMoves ==
    ASSUME Inv, NEW s \in Sessions, Abort(s)
    PROVE  Moves(s)
<1> DEFINE r == sess[s]
<1>1. r \in SessionRecords /\ Sane(s, r)
  BY DEF Inv
<1>2. /\ sess' = [sess EXCEPT ![s] = [r EXCEPT !.pc = "over", !.out = FALSE, !.err = FALSE,
                     !.process = IF r.process = "none" THEN "none" ELSE "gone"]]
      /\ r.pc = "abort" /\ server # "exited" /\ free' = free + 1
      /\ UNCHANGED <<server, pod, current>>
  BY DEF Abort, End, Inv
<1>3. /\ sess'[s].pc = "over" /\ sess'[s].process \in {"none", "gone"}
      /\ r.process # "none" => sess'[s].process = "gone"
      /\ sess'[s].made = r.made /\ sess'[s].got = r.got
      /\ sess'[s].succeeded = r.succeeded /\ sess'[s].result = r.result
      /\ sess'[s].code = r.code
      /\ sess' = [sess EXCEPT ![s] = sess'[s]]
  BY <1>1, <1>2 DEF Inv, SessionRecords
<1>4. sess'[s] \in SessionRecords
  BY <1>1, <1>2 DEF Inv, SessionRecords
<1>5. Sane(s, sess'[s])
  BY <1>1, <1>2, <1>3 DEF Sane, SessionRecords, Early, Http, Owns
<1> QED
  BY <1>2, <1>3, <1>4, <1>5 DEF Moves, Accounts, Http, Owns

(* A running process writes; its session still owns a permit. *)
LEMMA WriteMoves ==
    ASSUME Inv, NEW s \in Sessions, Write(s)
    PROVE  Moves(s)
<1> DEFINE r == sess[s]
<1>1. r \in SessionRecords /\ Sane(s, r)
  BY DEF Inv
<1> QED
  BY <1>1, SessionConstants DEF Inv, Write, Moves, Accounts, Sane,
         SessionRecords, Early, Http, Owns

(* A process ends by itself and leaves its status. *)
LEMMA FinishMoves ==
    ASSUME Inv, NEW s \in Sessions, Finish(s)
    PROVE  Moves(s)
<1> DEFINE r == sess[s]
<1>1. r \in SessionRecords /\ Sane(s, r)
  BY DEF Inv
<1>2. PICK ok \in BOOLEAN :
        sess' = [sess EXCEPT ![s] = [r EXCEPT !.process = "exits", !.succeeded = ok,
                                              !.result = IF ok THEN "success" ELSE "failure"]]
  BY DEF Finish, Inv
<1>3. r.process = "runs" /\ UNCHANGED <<server, free, pod, current>>
  BY DEF Finish
<1>4. /\ sess'[s].pc = r.pc /\ sess'[s].process = "exits" /\ sess'[s].succeeded = ok
      /\ sess'[s].result = IF ok THEN "success" ELSE "failure"
      /\ sess'[s].made = r.made /\ sess'[s].got = r.got /\ sess'[s].code = r.code
      /\ sess' = [sess EXCEPT ![s] = sess'[s]]
  BY <1>1, <1>2 DEF Inv, SessionRecords
<1>5. sess'[s] \in SessionRecords
  BY <1>1, <1>2 DEF Inv, SessionRecords
<1>6. Sane(s, sess'[s])
  BY <1>1, <1>3, <1>4 DEF Sane, SessionRecords, Early, Http, Owns
<1>7. /\ server \in {"drained", "exited"} => r.pc \notin Http
      /\ server = "exited" => r.pc \notin Owns
  BY DEF Inv
<1> QED
  BY <1>3, <1>4, <1>5, <1>6, <1>7 DEF Moves, Accounts

(* A broken stream leaves no status. *)
LEMMA BreakMoves ==
    ASSUME Inv, NEW s \in Sessions, Break(s)
    PROVE  Moves(s)
<1> DEFINE r == sess[s]
<1>1. r \in SessionRecords /\ Sane(s, r)
  BY DEF Inv
<1> QED
  BY <1>1, SessionConstants DEF Inv, Break, Moves, Accounts, Sane,
         SessionRecords, Early, Http, Owns

-----------------------------------------------------------------------------
(* A Pod that goes takes its processes with it.                            *)
LEMMA PodKeeps ==
    ASSUME Inv, PodChanges
    PROVE  Inv'
<1>1. /\ sess' = [s \in Sessions |-> IF pod /\ sess[s].process = "runs"
                    THEN [sess[s] EXCEPT !.process = "gone"] ELSE sess[s]]
      /\ pod' \in BOOLEAN /\ UNCHANGED <<server, free, current>>
  BY DEF PodChanges
<1>2. ASSUME NEW s \in Sessions
      PROVE  /\ sess'[s] \in SessionRecords /\ sess'[s].pc = sess[s].pc
             /\ Sane(s, sess'[s])
  <2>1. sess[s] \in SessionRecords /\ Sane(s, sess[s])
    BY DEF Inv
  <2>2. CASE sess'[s] = sess[s]
    BY <2>1, <2>2
  <2>3. CASE sess'[s] = [sess[s] EXCEPT !.process = "gone"] /\ sess[s].process = "runs"
    BY <2>1, <2>3 DEF Sane, SessionRecords, Early, Http, Owns
  <2> QED
    BY <1>1, <2>2, <2>3
<1>3. sess' \in [Sessions -> SessionRecords]
  BY <1>1, <1>2
<1>4. Holders' = Holders
  BY <1>2 DEF Holders
<1>5. /\ \A s \in Sessions : Sane(s, sess'[s])
      /\ server' \in {"drained", "exited"} => \A s \in Sessions : sess'[s].pc \notin Http
      /\ server' = "exited" => \A s \in Sessions : sess'[s].pc \notin Owns
  BY <1>1, <1>2 DEF Inv
<1> QED
  BY <1>1, <1>3, <1>4, <1>5 DEF Inv

(* The shutdown: HTTP is done when no request is left, and the process      *)
(* exits when all permits are back, so that nobody owns one.               *)
LEMMA ShutdownKeeps ==
    ASSUME Inv, Signal \/ HttpDone \/ WaitForSessions
    PROVE  Inv'
<1>1. UNCHANGED <<free, pod, current, sess>> /\ Holders' = Holders
  BY DEF Signal, HttpDone, WaitForSessions, Holders
<1>2. CASE Signal
  BY <1>1, <1>2 DEF Inv, Signal
<1>3. CASE HttpDone
  BY <1>1, <1>3 DEF Inv, HttpDone
<1>4. CASE WaitForSessions
  <2>1. Cardinality(Holders) = 0
    BY <1>4, HoldersFinite, SessionConstants DEF Inv, WaitForSessions
  <2>2. Holders = {}
    BY <2>1, HoldersFinite, FS_EmptySet
  <2>3. \A s \in Sessions : sess[s].pc \notin Owns
    BY <2>2 DEF Holders
  <2> QED
    BY <1>1, <1>4, <2>3 DEF Inv, WaitForSessions
<1> QED
  BY <1>2, <1>3, <1>4

(* The invariant holds when the API starts. *)
LEMMA InitInv ==
    ASSUME Init
    PROVE  Inv
<1>1. sess = [s \in Sessions |-> NoSession] /\ NoSession.pc = "new"
  BY DEF Init, NoSession
<1>2. NoSession \in SessionRecords
  BY SessionConstants DEF NoSession, SessionRecords
<1>3. \A s \in Sessions : Sane(s, NoSession)
  BY DEF Sane, NoSession, Early, Http, Owns
<1>4. Holders = {}
  BY <1>1 DEF Holders, Owns
<1>5. Cardinality(Holders) = 0
  BY <1>4, FS_EmptySet
<1> QED
  BY <1>1, <1>2, <1>3, <1>5, SessionConstants DEF Init, Inv, Http, Owns

(* Every step keeps the invariant. *)
LEMMA NextInv ==
    ASSUME Inv, [Next]_evars
    PROVE  Inv'
<1>1. ASSUME NEW s \in Sessions, Arrive(s) \/ Admit(s) \/ Task(s) \/ ClientGone(s)
                                   \/ Write(s) \/ Finish(s) \/ Break(s)
      PROVE  Inv'
  <2>1. CASE Arrive(s) \/ Admit(s) \/ ClientGone(s)
    BY <2>1, ArriveMoves, ScopeMoves, CheckPodMoves, TakePermitMoves, CheckDrainingMoves,
       ClientGoneMoves, MovesKeep DEF Admit
  <2>2. CASE Task(s)
    BY <2>2, UpgradeMoves, FirstMessageMoves, StartProcessMoves, AnnounceMoves,
       ReadOutputMoves, EndOfStreamMoves, TakeStatusMoves, TellMoves, AbortMoves, MovesKeep
       DEF Task
  <2>3. CASE Write(s) \/ Finish(s) \/ Break(s)
    BY <2>3, WriteMoves, FinishMoves, BreakMoves, MovesKeep
  <2> QED
    BY <1>1, <2>1, <2>2, <2>3
<1>2. CASE PodChanges
  BY <1>2, PodKeeps
<1>3. CASE Supersede
  BY <1>3 DEF Supersede, Inv, Holders
<1>4. CASE Signal \/ HttpDone \/ WaitForSessions
  BY <1>4, ShutdownKeeps
<1>5. CASE UNCHANGED evars
  BY <1>5 DEF evars, Inv, Holders
<1> QED
  BY <1>1, <1>2, <1>3, <1>4, <1>5 DEF Next

(* The inductive invariant: permits are counted against their owners, and  *)
(* every session record is sane, for any sessions and any pool.             *)
THEOREM Invariance == ESpec => []Inv
<1> QED
  BY InitInv, NextInv, PTL DEF ESpec

(* ETypeOK: exec_sessions never holds more than its permits, whichever way *)
(* admissions, endings and draining interleave.                            *)
THEOREM PermitsConserved == ESpec => []ETypeOK
<1>1. Inv => ETypeOK
  <2> SUFFICES ASSUME Inv PROVE ETypeOK
    OBVIOUS
  <2>1. free \in 0..Permits
    BY HoldersFinite, SessionConstants DEF Inv
  <2> QED
    BY <2>1 DEF Inv, ETypeOK
<1> QED
  BY <1>1, Invariance, PTL

(* NoSessionCutOff: wait_for_exec_sessions lets the process exit only when *)
(* every session, upgraded or not, is over.                                *)
THEOREM ShutdownCutsNothing == ESpec => []NoSessionCutOff
<1>1. Inv => NoSessionCutOff
  BY DEF Inv, NoSessionCutOff, SessionRecords
<1> QED
  BY <1>1, Invariance, PTL

(* NoProcessLeft: a running process belongs to a session that owns a       *)
(* permit, so that FLASH_MAX_EXEC_SESSIONS bounds the processes.           *)
THEOREM ProcessesAreOwned == ESpec => []NoProcessLeft
<1>1. Inv => NoProcessLeft
  <2> SUFFICES ASSUME Inv PROVE NoProcessLeft
    OBVIOUS
  <2> DEFINE running == {s \in Sessions : sess[s].process = "runs"}
  <2>1. \A s \in Sessions : sess[s].process = "runs" => sess[s].pc \in Owns
    BY DEF Inv, Sane
  <2>2. running \subseteq Holders
    BY <2>1 DEF Holders
  <2>3. Cardinality(running) \in Nat /\ Cardinality(running) <= Cardinality(Holders)
    BY <2>2, HoldersFinite, FS_Subset, FS_CardinalityType
  <2>4. Cardinality(running) <= Permits - free
    BY <2>3, HoldersFinite, SessionConstants DEF Inv
  <2> QED
    BY <2>1, <2>4 DEF NoProcessLeft
<1> QED
  BY <1>1, Invariance, PTL

(* SuccessIsComplete: an SSH client that is told exit code 0 has all the    *)
(* output of a process that succeeded.                                     *)
THEOREM SuccessMeansComplete == ESpec => []SuccessIsComplete
<1>1. Inv => SuccessIsComplete
  BY DEF Inv, SuccessIsComplete, Sane, Sessions
<1> QED
  BY <1>1, Invariance, PTL
=============================================================================
