----------------------------- MODULE WeeklyMeter -----------------------------
(***************************************************************************)
(* Weekly metering, from src/reconcile.rs and the usage listing of         *)
(* src/bin/flash-api.rs.                                                   *)
(*                                                                         *)
(* CPU, memory and GPU seconds are metered by the same formulas side by    *)
(* side, so the model has one of them.  A replica meters a service once a  *)
(* round, from the allocation that the status recorded at the end of an    *)
(* earlier round; the durable usage record is written without a fence, the *)
(* status with one.                                                        *)
(***************************************************************************)
EXTENDS Integers, FiniteSets, FiniteSetsExt

CONSTANTS
    Services,      \* service identifiers
    Replicas,      \* controller replicas
    OrgOf,         \* the account of a service
    UserOf,        \* its quota_user_id
    Legacy,        \* services metered before usage records were introduced
    CloudAccounts, \* the accounts of the cloud organization
    OrgLimit, MemberLimit, CloudLimit,  \* the limits of the policy
    WeekLength,    \* seconds of a week
    FirstMonday,   \* the first week start after the epoch
    MaxClock,      \* bound: the clock
    MaxFaults      \* bound: restarts of a replica, and deletions

ASSUME MeterConstants ==
    /\ WeekLength \in Nat \ {0}
    /\ FirstMonday \in Nat
    /\ MaxClock \in Nat
    /\ MaxFaults \in Nat
    /\ {OrgLimit, MemberLimit, CloudLimit} \subseteq Nat
    /\ IsFiniteSet(Services)

VARIABLES
    clock,    \* seconds
    live,     \* services that exist
    pods,     \* service -> Pods whose allocation counts (0 or 1)
    desired,  \* service -> replicas of its Deployment
    status,   \* service -> weekly_usage and allocation of its status
    record,   \* service -> its FlashUsageRecord
    round,    \* replica -> service -> the round in progress
    ran,      \* service -> seconds of this week with an allocation on record
    faults

mvars == <<clock, live, pods, desired, status, record, round, ran, faults>>

(* utc_week_start: Euclidean division, also before the first Monday.       *)
WeekStart(t) == ((t - FirstMonday) \div WeekLength) * WeekLength + FirstMonday

NoUsage == [week |-> -WeekLength, used |-> 0, at |-> 0]
NewStatus == [usage |-> NoUsage, metered |-> FALSE, alloc |-> 0]
NoRecord == [kept |-> FALSE, usage |-> NoUsage]
NoRound == [pc |-> "idle", seen |-> NewStatus, alloc |-> 0, now |-> 0,
            usage |-> NoUsage, fresh |-> FALSE, exhausted |-> FALSE]

Bigger(m, n) == IF m >= n THEN m ELSE n

(* projected_weekly_usage: what the status has for this week, and the      *)
(* allocation it recorded for the time since.                              *)
Projected(st, now) ==
    LET week == WeekStart(now)
        previous == st.metered /\ st.usage.week = week
        last == IF previous THEN Bigger(st.usage.at, week) ELSE now
        since == IF last > now THEN now ELSE last
    IN  [week |-> week,
         used |-> (IF previous THEN st.usage.used ELSE 0) + (now - since) * st.alloc,
         at |-> now]

(* The charge on record for the same week is never undercut: in            *)
(* meter_weekly_usage and, by merge_usage, in the usage listing.           *)
MergedSum(usage, rec) ==
    IF rec.kept /\ rec.usage.week = usage.week
      THEN [usage EXCEPT !.used = @ + rec.usage.used]
      ELSE usage
MergedNever(usage, rec) == usage
Merged(usage, rec) ==
    IF rec.kept /\ rec.usage.week = usage.week
      THEN [usage EXCEPT !.used = Bigger(@, rec.usage.used)]
      ELSE usage

(* weekly_totals over a set of services: this week's records, and the      *)
(* projection of a service that has none.                                  *)
CountedTwice(s, now) ==
    (IF record[s].kept /\ record[s].usage.week = WeekStart(now)
       THEN record[s].usage.used ELSE 0)
    + (IF s \in live THEN Projected(status[s], now).used ELSE 0)
CountedLive(s, now) == IF s \in live THEN Projected(status[s], now).used ELSE 0
Counted(s, now) ==
    IF record[s].kept /\ record[s].usage.week = WeekStart(now)
      THEN record[s].usage.used
      ELSE IF s \in live THEN Projected(status[s], now).used ELSE 0

(* usage_items: this week's records, and every service that exists.        *)
Listed(s, now) ==
    IF s \in live THEN Merged(Projected(status[s], now), record[s]).used
    ELSE IF record[s].kept /\ record[s].usage.week = WeekStart(now)
      THEN record[s].usage.used
      ELSE 0

TotalOf(scope, now) == MapThenSumSet(LAMBDA s : Counted(s, now), scope)

Account(s) == {t \in Services : OrgOf[t] = OrgOf[s]}
Member(s) == {t \in Account(s) : UserOf[t] = UserOf[s]}
Cloud == {t \in Services : OrgOf[t] \in CloudAccounts}
Exhausted(s, now) ==
    \/ TotalOf(Account(s), now) >= OrgLimit
    \/ TotalOf(Member(s), now) >= MemberLimit
    \/ OrgOf[s] \in CloudAccounts /\ TotalOf(Cloud, now) >= CloudLimit

Outdate(s, r) ==
    [c \in Replicas |-> [r[c] EXCEPT ![s].fresh = FALSE]]
-----------------------------------------------------------------------------
(* reconcile: the service as the watch delivered it, and its Pods.         *)
Observe(c, s) ==
    /\ s \in live
    /\ round[c][s].pc = "idle"
    /\ round' = [round EXCEPT ![c][s] =
           [NoRound EXCEPT !.pc = "project", !.seen = status[s],
                           !.alloc = pods[s], !.fresh = TRUE]]
    /\ UNCHANGED <<clock, live, pods, desired, status, record, ran, faults>>

(* meter_weekly_usage, up to its first request.                            *)
Project(c, s) ==
    /\ round[c][s].pc = "project"
    /\ round' = [round EXCEPT ![c][s].pc = "read", ![c][s].now = clock,
                              ![c][s].usage = Projected(round[c][s].seen, clock),
                              ![c][s].seen = [NewStatus EXCEPT !.alloc = round[c][s].seen.alloc]]
    /\ UNCHANGED <<clock, live, pods, desired, status, record, ran, faults>>

ReadRecord(c, s) ==
    /\ round[c][s].pc = "read"
    /\ round' = [round EXCEPT ![c][s].pc = "write",
                              ![c][s].usage = Merged(@, record[s])]
    /\ UNCHANGED <<clock, live, pods, desired, status, record, ran, faults>>

WriteRecord(c, s) ==
    /\ round[c][s].pc = "write"
    /\ record' = [record EXCEPT ![s] = [kept |-> TRUE, usage |-> round[c][s].usage]]
    /\ round' = [round EXCEPT ![c][s].pc = "total"]
    /\ UNCHANGED <<clock, live, pods, desired, status, ran, faults>>

(* The totals of all records and services decide whether it may run.       *)
Total(c, s) ==
    /\ round[c][s].pc = "total"
    /\ round' = [round EXCEPT ![c][s].pc = "scale", ![c][s].now = 0,
                              ![c][s].exhausted = Exhausted(s, round[c][s].now)]
    /\ UNCHANGED <<clock, live, pods, desired, status, record, ran, faults>>

(* The Deployment is applied with no replicas when a quota is used up.     *)
Scale(c, s) ==
    /\ round[c][s].pc = "scale"
    /\ desired' = [desired EXCEPT ![s] =
                      IF s \in live /\ ~round[c][s].exhausted THEN 1 ELSE 0]
    /\ round' = [round EXCEPT ![c][s].pc = "report",
                              ![c][s].exhausted = FALSE]
    /\ UNCHANGED <<clock, live, pods, status, record, ran, faults>>

(* apply_weekly_meter and patch_observed_status, fenced.                   *)
Report(c, s) ==
    LET r == round[c][s] IN
    /\ r.pc = "report"
    /\ status' = IF r.fresh
                   THEN [status EXCEPT ![s] = [usage |-> r.usage, metered |-> TRUE,
                                               alloc |-> r.alloc]]
                   ELSE status
    /\ round' = [IF r.fresh THEN Outdate(s, round) ELSE round EXCEPT ![c][s] = NoRound]
    /\ UNCHANGED <<clock, live, pods, desired, record, ran, faults>>

(* The branches of reconcile that end before the meter: an invalid spec,   *)
(* a VPC that is not ready and a disk being restored.  Their status has    *)
(* no weekly usage.                                                        *)
ReportUnmetered(c, s) ==
    LET r == round[c][s] IN
    /\ r.pc = "project"
    /\ status' = IF r.fresh
                   THEN [status EXCEPT ![s] = [NewStatus EXCEPT !.alloc = r.alloc]]
                   ELSE status
    /\ round' = [IF r.fresh THEN Outdate(s, round) ELSE round EXCEPT ![c][s] = NoRound]
    /\ UNCHANGED <<clock, live, pods, desired, record, ran, faults>>

Crash(c) ==
    /\ faults < MaxFaults
    /\ \E s \in Services : round[c][s].pc # "idle"
    /\ faults' = faults + 1
    /\ round' = [round EXCEPT ![c] = [s \in Services |-> NoRound]]
    /\ UNCHANGED <<clock, live, pods, desired, status, record, ran>>
-----------------------------------------------------------------------------
(* Pods follow the Deployment.                                             *)
Settle(s) ==
    /\ pods[s] # desired[s]
    /\ pods' = [pods EXCEPT ![s] = desired[s]]
    /\ UNCHANGED <<clock, live, desired, status, record, round, ran, faults>>

(* A second passes; ran counts it for services with an allocation in their *)
(* status or in the copies of a round in progress (the one it read, and    *)
(* the one it will report as of the moment it metered), and starts again   *)
(* with a new week.                                                        *)
OnRecord(s) ==
    \/ s \in live /\ status[s].alloc = 1
    \/ \E c \in Replicas :
          \/ round[c][s].pc # "idle" /\ round[c][s].seen.alloc = 1
          \/ round[c][s].pc \notin {"idle", "project"} /\ round[c][s].alloc = 1

Tick ==
    /\ clock < MaxClock
    /\ clock' = clock + 1
    /\ ran' = [s \in Services |->
           IF WeekStart(clock + 1) = clock + 1 THEN 0
           ELSE ran[s] + IF OnRecord(s) THEN 1 ELSE 0]
    /\ UNCHANGED <<live, pods, desired, status, record, round, faults>>

(* A service is deleted, or created (again) under its identifier.          *)
Remove(s) ==
    /\ s \in live
    /\ faults < MaxFaults
    /\ faults' = faults + 1
    /\ live' = live \ {s}
    /\ desired' = [desired EXCEPT ![s] = 0]
    /\ pods' = [pods EXCEPT ![s] = 0]
    /\ status' = [status EXCEPT ![s] = NewStatus]
    /\ round' = Outdate(s, round)
    /\ UNCHANGED <<clock, record, ran>>

Install(s) ==
    /\ s \notin live
    /\ live' = live \cup {s}
    /\ UNCHANGED <<clock, pods, desired, status, record, round, ran, faults>>

Init ==
    /\ clock = FirstMonday + 1
    /\ live = Services
    /\ pods = [s \in Services |-> 1]
    /\ desired = [s \in Services |-> 1]
    /\ status = [s \in Services |->
          IF s \in Legacy
            THEN [usage |-> [week |-> FirstMonday, used |-> 1, at |-> FirstMonday + 1],
                  metered |-> TRUE, alloc |-> 1]
            ELSE NewStatus]
    /\ ran = [s \in Services |-> IF s \in Legacy THEN 1 ELSE 0]
    /\ record = [s \in Services |-> NoRecord]
    /\ round = [c \in Replicas |-> [s \in Services |-> NoRound]]
    /\ faults = 0

Step(c, s) ==
    \/ Project(c, s) \/ ReadRecord(c, s) \/ WriteRecord(c, s)
    \/ Total(c, s) \/ Scale(c, s) \/ Report(c, s)

Next ==
    \/ \E c \in Replicas, s \in Services :
          Observe(c, s) \/ Step(c, s) \/ ReportUnmetered(c, s)
    \/ \E c \in Replicas : Crash(c)
    \/ \E s \in Services : Settle(s) \/ Remove(s) \/ Install(s)
    \/ Tick

MSpec == Init /\ [][Next]_mvars
-----------------------------------------------------------------------------
(* A service is charged at most once for each second of the week that its  *)
(* status shows an allocation: not for a second of last week, and not      *)
(* twice after a crash between the record and the status.                  *)
ChargedOnce ==
    \A s \in Services :
        record[s].kept /\ record[s].usage.week = WeekStart(clock) =>
            record[s].usage.used <= ran[s]

(* The usage listing shows each service at no less than a quota counts it  *)
(* for and at no more than it ran, and a quota counts it once: whether it  *)
(* has a record of this week, has none yet, or is deleted.                 *)
ListingCoversQuota ==
    \A s \in Services :
        /\ Counted(s, clock) <= Listed(s, clock)
        /\ Listed(s, clock) <= ran[s]

(* What a service was charged this week is never taken back, by a later    *)
(* round, a restart or its deletion.                                       *)
ChargesStand ==
    [][\A s \in Services :
          record[s].kept /\ record'[s].usage.week = record[s].usage.week =>
              record'[s].usage.used >= record[s].usage.used]_mvars

(* A service that has used up its member quota is not started again in    *)
(* that week: not after a restart of the controller, not by a status that  *)
(* lost its usage, and not by deleting it and creating it again.           *)
SpentStaysDown ==
    [][\A s \in Services :
          /\ desired'[s] > desired[s]
          /\ record[s].kept
          /\ record[s].usage.week = WeekStart(clock)
          => record[s].usage.used < MemberLimit]_mvars
=============================================================================
