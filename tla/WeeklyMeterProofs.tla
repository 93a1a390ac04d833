-------------------------- MODULE WeeklyMeterProofs --------------------------
(***************************************************************************)
(* A second is charged once, the listing covers the quota, charges are not *)
(* taken back and a used up quota keeps a service down: the proofs for     *)
(* every finite set of services, every length of a week, every clock and   *)
(* every number of restarts and deletions, with one replica of the         *)
(* controller.  With two replicas the record, which is written without a   *)
(* fence, may be overtaken, and none of the four holds.                    *)
(*                                                                         *)
(* A charge is made up to a second and the status that carries it goes on  *)
(* to pay for its allocation from that second.  The invariant therefore    *)
(* speaks of a charge together with the seconds pending beside it, in the  *)
(* status, in the copy that a round has read, in the charge that a round   *)
(* has worked out and, between the two requests of a round, in the record. *)
(***************************************************************************)
EXTENDS WeeklyMeter, LeastElements

(* The controller has one replica.                                         *)
OneReplica == \A c, d \in Replicas : c = d

(* What a usage, a status, a record and a round are.                       *)
Steps == {"idle", "project", "read", "write", "total", "scale", "report"}
UsageSet == [week : Int, used : Nat, at : Nat]
StatusSet == [usage : UsageSet, metered : BOOLEAN, alloc : {0, 1}]
RecordSet == [kept : BOOLEAN, usage : UsageSet]
RoundSet == [pc : Steps, seen : StatusSet, alloc : {0, 1}, now : Nat,
             usage : UsageSet, fresh : BOOLEAN, exhausted : BOOLEAN]

(* Types of the variables.                                                 *)
MeterTypes ==
    /\ clock \in Nat /\ clock > FirstMonday
    /\ pods \in [Services -> {0, 1}]
    /\ desired \in [Services -> {0, 1}]
    /\ status \in [Services -> StatusSet]
    /\ record \in [Services -> RecordSet]
    /\ round \in [Replicas -> [Services -> RoundSet]]
    /\ ran \in [Services -> Nat]

(* Seconds of this week, charged to a service up to the second at, are     *)
(* covered by the seconds it ran, with those its allocation adds by now.   *)
Within(week, used, at, alloc, now, limit) ==
    /\ week <= WeekStart(now)
    /\ week = WeekStart(now) =>
          used + (IF alloc = 1 THEN now - at ELSE 0) <= limit

(* A usage that was metered at usage.at and pays for an allocation since.  *)
Covered(usage, alloc, now, limit) ==
    /\ usage.at <= now
    /\ Within(usage.week, usage.used, usage.at, alloc, now, limit)

(* A status has its allocation pending beside its usage.                   *)
StatusCovered(st, now, limit) ==
    st.metered => Covered(st.usage, st.alloc, now, limit)

(* A record has nothing pending.                                           *)
OnTheBooks(rec, now, limit) ==
    rec.kept => Within(rec.usage.week, rec.usage.used, now, 0, now, limit)

(* A round before the projection has a status; one after it has a charge.  *)
(* A round that is about to read the record will raise its charge to that  *)
(* of the record, so the record is covered with the round's allocation;    *)
(* one that is about to write has done so.                                 *)
RoundCovered(r, rec, now, limit) ==
    /\ r.pc = "project" => StatusCovered(r.seen, now, limit)
    /\ r.pc \notin {"idle", "project"} => Covered(r.usage, r.alloc, now, limit)
    /\ r.pc = "read" /\ rec.kept =>
          Within(rec.usage.week, rec.usage.used, r.usage.at, r.alloc, now, limit)
    /\ r.pc = "write" /\ rec.kept /\ rec.usage.week = r.usage.week =>
          rec.usage.used <= r.usage.used

(* Only a service that exists has a status or a round that may report.     *)
LiveOnly ==
    \A s \in Services :
        /\ s \notin live => status[s] = NewStatus
        /\ \A c \in Replicas : round[c][s].fresh => s \in live

(* The charges of the statuses and the records.                            *)
ServicesCovered ==
    \A s \in Services :
        /\ StatusCovered(status[s], clock, ran[s])
        /\ OnTheBooks(record[s], clock, ran[s])

(* The charges of the rounds.                                              *)
RoundsCovered ==
    \A c \in Replicas, s \in Services :
        RoundCovered(round[c][s], record[s], clock, ran[s])

(* The inductive invariant.                                                *)
MeterInv == MeterTypes /\ LiveOnly /\ ServicesCovered /\ RoundsCovered
-----------------------------------------------------------------------------
(* Euclidean division by a positive number.                                *)
LEMMA DivBounds ==
    ASSUME NEW a \in Int, NEW w \in Nat \ {0}
    PROVE  /\ a \div w \in Int
           /\ (a \div w) * w \in Int
           /\ (a \div w) * w <= a
           /\ a < (a \div w) * w + w
BY Z3

(* Multiples of the length of a week are at least a week apart.            *)
LEMMA Multiples ==
    ASSUME NEW w \in Nat \ {0}, NEW p \in Int, NEW q \in Int, p < q
    PROVE  p * w \in Int /\ q * w \in Int /\ p * w + w <= q * w
BY Z3

(* utc_week_start returns a second of the past, and none before the first  *)
(* Monday.                                                                 *)
LEMMA WeekBounds ==
    ASSUME NEW t \in Nat, t > FirstMonday
    PROVE  /\ WeekStart(t) \in Int
           /\ FirstMonday <= WeekStart(t)
           /\ WeekStart(t) <= t
<1> DEFINE p == (t - FirstMonday) \div WeekLength
           m == p * WeekLength
<1>1. WeekLength \in Nat \ {0} /\ FirstMonday \in Nat /\ t - FirstMonday \in Int
  BY MeterConstants
<1>2. p \in Int /\ m \in Int /\ m <= t - FirstMonday /\ t - FirstMonday < m + WeekLength
  BY <1>1, DivBounds
<1>3. WeekStart(t) = m + FirstMonday
  BY DEF WeekStart
<1>4. p < 0 => m + WeekLength <= 0
  <2>1. ASSUME p < 0 PROVE m + WeekLength <= 0 * WeekLength
    <3> HIDE DEF p
    <3> QED  BY <1>1, <1>2, <2>1, Multiples
  <2> QED  BY <2>1, <1>1
<1>5. p >= 0 => m >= 0
  <2> HIDE DEF p
  <2>1. ASSUME 0 < p PROVE 0 * WeekLength + WeekLength <= m
    BY <1>1, <1>2, <2>1, Multiples
  <2>2. p = 0 => m = 0
    BY <1>1
  <2> QED  BY <2>1, <2>2, <1>1, <1>2
<1> HIDE DEF m, p
<1> QED
  BY <1>1, <1>2, <1>3, <1>4, <1>5

(* From one second to the next the week stays, or it begins with that      *)
(* second.                                                                 *)
LEMMA WeekTurns ==
    ASSUME NEW t \in Nat, t > FirstMonday
    PROVE  WeekStart(t + 1) = t + 1 \/ WeekStart(t + 1) = WeekStart(t)
<1> DEFINE a == t - FirstMonday
           p == a \div WeekLength
           q == (a + 1) \div WeekLength
           m == p * WeekLength
           n == q * WeekLength
<1>1. WeekLength \in Nat \ {0} /\ FirstMonday \in Nat /\ a \in Int /\ a + 1 \in Int
  BY MeterConstants
<1>2. p \in Int /\ m \in Int /\ m <= a /\ a < m + WeekLength
  BY <1>1, DivBounds
<1>3. q \in Int /\ n \in Int /\ n <= a + 1 /\ a + 1 < n + WeekLength
  BY <1>1, DivBounds
<1>4. WeekStart(t) = m + FirstMonday
  BY DEF WeekStart
<1>5. WeekStart(t + 1) = n + FirstMonday
  <2> DEFINE b == (t + 1) - FirstMonday
  <2>1. b = a + 1
    BY <1>1
  <2>2. WeekStart(t + 1) = (b \div WeekLength) * WeekLength + FirstMonday
    BY DEF WeekStart
  <2> HIDE DEF a, b
  <2> QED  BY <2>1, <2>2
<1>6. p < q => m + WeekLength <= n
  <2> HIDE DEF p, q
  <2> QED  BY <1>1, <1>2, <1>3, Multiples
<1>7. q < p => n + WeekLength <= m
  <2> HIDE DEF p, q
  <2> QED  BY <1>1, <1>2, <1>3, Multiples
<1>8. p = q => m = n
  OBVIOUS
<1>9. a + FirstMonday = t
  BY <1>1
<1> HIDE DEF m, n, p, q, a
<1> QED
  BY <1>1, <1>2, <1>3, <1>4, <1>5, <1>6, <1>7, <1>8, <1>9

(* A second later a charge is still covered: within the week ran grows     *)
(* with the allocation, and a charge of last week no longer counts.        *)
LEMMA WithinTicks ==
    ASSUME NEW week \in Int, NEW used \in Nat, NEW at \in Nat, NEW alloc \in {0, 1},
           NEW now \in Nat, now > FirstMonday, NEW limit \in Nat, NEW more \in {0, 1},
           alloc = 1 => more = 1,
           Within(week, used, at, alloc, now, limit)
    PROVE  Within(week, used, at, alloc, now + 1,
                  IF WeekStart(now + 1) = now + 1 THEN 0 ELSE limit + more)
<1>1. FirstMonday \in Nat
  BY MeterConstants
<1>2. WeekStart(now) \in Int /\ WeekStart(now) <= now
  BY WeekBounds
<1>3. WeekStart(now + 1) = now + 1 \/ WeekStart(now + 1) = WeekStart(now)
  BY WeekTurns
<1>4. CASE WeekStart(now + 1) = now + 1
  BY <1>1, <1>2, <1>4 DEF Within
<1>5. CASE WeekStart(now + 1) # now + 1
  <2>1. WeekStart(now + 1) = WeekStart(now)
    BY <1>3, <1>5
  <2> QED
    BY <1>1, <1>2, <1>5, <2>1 DEF Within
<1> QED
  BY <1>4, <1>5

(* projected_weekly_usage never exceeds what ran, also when the last       *)
(* metering was before the week began.                                     *)
LEMMA ProjectedCovered ==
    ASSUME NEW st \in StatusSet, NEW now \in Nat, now > FirstMonday, NEW limit \in Nat,
           StatusCovered(st, now, limit)
    PROVE  /\ Projected(st, now) \in UsageSet
           /\ Projected(st, now).week = WeekStart(now)
           /\ Projected(st, now).at = now
           /\ Projected(st, now).used <= limit
<1> DEFINE week == WeekStart(now)
           previous == st.metered /\ st.usage.week = week
           last == IF previous THEN Bigger(st.usage.at, week) ELSE now
           since == IF last > now THEN now ELSE last
           used == (IF previous THEN st.usage.used ELSE 0) + (now - since) * st.alloc
<1>1. week \in Int /\ week <= now
  BY WeekBounds
<1>2. /\ st.metered \in BOOLEAN /\ st.alloc \in {0, 1}
      /\ st.usage.week \in Int /\ st.usage.used \in Nat /\ st.usage.at \in Nat
  BY DEF StatusSet, UsageSet
<1>3. used \in Nat /\ used <= limit
  <2>1. CASE previous
    <3>1. /\ st.usage.at <= now
          /\ st.usage.used + (IF st.alloc = 1 THEN now - st.usage.at ELSE 0) <= limit
      BY <2>1 DEF StatusCovered, Covered, Within
    <3>2. since \in Int /\ since >= st.usage.at /\ since <= now
      BY <2>1, <3>1, <1>1, <1>2 DEF Bigger
    <3>3. used = st.usage.used + (now - since) * st.alloc
      BY <2>1
    <3> HIDE DEF since, used
    <3>4. CASE st.alloc = 0
      BY <3>1, <3>2, <3>3, <3>4, <1>2
    <3>5. CASE st.alloc = 1
      <4>1. used = st.usage.used + (now - since)
        BY <3>2, <3>3, <3>5
      <4> QED  BY <4>1, <3>1, <3>2, <3>5, <1>2
    <3> QED  BY <3>4, <3>5, <1>2
  <2>2. CASE ~previous
    <3>1. used = (now - now) * st.alloc + 0
      BY <2>2, <1>2
    <3> HIDE DEF used
    <3> QED  BY <3>1, <1>2
  <2> QED  BY <2>1, <2>2
<1>4. Projected(st, now) = [week |-> week, used |-> used, at |-> now]
  BY Zenon DEF Projected
<1> HIDE DEF used, week
<1> QED
  BY <1>1, <1>3, <1>4 DEF UsageSet, week

(* Merging with the record keeps the week and the time and takes the       *)
(* larger of the two charges.                                              *)
LEMMA MergedIsMore ==
    ASSUME NEW usage \in UsageSet, NEW rec \in RecordSet
    PROVE  /\ Merged(usage, rec) \in UsageSet
           /\ Merged(usage, rec).week = usage.week
           /\ Merged(usage, rec).at = usage.at
           /\ Merged(usage, rec).used =
                IF rec.kept /\ rec.usage.week = usage.week
                     /\ rec.usage.used > usage.used
                  THEN rec.usage.used ELSE usage.used
  BY DEF Merged, Bigger, UsageSet, RecordSet
-----------------------------------------------------------------------------
(* The empty usage, status, record and round are what their names say.     *)
LEMMA Constants ==
    /\ NoUsage \in UsageSet
    /\ NewStatus \in StatusSet /\ NewStatus.metered = FALSE /\ NewStatus.alloc = 0
    /\ NoRecord \in RecordSet /\ NoRecord.kept = FALSE
    /\ NoRound \in RoundSet /\ NoRound.pc = "idle" /\ NoRound.fresh = FALSE
<1>1. NoUsage \in UsageSet
  BY MeterConstants DEF NoUsage, UsageSet
<1>2. NewStatus \in StatusSet /\ NewStatus.metered = FALSE /\ NewStatus.alloc = 0
  BY <1>1 DEF NewStatus, StatusSet
<1>3. NoRecord \in RecordSet /\ NoRecord.kept = FALSE
  BY <1>1 DEF NoRecord, RecordSet
<1>4. NoRound \in RoundSet /\ NoRound.pc = "idle" /\ NoRound.fresh = FALSE
  BY <1>1, <1>2 DEF NoRound, RoundSet, Steps
<1> QED
  BY <1>1, <1>2, <1>3, <1>4

(* Replacing one round leaves the others.                                  *)
LEMMA RoundPut ==
    ASSUME NEW base \in [Replicas -> [Services -> RoundSet]],
           NEW c \in Replicas, NEW s \in Services, NEW r \in RoundSet, NEW f,
           f = [base EXCEPT ![c][s] = r]
    PROVE  /\ f \in [Replicas -> [Services -> RoundSet]]
           /\ \A d \in Replicas, t \in Services :
                 f[d][t] = IF d = c /\ t = s THEN r ELSE base[d][t]
OBVIOUS

(* A step of one round that changes nothing it is compared with.           *)
LEMMA RoundMoves ==
    ASSUME MeterInv, NEW c \in Replicas, NEW s \in Services, NEW r \in RoundSet,
           round' = [round EXCEPT ![c][s] = r],
           UNCHANGED <<clock, live, pods, status, record, ran>>,
           desired' \in [Services -> {0, 1}],
           r.fresh => s \in live,
           RoundCovered(r, record[s], clock, ran[s])
    PROVE  MeterInv'
<1>1. /\ round' \in [Replicas -> [Services -> RoundSet]]
      /\ \A d \in Replicas, t \in Services :
            round'[d][t] = IF d = c /\ t = s THEN r ELSE round[d][t]
  BY DEF MeterInv, MeterTypes
<1>2. MeterTypes'
  BY <1>1 DEF MeterInv, MeterTypes
<1>3. LiveOnly'
  BY <1>1 DEF MeterInv, LiveOnly
<1>4. ServicesCovered'
  BY DEF MeterInv, ServicesCovered
<1>5. RoundsCovered'
  BY <1>1 DEF MeterInv, RoundsCovered
<1> QED
  BY <1>2, <1>3, <1>4, <1>5 DEF MeterInv

(* The copy that a round reads is as good as the status.                   *)
LEMMA ObserveKeeps ==
    ASSUME MeterInv, NEW c \in Replicas, NEW s \in Services, Observe(c, s)
    PROVE  MeterInv'
<1> DEFINE r == [NoRound EXCEPT !.pc = "project", !.seen = status[s],
                                !.alloc = pods[s], !.fresh = TRUE]
<1>1. status[s] \in StatusSet /\ pods[s] \in {0, 1}
  BY DEF MeterInv, MeterTypes
<1>2. r \in RoundSet /\ r.pc = "project" /\ r.seen = status[s]
  BY <1>1, Constants DEF RoundSet, Steps
<1>3. round' = [round EXCEPT ![c][s] = r] /\ s \in live
  BY DEF Observe
<1> HIDE DEF r
<1>4. RoundCovered(r, record[s], clock, ran[s])
  BY <1>2 DEF RoundCovered, MeterInv, ServicesCovered
<1>5. UNCHANGED <<clock, live, pods, status, record, ran>> /\ desired' \in [Services -> {0, 1}]
  BY DEF Observe, MeterInv, MeterTypes
<1> QED
  BY <1>2, <1>3, <1>4, <1>5, RoundMoves

(* A projection is made as of now, so nothing is pending beside it, and    *)
(* what the record charges already is covered as of now too.               *)
LEMMA ProjectKeeps ==
    ASSUME MeterInv, NEW c \in Replicas, NEW s \in Services, Project(c, s)
    PROVE  MeterInv'
<1> DEFINE old == round[c][s]
           seen == [NewStatus EXCEPT !.alloc = old.seen.alloc]
           usage == Projected(old.seen, clock)
           r == [old EXCEPT !.pc = "read", !.now = clock, !.usage = usage, !.seen = seen]
<1>1. old \in RoundSet /\ record[s] \in RecordSet /\ ran[s] \in Nat
  BY DEF MeterInv, MeterTypes
<1>2. old.seen \in StatusSet /\ old.alloc \in {0, 1} /\ old.seen.alloc \in {0, 1}
  BY <1>1 DEF RoundSet, StatusSet
<1>3. seen \in StatusSet
  BY <1>2, Constants DEF StatusSet
<1>4. clock \in Nat /\ clock > FirstMonday /\ old.pc = "project"
  BY DEF Project, MeterInv, MeterTypes
<1>5. StatusCovered(old.seen, clock, ran[s])
  BY <1>4 DEF MeterInv, RoundsCovered, RoundCovered
<1>6. /\ usage \in UsageSet /\ usage.week = WeekStart(clock)
      /\ usage.at = clock /\ usage.used <= ran[s]
  <2>1. /\ Projected(old.seen, clock) \in UsageSet
        /\ Projected(old.seen, clock).week = WeekStart(clock)
        /\ Projected(old.seen, clock).at = clock
        /\ Projected(old.seen, clock).used <= ran[s]
    <3> HIDE DEF old
    <3> QED  BY <1>1, <1>2, <1>4, <1>5, ProjectedCovered
  <2> QED  BY <2>1
<1>7. round' = [round EXCEPT ![c][s] = r]
  BY ZenonT(60) DEF Project
<1> HIDE DEF seen, usage
<1>8. /\ r \in RoundSet /\ r.pc = "read" /\ r.usage = usage /\ r.alloc = old.alloc
      /\ r.fresh = old.fresh
  BY <1>1, <1>3, <1>4, <1>6 DEF RoundSet, Steps
<1>9. r.fresh => s \in live
  BY <1>8 DEF MeterInv, LiveOnly
<1> HIDE DEF r, old
<1>10. usage.used \in Nat /\ usage.week \in Int /\ WeekStart(clock) \in Int
  BY <1>6 DEF UsageSet
<1>11. RoundCovered(r, record[s], clock, ran[s])
  <2>1. Covered(r.usage, r.alloc, clock, ran[s])
    BY <1>1, <1>2, <1>4, <1>6, <1>8, <1>10 DEF Covered, Within
  <2>2. record[s].kept =>
          Within(record[s].usage.week, record[s].usage.used, r.usage.at, r.alloc, clock, ran[s])
    <3>1. record[s].usage.used \in Nat
      BY <1>1 DEF RecordSet, UsageSet
    <3>2. OnTheBooks(record[s], clock, ran[s])
      BY DEF MeterInv, ServicesCovered
    <3> QED  BY <1>1, <1>2, <1>4, <1>6, <1>8, <3>1, <3>2 DEF OnTheBooks, Within
  <2> QED  BY <1>8, <2>1, <2>2 DEF RoundCovered
<1>12. UNCHANGED <<clock, live, pods, status, record, ran>> /\ desired' \in [Services -> {0, 1}]
  BY DEF Project, MeterInv, MeterTypes
<1> QED
  BY <1>7, <1>8, <1>9, <1>11, <1>12, RoundMoves

(* Having read the record, the round holds the larger of the two charges,  *)
(* both of which are covered.                                              *)
LEMMA ReadRecordKeeps ==
    ASSUME MeterInv, NEW c \in Replicas, NEW s \in Services, ReadRecord(c, s)
    PROVE  MeterInv'
<1> DEFINE old == round[c][s]
           rec == record[s]
           usage == Merged(old.usage, rec)
           r == [old EXCEPT !.pc = "write", !.usage = usage]
<1>1. old \in RoundSet /\ rec \in RecordSet /\ ran[s] \in Nat /\ clock \in Nat
  BY DEF MeterInv, MeterTypes
<1>2. old.usage \in UsageSet /\ old.alloc \in {0, 1}
  BY <1>1 DEF RoundSet
<1>3. old.pc = "read"
  BY DEF ReadRecord
<1>4. RoundCovered(old, rec, clock, ran[s]) /\ (old.fresh => s \in live)
  BY DEF MeterInv, RoundsCovered, LiveOnly
<1>5. /\ usage \in UsageSet
      /\ usage.week = old.usage.week
      /\ usage.at = old.usage.at
      /\ usage.used = IF rec.kept /\ rec.usage.week = old.usage.week
                           /\ rec.usage.used > old.usage.used
                        THEN rec.usage.used ELSE old.usage.used
  BY <1>1, <1>2, MergedIsMore
<1>6. round' = [round EXCEPT ![c][s] = r]
  BY DEF ReadRecord
<1> HIDE DEF usage
<1>7. /\ r \in RoundSet /\ r.pc = "write" /\ r.usage = usage /\ r.alloc = old.alloc
      /\ r.fresh = old.fresh
  BY <1>1, <1>5 DEF RoundSet, Steps
<1>8. /\ old.usage.used \in Nat /\ old.usage.week \in Int /\ old.usage.at \in Nat
      /\ rec.usage.used \in Nat /\ rec.usage.week \in Int
  BY <1>1, <1>2 DEF UsageSet, RecordSet
<1>9. UNCHANGED <<clock, live, pods, status, record, ran>> /\ desired' \in [Services -> {0, 1}]
  BY DEF ReadRecord, MeterInv, MeterTypes
<1> HIDE DEF r, old, rec
<1>10. /\ Covered(old.usage, old.alloc, clock, ran[s])
       /\ rec.kept => Within(rec.usage.week, rec.usage.used, old.usage.at, old.alloc,
                             clock, ran[s])
  BY <1>3, <1>4 DEF RoundCovered
<1>11. Covered(usage, old.alloc, clock, ran[s])
  BY <1>1, <1>5, <1>8, <1>10 DEF Covered, Within
<1>12. rec.kept /\ rec.usage.week = usage.week => rec.usage.used <= usage.used
  BY <1>5, <1>8
<1>13. RoundCovered(r, rec, clock, ran[s])
  BY <1>7, <1>11, <1>12 DEF RoundCovered
<1> QED
  BY <1>4, <1>6, <1>7, <1>9, <1>13, RoundMoves DEF rec

(* The record takes over a covered charge.  Here one replica is needed: no *)
(* other round has read the record that is overwritten.                    *)
LEMMA WriteRecordKeeps ==
    ASSUME OneReplica, MeterInv, NEW c \in Replicas, NEW s \in Services, WriteRecord(c, s)
    PROVE  MeterInv'
<1> DEFINE old == round[c][s]
           rec == [kept |-> TRUE, usage |-> old.usage]
           r == [old EXCEPT !.pc = "total"]
<1>1. old \in RoundSet /\ ran[s] \in Nat /\ clock \in Nat
  BY DEF MeterInv, MeterTypes
<1>2. old.usage \in UsageSet /\ old.alloc \in {0, 1}
  BY <1>1 DEF RoundSet
<1>3. old.pc = "write" /\ round' = [round EXCEPT ![c][s] = r]
  BY DEF WriteRecord
<1>4. record' = [record EXCEPT ![s] = rec]
  BY DEF WriteRecord
<1>5. RoundCovered(old, record[s], clock, ran[s]) /\ (old.fresh => s \in live)
  BY DEF MeterInv, RoundsCovered, LiveOnly
<1>6. /\ r \in RoundSet /\ r.pc = "total" /\ r.usage = old.usage /\ r.alloc = old.alloc
      /\ r.fresh = old.fresh
  BY <1>1 DEF RoundSet, Steps
<1>7. rec \in RecordSet /\ rec.usage = old.usage
  BY <1>2 DEF RecordSet
<1>8. old.usage.used \in Nat /\ old.usage.week \in Int /\ old.usage.at \in Nat
  BY <1>2 DEF UsageSet
<1>9. UNCHANGED <<clock, live, pods, desired, status, ran>>
  BY DEF WriteRecord
<1> HIDE DEF r, old, rec
<1>10. Covered(old.usage, old.alloc, clock, ran[s])
  BY <1>3, <1>5 DEF RoundCovered
<1>11. OnTheBooks(rec, clock, ran[s])
  BY <1>1, <1>2, <1>7, <1>8, <1>10 DEF OnTheBooks, Covered, Within
<1>12. RoundCovered(r, rec, clock, ran[s])
  BY <1>6, <1>10 DEF RoundCovered
<1>13. /\ round' \in [Replicas -> [Services -> RoundSet]]
       /\ \A d \in Replicas, t \in Services :
             round'[d][t] = IF t = s THEN r ELSE round[d][t]
  BY <1>3, <1>6 DEF MeterInv, MeterTypes, OneReplica
<1>14. /\ record' \in [Services -> RecordSet]
       /\ \A t \in Services : record'[t] = IF t = s THEN rec ELSE record[t]
  BY <1>4, <1>7 DEF MeterInv, MeterTypes
<1>15. MeterTypes'
  BY <1>9, <1>13, <1>14 DEF MeterInv, MeterTypes
<1>16. LiveOnly'
  BY <1>5, <1>6, <1>9, <1>13 DEF MeterInv, LiveOnly
<1>17. ServicesCovered'
  BY <1>9, <1>11, <1>14 DEF MeterInv, ServicesCovered
<1>18. RoundsCovered'
  BY <1>9, <1>12, <1>13, <1>14 DEF MeterInv, RoundsCovered
<1> QED
  BY <1>15, <1>16, <1>17, <1>18 DEF MeterInv

(* Adding up the quotas changes no charge.                                 *)
LEMMA TotalKeeps ==
    ASSUME MeterInv, NEW c \in Replicas, NEW s \in Services, Total(c, s)
    PROVE  MeterInv'
<1> DEFINE old == round[c][s]
           spent == Exhausted(s, old.now)
           r == [old EXCEPT !.pc = "scale", !.now = 0, !.exhausted = spent]
<1>1. old \in RoundSet
  BY DEF MeterInv, MeterTypes
<1>2. old.pc = "total" /\ round' = [round EXCEPT ![c][s] = r]
  BY DEF Total
<1>3. RoundCovered(old, record[s], clock, ran[s]) /\ (old.fresh => s \in live)
  BY DEF MeterInv, RoundsCovered, LiveOnly
<1>4. spent \in BOOLEAN
  BY Zenon DEF Exhausted
<1> HIDE DEF spent
<1>5. /\ r \in RoundSet /\ r.pc = "scale" /\ r.usage = old.usage /\ r.alloc = old.alloc
      /\ r.fresh = old.fresh
  BY <1>1, <1>4 DEF RoundSet, Steps
<1>6. UNCHANGED <<clock, live, pods, status, record, ran>> /\ desired' \in [Services -> {0, 1}]
  BY DEF Total, MeterInv, MeterTypes
<1> HIDE DEF r, old
<1>7. RoundCovered(r, record[s], clock, ran[s])
  BY <1>2, <1>3, <1>5 DEF RoundCovered
<1> QED
  BY <1>2, <1>3, <1>5, <1>6, <1>7, RoundMoves

(* Applying the Deployment changes no charge.                              *)
LEMMA ScaleKeeps ==
    ASSUME MeterInv, NEW c \in Replicas, NEW s \in Services, Scale(c, s)
    PROVE  MeterInv'
<1> DEFINE old == round[c][s]
           r == [old EXCEPT !.pc = "report", !.exhausted = FALSE]
<1>1. old \in RoundSet
  BY DEF MeterInv, MeterTypes
<1>2. old.pc = "scale" /\ round' = [round EXCEPT ![c][s] = r]
  BY DEF Scale
<1>3. RoundCovered(old, record[s], clock, ran[s]) /\ (old.fresh => s \in live)
  BY DEF MeterInv, RoundsCovered, LiveOnly
<1>4. /\ r \in RoundSet /\ r.pc = "report" /\ r.usage = old.usage /\ r.alloc = old.alloc
      /\ r.fresh = old.fresh
  BY <1>1 DEF RoundSet, Steps
<1>5. UNCHANGED <<clock, live, pods, status, record, ran>>
  BY DEF Scale
<1>6. desired' \in [Services -> {0, 1}]
  <2> DEFINE n == IF s \in live /\ ~round[c][s].exhausted THEN 1 ELSE 0
  <2>1. n \in {0, 1}
    OBVIOUS
  <2>2. desired' = [desired EXCEPT ![s] = n]
    BY DEF Scale
  <2> HIDE DEF n
  <2> QED  BY <2>1, <2>2 DEF MeterInv, MeterTypes
<1> HIDE DEF r, old
<1>7. RoundCovered(r, record[s], clock, ran[s])
  BY <1>2, <1>3, <1>4 DEF RoundCovered
<1> QED
  BY <1>2, <1>3, <1>4, <1>5, <1>6, <1>7, RoundMoves

(* A round ends: with a status of its own when nothing overtook it.        *)
LEMMA RoundEnds ==
    ASSUME MeterInv, NEW c \in Replicas, NEW s \in Services, NEW st \in StatusSet,
           NEW fresh \in BOOLEAN, fresh = round[c][s].fresh,
           StatusCovered(st, clock, ran[s]),
           status' = IF fresh THEN [status EXCEPT ![s] = st] ELSE status,
           NEW base, base = IF fresh THEN Outdate(s, round) ELSE round,
           round' = [base EXCEPT ![c][s] = NoRound],
           UNCHANGED <<clock, live, pods, desired, record, ran, faults>>
    PROVE  MeterInv'
<1>0. round \in [Replicas -> [Services -> RoundSet]] /\ status \in [Services -> StatusSet]
  BY DEF MeterInv, MeterTypes
<1>1. \A d \in Replicas, t \in Services :
         [round[d][t] EXCEPT !.fresh = FALSE] \in RoundSet
  <2> TAKE d \in Replicas, t \in Services
  <2>1. round[d][t] \in RoundSet
    BY <1>0
  <2> QED  BY <2>1 DEF RoundSet
<1>2. /\ Outdate(s, round) \in [Replicas -> [Services -> RoundSet]]
      /\ \A d \in Replicas, t \in Services :
            Outdate(s, round)[d][t] = IF t = s THEN [round[d][t] EXCEPT !.fresh = FALSE]
                                               ELSE round[d][t]
  BY <1>0, <1>1 DEF Outdate
<1>3. base \in [Replicas -> [Services -> RoundSet]]
  BY <1>0, <1>2
<1>5. \A d \in Replicas, t \in Services :
         /\ base[d][t] \in RoundSet
         /\ base[d][t].pc = round[d][t].pc
         /\ base[d][t].seen = round[d][t].seen
         /\ base[d][t].alloc = round[d][t].alloc
         /\ base[d][t].usage = round[d][t].usage
         /\ base[d][t].fresh => round[d][t].fresh
  <2> TAKE d \in Replicas, t \in Services
  <2>1. round[d][t] \in RoundSet /\ base[d][t] \in RoundSet
    BY <1>0, <1>3
  <2>2. \/ base[d][t] = round[d][t]
        \/ base[d][t] = [round[d][t] EXCEPT !.fresh = FALSE]
    BY <1>2
  <2> QED  BY <2>1, <2>2 DEF RoundSet
<1>6. /\ round' \in [Replicas -> [Services -> RoundSet]]
      /\ \A d \in Replicas, t \in Services :
            round'[d][t] = IF d = c /\ t = s THEN NoRound ELSE base[d][t]
  <2>1. NoRound \in RoundSet
    BY Constants
  <2> QED  BY <1>3, <2>1, RoundPut
<1>7. /\ status' \in [Services -> StatusSet]
      /\ \A t \in Services : status'[t] = IF t = s /\ fresh THEN st ELSE status[t]
  BY <1>0
<1>8. MeterTypes'
  BY <1>6, <1>7 DEF MeterInv, MeterTypes
<1>9. LiveOnly'
  BY <1>5, <1>6, <1>7, Constants DEF MeterInv, LiveOnly
<1>10. ServicesCovered'
  BY <1>7 DEF MeterInv, ServicesCovered
<1>11. RoundsCovered'
  <2> SUFFICES ASSUME NEW d \in Replicas, NEW t \in Services
               PROVE  RoundCovered(round'[d][t], record[t], clock, ran[t])
    BY DEF RoundsCovered
  <2>1. CASE d = c /\ t = s
    BY <2>1, <1>6, Constants DEF RoundCovered
  <2>2. CASE ~(d = c /\ t = s)
    <3>1. RoundCovered(round[d][t], record[t], clock, ran[t])
      BY DEF MeterInv, RoundsCovered
    <3>2. round'[d][t] = base[d][t]
      BY <2>2, <1>6
    <3>3. /\ round'[d][t].pc = round[d][t].pc /\ round'[d][t].seen = round[d][t].seen
          /\ round'[d][t].alloc = round[d][t].alloc /\ round'[d][t].usage = round[d][t].usage
      BY <3>2, <1>5
    <3> QED  BY <3>1, <3>3 DEF RoundCovered
  <2> QED  BY <2>1, <2>2
<1> QED
  BY <1>8, <1>9, <1>10, <1>11 DEF MeterInv

(* The reported usage is covered, with the allocation it is reported with. *)
LEMMA ReportKeeps ==
    ASSUME MeterInv, NEW c \in Replicas, NEW s \in Services, Report(c, s)
    PROVE  MeterInv'
<1> DEFINE r == round[c][s]
           fresh == r.fresh
           st == [usage |-> r.usage, metered |-> TRUE, alloc |-> r.alloc]
<1>1. r \in RoundSet
  BY DEF MeterInv, MeterTypes
<1>2. r.usage \in UsageSet /\ r.alloc \in {0, 1} /\ fresh \in BOOLEAN
  BY <1>1 DEF RoundSet
<1>3. st \in StatusSet /\ st.usage = r.usage /\ st.alloc = r.alloc
  BY <1>2 DEF StatusSet
<1>4. /\ r.pc = "report"
      /\ status' = IF fresh THEN [status EXCEPT ![s] = st] ELSE status
      /\ round' = [IF fresh THEN Outdate(s, round) ELSE round EXCEPT ![c][s] = NoRound]
      /\ UNCHANGED <<clock, live, pods, desired, record, ran, faults>>
  BY DEF Report
<1>5. Covered(r.usage, r.alloc, clock, ran[s])
  BY <1>4 DEF MeterInv, RoundsCovered, RoundCovered
<1> HIDE DEF st
<1>6. StatusCovered(st, clock, ran[s])
  BY <1>3, <1>5 DEF StatusCovered
<1> QED
  BY <1>2, <1>3, <1>4, <1>6, RoundEnds

(* A status without weekly usage charges nothing.                          *)
LEMMA ReportUnmeteredKeeps ==
    ASSUME MeterInv, NEW c \in Replicas, NEW s \in Services, ReportUnmetered(c, s)
    PROVE  MeterInv'
<1> DEFINE r == round[c][s]
           fresh == r.fresh
           st == [NewStatus EXCEPT !.alloc = r.alloc]
<1>1. r \in RoundSet
  BY DEF MeterInv, MeterTypes
<1>2. r.alloc \in {0, 1} /\ fresh \in BOOLEAN
  BY <1>1 DEF RoundSet
<1>3. st \in StatusSet /\ st.metered = FALSE
  BY <1>2, Constants DEF StatusSet
<1>4. /\ status' = IF fresh THEN [status EXCEPT ![s] = st] ELSE status
      /\ round' = [IF fresh THEN Outdate(s, round) ELSE round EXCEPT ![c][s] = NoRound]
      /\ UNCHANGED <<clock, live, pods, desired, record, ran, faults>>
  BY DEF ReportUnmetered
<1> HIDE DEF st
<1>5. StatusCovered(st, clock, ran[s])
  BY <1>3 DEF StatusCovered
<1> QED
  BY <1>2, <1>3, <1>4, <1>5, RoundEnds

(* A restart forgets the rounds in progress and nothing else.              *)
LEMMA CrashKeeps ==
    ASSUME MeterInv, NEW c \in Replicas, Crash(c)
    PROVE  MeterInv'
<1> DEFINE none == [s \in Services |-> NoRound]
<1>1. none \in [Services -> RoundSet] /\ round' = [round EXCEPT ![c] = none]
  BY Constants DEF Crash
<1>2. \A s \in Services : none[s] = NoRound
  OBVIOUS
<1>3. UNCHANGED <<clock, live, pods, desired, status, record, ran>>
  BY DEF Crash
<1> HIDE DEF none
<1>4. /\ round' \in [Replicas -> [Services -> RoundSet]]
      /\ \A d \in Replicas, t \in Services :
            round'[d][t] = IF d = c THEN NoRound ELSE round[d][t]
  BY <1>1, <1>2 DEF MeterInv, MeterTypes
<1>5. MeterTypes'
  BY <1>3, <1>4 DEF MeterInv, MeterTypes
<1>6. LiveOnly'
  BY <1>3, <1>4, Constants DEF MeterInv, LiveOnly
<1>7. ServicesCovered'
  BY <1>3 DEF MeterInv, ServicesCovered
<1>8. RoundsCovered'
  <2>1. \A s \in Services : RoundCovered(NoRound, record[s], clock, ran[s])
    BY Constants DEF RoundCovered
  <2> QED  BY <1>3, <1>4, <2>1 DEF MeterInv, RoundsCovered
<1> QED
  BY <1>5, <1>6, <1>7, <1>8 DEF MeterInv

(* The number of Pods enters a charge only through a later round.          *)
LEMMA SettleKeeps ==
    ASSUME MeterInv, NEW s \in Services, Settle(s)
    PROVE  MeterInv'
<1>1. UNCHANGED <<clock, live, desired, status, record, round, ran>>
  BY DEF Settle
<1>2. pods' \in [Services -> {0, 1}]
  BY DEF Settle, MeterInv, MeterTypes
<1>3. MeterTypes'
  BY <1>1, <1>2 DEF MeterInv, MeterTypes
<1>4. LiveOnly' /\ ServicesCovered' /\ RoundsCovered'
  BY <1>1 DEF MeterInv, LiveOnly, ServicesCovered, RoundsCovered
<1> QED
  BY <1>3, <1>4 DEF MeterInv

(* A service created again starts with the status of a new one.            *)
LEMMA InstallKeeps ==
    ASSUME MeterInv, NEW s \in Services, Install(s)
    PROVE  MeterInv'
<1>1. UNCHANGED <<clock, pods, desired, status, record, round, ran>> /\ live' = live \cup {s}
  BY DEF Install
<1>2. MeterTypes'
  BY <1>1 DEF MeterInv, MeterTypes
<1>3. LiveOnly'
  BY <1>1 DEF MeterInv, LiveOnly
<1>4. ServicesCovered' /\ RoundsCovered'
  BY <1>1 DEF MeterInv, ServicesCovered, RoundsCovered
<1> QED
  BY <1>2, <1>3, <1>4 DEF MeterInv

(* A deletion takes the status, outdates the rounds and keeps the record.  *)
LEMMA RemoveKeeps ==
    ASSUME MeterInv, NEW s \in Services, Remove(s)
    PROVE  MeterInv'
<1>0. /\ round \in [Replicas -> [Services -> RoundSet]]
      /\ status \in [Services -> StatusSet]
      /\ pods \in [Services -> {0, 1}] /\ desired \in [Services -> {0, 1}]
  BY DEF MeterInv, MeterTypes
<1>1. \A d \in Replicas, t \in Services :
         /\ [round[d][t] EXCEPT !.fresh = FALSE] \in RoundSet
         /\ [round[d][t] EXCEPT !.fresh = FALSE].fresh = FALSE
         /\ [round[d][t] EXCEPT !.fresh = FALSE].pc = round[d][t].pc
         /\ [round[d][t] EXCEPT !.fresh = FALSE].seen = round[d][t].seen
         /\ [round[d][t] EXCEPT !.fresh = FALSE].alloc = round[d][t].alloc
         /\ [round[d][t] EXCEPT !.fresh = FALSE].usage = round[d][t].usage
  <2> TAKE d \in Replicas, t \in Services
  <2>1. round[d][t] \in RoundSet
    BY <1>0
  <2> QED  BY <2>1 DEF RoundSet
<1>2. /\ Outdate(s, round) \in [Replicas -> [Services -> RoundSet]]
      /\ \A d \in Replicas, t \in Services :
            Outdate(s, round)[d][t] = IF t = s THEN [round[d][t] EXCEPT !.fresh = FALSE]
                                               ELSE round[d][t]
  BY <1>0, <1>1 DEF Outdate
<1>3. round' = Outdate(s, round)
  BY DEF Remove
<1>4. /\ status' \in [Services -> StatusSet]
      /\ \A t \in Services : status'[t] = IF t = s THEN NewStatus ELSE status[t]
  BY <1>0, Constants DEF Remove
<1>5. pods' \in [Services -> {0, 1}] /\ desired' \in [Services -> {0, 1}]
  BY <1>0 DEF Remove
<1>6. UNCHANGED <<clock, record, ran>> /\ live' = live \ {s}
  BY DEF Remove
<1>7. \A d \in Replicas, t \in Services :
         /\ round'[d][t].pc = round[d][t].pc
         /\ round'[d][t].seen = round[d][t].seen
         /\ round'[d][t].alloc = round[d][t].alloc
         /\ round'[d][t].usage = round[d][t].usage
         /\ round'[d][t].fresh => round[d][t].fresh /\ t # s
  <2> TAKE d \in Replicas, t \in Services
  <2> DEFINE r == [round[d][t] EXCEPT !.fresh = FALSE]
  <2>1. /\ r.fresh = FALSE /\ r.pc = round[d][t].pc /\ r.seen = round[d][t].seen
        /\ r.alloc = round[d][t].alloc /\ r.usage = round[d][t].usage
    BY <1>1
  <2>2. round'[d][t] = IF t = s THEN r ELSE round[d][t]
    BY <1>2, <1>3
  <2> HIDE DEF r
  <2> QED  BY <2>1, <2>2
<1>8. round' \in [Replicas -> [Services -> RoundSet]]
  BY <1>2, <1>3
<1>9. MeterTypes'
  BY <1>4, <1>5, <1>6, <1>8 DEF MeterInv, MeterTypes
<1>10. LiveOnly'
  BY <1>4, <1>6, <1>7 DEF MeterInv, LiveOnly
<1>11. ServicesCovered'
  <2>1. StatusCovered(NewStatus, clock, ran[s])
    BY Constants DEF StatusCovered
  <2> QED  BY <1>4, <1>6, <2>1 DEF MeterInv, ServicesCovered
<1>12. RoundsCovered'
  BY <1>6, <1>7 DEF MeterInv, RoundsCovered, RoundCovered
<1> QED
  BY <1>9, <1>10, <1>11, <1>12 DEF MeterInv

(* A second passes.                                                        *)
LEMMA TickKeeps ==
    ASSUME MeterInv, Tick
    PROVE  MeterInv'
<1> DEFINE more(s) == IF OnRecord(s) THEN 1 ELSE 0
<1>0. /\ clock \in Nat /\ clock > FirstMonday /\ FirstMonday \in Nat
      /\ \A s \in Services : ran[s] \in Nat /\ status[s] \in StatusSet /\ record[s] \in RecordSet
      /\ \A c \in Replicas, s \in Services : round[c][s] \in RoundSet
  BY MeterConstants DEF MeterInv, MeterTypes
<1>1. \A s \in Services : more(s) \in {0, 1}
  OBVIOUS
<1>2. /\ clock' = clock + 1
      /\ ran' = [s \in Services |-> IF WeekStart(clock + 1) = clock + 1 THEN 0
                                                       ELSE ran[s] + more(s)]
      /\ UNCHANGED <<live, pods, desired, status, record, round>>
  BY DEF Tick
<1>3. \A s \in Services : status[s].metered /\ status[s].alloc = 1 => more(s) = 1
  <2> SUFFICES ASSUME NEW s \in Services, status[s].metered, status[s].alloc = 1
               PROVE  more(s) = 1
    OBVIOUS
  <2>1. s \in live
    BY Constants DEF MeterInv, LiveOnly
  <2> QED  BY <2>1 DEF OnRecord
<1>4. \A c \in Replicas, s \in Services :
         /\ round[c][s].pc = "project" /\ round[c][s].seen.alloc = 1 => more(s) = 1
         /\ round[c][s].pc \notin {"idle", "project"} /\ round[c][s].alloc = 1 => more(s) = 1
  BY DEF OnRecord
<1> HIDE DEF more
<1>5. \A s \in Services :
         ran'[s] = IF WeekStart(clock + 1) = clock + 1 THEN 0 ELSE ran[s] + more(s)
  BY <1>2
<1>6. ASSUME NEW s \in Services, NEW week \in Int, NEW used \in Nat, NEW at \in Nat,
             NEW a \in {0, 1}, a = 1 => more(s) = 1,
             Within(week, used, at, a, clock, ran[s])
      PROVE  Within(week, used, at, a, clock', ran'[s])
  <2>1. ran[s] \in Nat /\ more(s) \in {0, 1} /\ clock \in Nat /\ clock > FirstMonday
    BY <1>0, <1>1
  <2>2. Within(week, used, at, a, clock + 1,
               IF WeekStart(clock + 1) = clock + 1 THEN 0 ELSE ran[s] + more(s))
    BY <1>6, <2>1, WithinTicks
  <2> QED  BY <1>2, <1>5, <2>2, Zenon
<1>7. ASSUME NEW s \in Services, NEW u \in UsageSet, NEW a \in {0, 1},
              a = 1 => more(s) = 1, Covered(u, a, clock, ran[s])
       PROVE  Covered(u, a, clock', ran'[s])
  <2>1. u.week \in Int /\ u.used \in Nat /\ u.at \in Nat
    BY DEF UsageSet
  <2>2. Within(u.week, u.used, u.at, a, clock, ran[s]) /\ u.at <= clock
    BY <1>7 DEF Covered
  <2>3. Within(u.week, u.used, u.at, a, clock', ran'[s])
    BY <1>6, <1>7, <2>1, <2>2
  <2> QED  BY <1>0, <1>2, <2>1, <2>2, <2>3 DEF Covered
<1>8. MeterTypes'
  <2>1. ran' \in [Services -> Nat]
    BY <1>0, <1>1, <1>2
  <2>2. clock' \in Nat /\ clock' > FirstMonday
    BY <1>0, <1>2
  <2> QED  BY <1>2, <2>1, <2>2 DEF MeterInv, MeterTypes
<1>9. LiveOnly'
  BY <1>2 DEF MeterInv, LiveOnly
<1>10. ServicesCovered'
  <2> SUFFICES ASSUME NEW s \in Services
               PROVE  /\ StatusCovered(status[s], clock', ran'[s])
                      /\ OnTheBooks(record[s], clock', ran'[s])
    BY <1>2 DEF ServicesCovered
  <2>1. StatusCovered(status[s], clock, ran[s]) /\ OnTheBooks(record[s], clock, ran[s])
    BY DEF MeterInv, ServicesCovered
  <2>2. status[s].usage \in UsageSet /\ status[s].alloc \in {0, 1}
    BY <1>0 DEF StatusSet
  <2>3. StatusCovered(status[s], clock', ran'[s])
    BY <1>3, <1>7, <2>1, <2>2 DEF StatusCovered
  <2>4. OnTheBooks(record[s], clock', ran'[s])
    <3> SUFFICES ASSUME record[s].kept
                 PROVE  Within(record[s].usage.week, record[s].usage.used,
                               clock', 0, clock', ran'[s])
      BY DEF OnTheBooks
    <3>1. record[s].usage.week \in Int /\ record[s].usage.used \in Nat
      BY <1>0 DEF RecordSet, UsageSet
    <3>2. Within(record[s].usage.week, record[s].usage.used, clock, 0, clock, ran[s])
      BY <2>1 DEF OnTheBooks
    <3>3. Within(record[s].usage.week, record[s].usage.used, clock, 0, clock', ran'[s])
      BY <1>0, <1>6, <3>1, <3>2
    <3> QED  BY <3>3 DEF Within
  <2> QED  BY <2>3, <2>4
<1>11. RoundsCovered'
  <2> SUFFICES ASSUME NEW c \in Replicas, NEW s \in Services
               PROVE  RoundCovered(round[c][s], record[s], clock', ran'[s])
    BY <1>2 DEF RoundsCovered
  <2> DEFINE r == round[c][s]
             rec == record[s]
  <2>0. r \in RoundSet /\ rec \in RecordSet
    BY <1>0
  <2>1. RoundCovered(r, rec, clock, ran[s])
    BY DEF MeterInv, RoundsCovered
  <2>2. /\ r.seen \in StatusSet /\ r.usage \in UsageSet /\ r.alloc \in {0, 1}
        /\ r.seen.usage \in UsageSet /\ r.seen.alloc \in {0, 1} /\ r.usage.at \in Nat
        /\ rec.usage.week \in Int /\ rec.usage.used \in Nat
    BY <2>0 DEF RoundSet, StatusSet, RecordSet, UsageSet
  <2>3. r.pc = "project" => StatusCovered(r.seen, clock', ran'[s])
    BY <1>4, <1>7, <2>1, <2>2 DEF RoundCovered, StatusCovered
  <2>4. r.pc \notin {"idle", "project"} => Covered(r.usage, r.alloc, clock', ran'[s])
    BY <1>4, <1>7, <2>1, <2>2 DEF RoundCovered
  <2>5. r.pc = "read" /\ rec.kept =>
          Within(rec.usage.week, rec.usage.used, r.usage.at, r.alloc, clock', ran'[s])
    <3> SUFFICES ASSUME r.pc = "read", rec.kept
                 PROVE  Within(rec.usage.week, rec.usage.used, r.usage.at, r.alloc,
                               clock', ran'[s])
      OBVIOUS
    <3>1. Within(rec.usage.week, rec.usage.used, r.usage.at, r.alloc, clock, ran[s])
      BY <2>1 DEF RoundCovered
    <3>2. r.alloc = 1 => more(s) = 1
      BY <1>4
    <3>3. /\ rec.usage.week \in Int /\ rec.usage.used \in Nat /\ r.usage.at \in Nat
          /\ r.alloc \in {0, 1}
      BY <2>2
    <3> HIDE DEF r, rec
    <3> QED  BY <1>6, <3>1, <3>2, <3>3
  <2> HIDE DEF r, rec
  <2>6. RoundCovered(r, rec, clock', ran'[s])
    BY <2>1, <2>3, <2>4, <2>5 DEF RoundCovered
  <2> QED  BY <2>6 DEF r, rec
<1> QED
  BY <1>8, <1>9, <1>10, <1>11 DEF MeterInv
-----------------------------------------------------------------------------
(* Services metered before the records existed start with what they ran.   *)
LEMMA InitCovered ==
    ASSUME Init
    PROVE  MeterInv
<1> DEFINE old == [usage |-> [week |-> FirstMonday, used |-> 1, at |-> FirstMonday + 1],
                   metered |-> TRUE, alloc |-> 1]
<1>0. FirstMonday \in Nat /\ clock = FirstMonday + 1
  BY MeterConstants DEF Init
<1>1. /\ old \in StatusSet /\ old.usage.week = FirstMonday /\ old.usage.used = 1
      /\ old.usage.at = FirstMonday + 1 /\ old.alloc = 1
  BY <1>0 DEF StatusSet, UsageSet
<1>2. /\ status = [s \in Services |-> IF s \in Legacy THEN old ELSE NewStatus]
      /\ ran = [s \in Services |-> IF s \in Legacy THEN 1 ELSE 0]
      /\ record = [s \in Services |-> NoRecord]
      /\ round = [c \in Replicas |-> [s \in Services |-> NoRound]]
      /\ live = Services
      /\ pods = [s \in Services |-> 1]
      /\ desired = [s \in Services |-> 1]
  BY DEF Init
<1> HIDE DEF old
<1>3. MeterTypes
  <2>1. status \in [Services -> StatusSet]
    BY <1>1, <1>2, Constants
  <2>2. record \in [Services -> RecordSet] /\ round \in [Replicas -> [Services -> RoundSet]]
    BY <1>2, Constants
  <2>3. pods \in [Services -> {0, 1}] /\ desired \in [Services -> {0, 1}]
        /\ ran \in [Services -> Nat]
    BY <1>2
  <2> QED  BY <1>0, <2>1, <2>2, <2>3 DEF MeterTypes
<1>4. LiveOnly
  BY <1>2, Constants DEF LiveOnly
<1>5. ServicesCovered
  <2> SUFFICES ASSUME NEW s \in Services
               PROVE  /\ StatusCovered(status[s], clock, ran[s])
                      /\ OnTheBooks(record[s], clock, ran[s])
    BY DEF ServicesCovered
  <2>1. OnTheBooks(record[s], clock, ran[s])
    BY <1>2, Constants DEF OnTheBooks
  <2>2. CASE s \notin Legacy
    BY <1>2, <2>1, <2>2, Constants DEF StatusCovered
  <2>3. CASE s \in Legacy
    <3>1. status[s] = old /\ ran[s] = 1
      BY <1>2, <2>3
    <3>2. WeekStart(clock) \in Int /\ FirstMonday <= WeekStart(clock)
      BY <1>0, WeekBounds
    <3>3. Covered(old.usage, old.alloc, clock, 1)
      BY <1>0, <1>1, <3>2 DEF Covered, Within
    <3> QED  BY <2>1, <3>1, <3>3 DEF StatusCovered
  <2> QED  BY <2>2, <2>3
<1>6. RoundsCovered
  BY <1>2, Constants DEF RoundsCovered, RoundCovered
<1> QED
  BY <1>3, <1>4, <1>5, <1>6 DEF MeterInv

(* Every step of one replica keeps the invariant.                          *)
LEMMA StepKeeps ==
    ASSUME OneReplica, MeterInv, [Next]_mvars
    PROVE  MeterInv'
<1>1. ASSUME NEW c \in Replicas, NEW s \in Services,
             Observe(c, s) \/ Step(c, s) \/ ReportUnmetered(c, s)
      PROVE  MeterInv'
  BY <1>1, ObserveKeeps, ProjectKeeps, ReadRecordKeeps, WriteRecordKeeps, TotalKeeps,
     ScaleKeeps, ReportKeeps, ReportUnmeteredKeeps DEF Step
<1>2. ASSUME NEW c \in Replicas, Crash(c)
      PROVE  MeterInv'
  BY <1>2, CrashKeeps
<1>3. ASSUME NEW s \in Services, Settle(s) \/ Remove(s) \/ Install(s)
      PROVE  MeterInv'
  BY <1>3, SettleKeeps, RemoveKeeps, InstallKeeps
<1>4. CASE UNCHANGED mvars
  BY <1>4 DEF mvars, MeterInv, MeterTypes, LiveOnly, ServicesCovered, RoundsCovered
<1> QED
  BY <1>1, <1>2, <1>3, <1>4, TickKeeps DEF Next

(* The charges on record, in every status and in every round in progress   *)
(* are covered by the seconds that ran, with the seconds that their        *)
(* allocation will add.                                                    *)
THEOREM MeterInvariance ==
    ASSUME OneReplica
    PROVE  MSpec => []MeterInv
<1>1. Init => MeterInv
  BY InitCovered
<1>2. MeterInv /\ [Next]_mvars => MeterInv'
  BY StepKeeps
<1> QED
  BY <1>1, <1>2, PTL DEF MSpec

(* A service is charged at most once for each second of the week that its  *)
(* status shows an allocation, for every number of services, length of a   *)
(* week and sequence of restarts and deletions (meter_weekly_usage,        *)
(* projected_weekly_usage).                                                *)
THEOREM SecondsAreChargedOnce ==
    ASSUME OneReplica
    PROVE  MSpec => []ChargedOnce
<1>1. MeterInv => ChargedOnce
  <2> SUFFICES ASSUME MeterInv, NEW s \in Services,
                      record[s].kept, record[s].usage.week = WeekStart(clock)
               PROVE  record[s].usage.used <= ran[s]
    BY DEF ChargedOnce
  <2>1. record[s] \in RecordSet
    BY DEF MeterInv, MeterTypes
  <2>2. record[s].usage.used \in Nat
    BY <2>1 DEF RecordSet, UsageSet
  <2>3. OnTheBooks(record[s], clock, ran[s])
    BY DEF MeterInv, ServicesCovered
  <2> QED  BY <2>2, <2>3 DEF OnTheBooks, Within
<1> QED
  BY <1>1, MeterInvariance, PTL

(* The usage listing (usage_items, merge_usage) shows a service at no less *)
(* than the quota counts it for and at no more than it ran.                *)
THEOREM TheListingCoversTheQuota ==
    ASSUME OneReplica
    PROVE  MSpec => []ListingCoversQuota
<1>1. MeterInv => ListingCoversQuota
  <2> SUFFICES ASSUME MeterInv, NEW s \in Services
               PROVE  /\ Counted(s, clock) <= Listed(s, clock)
                      /\ Listed(s, clock) <= ran[s]
    BY DEF ListingCoversQuota
  <2> DEFINE rec == record[s]
             p == Projected(status[s], clock)
             m == Merged(p, rec)
  <2>1. /\ status[s] \in StatusSet /\ rec \in RecordSet /\ ran[s] \in Nat
        /\ clock \in Nat /\ clock > FirstMonday
    BY DEF MeterInv, MeterTypes
  <2>2. StatusCovered(status[s], clock, ran[s]) /\ OnTheBooks(rec, clock, ran[s])
    BY DEF MeterInv, ServicesCovered
  <2>3. p \in UsageSet /\ p.week = WeekStart(clock) /\ p.used <= ran[s]
    BY <2>1, <2>2, ProjectedCovered
  <2> HIDE DEF p
  <2>4. m.used = IF rec.kept /\ rec.usage.week = WeekStart(clock) /\ rec.usage.used > p.used
                   THEN rec.usage.used ELSE p.used
    BY <2>1, <2>3, MergedIsMore
  <2>5. p.used \in Nat /\ rec.usage.used \in Nat
    BY <2>1, <2>3 DEF RecordSet, UsageSet
  <2>6. rec.kept /\ rec.usage.week = WeekStart(clock) => rec.usage.used <= ran[s]
    BY <2>2, <2>5 DEF OnTheBooks, Within
  <2> DEFINE mused == m.used
             thisWeek == rec.kept /\ rec.usage.week = WeekStart(clock)
  <2>7. /\ Counted(s, clock) = IF thisWeek THEN rec.usage.used
                               ELSE IF s \in live THEN p.used ELSE 0
        /\ Listed(s, clock) = IF s \in live THEN mused
                              ELSE IF thisWeek THEN rec.usage.used ELSE 0
    BY DEF Counted, Listed, p
  <2>8. mused = IF thisWeek /\ rec.usage.used > p.used THEN rec.usage.used ELSE p.used
    BY <2>4
  <2> HIDE DEF m, mused
  <2> QED  BY <2>1, <2>3, <2>5, <2>6, <2>7, <2>8
<1> QED
  BY <1>1, MeterInvariance, PTL

(* No round, restart or deletion lowers the charge of a week once it is on *)
(* record.                                                                 *)
THEOREM ChargesAreNotTakenBack ==
    ASSUME OneReplica
    PROVE  MSpec => ChargesStand
<1> DEFINE Stand == \A s \in Services :
                      record[s].kept /\ record'[s].usage.week = record[s].usage.week =>
                          record'[s].usage.used >= record[s].usage.used
<1>1. MeterInv /\ [Next]_mvars => [Stand]_mvars
  <2> SUFFICES ASSUME MeterInv, Next, NEW s \in Services, record[s].kept,
                      record'[s].usage.week = record[s].usage.week
               PROVE  record'[s].usage.used >= record[s].usage.used
    OBVIOUS
  <2>1. record \in [Services -> RecordSet] /\ record[s].usage.used \in Nat
    <3>1. record \in [Services -> RecordSet] /\ record[s] \in RecordSet
      BY DEF MeterInv, MeterTypes
    <3> QED  BY <3>1 DEF RecordSet, UsageSet
  <2>2. CASE record' = record
    BY <2>1, <2>2
  <2>3. ASSUME NEW c \in Replicas, NEW t \in Services, WriteRecord(c, t)
        PROVE  record'[s].usage.used >= record[s].usage.used
    <3> DEFINE r == round[c][t]
               rec == [kept |-> TRUE, usage |-> r.usage]
    <3>1. record' = [record EXCEPT ![t] = rec] /\ r.pc = "write" /\ rec.usage = r.usage
      BY <2>3 DEF WriteRecord
    <3>2. r \in RoundSet
      BY DEF MeterInv, MeterTypes
    <3>3. r.usage.used \in Nat
      BY <3>2 DEF RoundSet, UsageSet
    <3>4. RoundCovered(r, record[t], clock, ran[t])
      BY DEF MeterInv, RoundsCovered
    <3> HIDE DEF r, rec
    <3>5. CASE t # s
      BY <2>1, <3>1, <3>5
    <3>6. CASE t = s
      <4>1. record'[s].usage = r.usage
        BY <2>1, <3>1, <3>6
      <4>2. record[s].usage.used <= r.usage.used
        BY <3>1, <3>4, <3>6, <4>1 DEF RoundCovered
      <4> QED  BY <2>1, <3>3, <4>1, <4>2
    <3> QED  BY <3>5, <3>6
  <2>4. \/ \E c \in Replicas, t \in Services : WriteRecord(c, t)
        \/ record' = record
    <3>1. ASSUME NEW c \in Replicas, NEW t \in Services,
                 Observe(c, t) \/ Step(c, t) \/ ReportUnmetered(c, t)
          PROVE  WriteRecord(c, t) \/ record' = record
      <4>1. Observe(c, t) => record' = record
        BY DEF Observe
      <4>2. Project(c, t) => record' = record
        BY DEF Project
      <4>3. ReadRecord(c, t) => record' = record
        BY DEF ReadRecord
      <4>4. Total(c, t) \/ Scale(c, t) => record' = record
        BY DEF Total, Scale
      <4>5. Report(c, t) => record' = record
        BY DEF Report
      <4>6. ReportUnmetered(c, t) => record' = record
        BY DEF ReportUnmetered
      <4> QED  BY <3>1, <4>1, <4>2, <4>3, <4>4, <4>5, <4>6 DEF Step
    <3>2. \A c \in Replicas : Crash(c) => record' = record
      BY DEF Crash
    <3>3. \A t \in Services : Settle(t) \/ Remove(t) \/ Install(t) => record' = record
      BY DEF Settle, Remove, Install
    <3>4. Tick => record' = record
      BY DEF Tick
    <3> QED  BY <3>1, <3>2, <3>3, <3>4 DEF Next
  <2> QED  BY <2>2, <2>3, <2>4
<1> QED
  BY <1>1, MeterInvariance, PTL DEF MSpec, ChargesStand
-----------------------------------------------------------------------------
(* A used up quota keeps a service down.                                   *)
(*                                                                         *)
(* A round that found the quotas open has a record below the member limit: *)
(* it wrote the record before it added the totals up, the record is of the *)
(* week it added up, and the sum is not below any of its terms.            *)

(* What a round knows of the record it wrote.                              *)
RoundSpent(r, rec) ==
    /\ r.pc \in {"read", "write", "total"} => r.usage.week = WeekStart(r.now)
    /\ r.pc = "total" => rec.kept /\ rec.usage = r.usage
    /\ r.pc = "scale" /\ ~r.exhausted => rec.usage.used < MemberLimit

(* The invariant of the rounds.                                            *)
SpentInv ==
    \A c \in Replicas, s \in Services : RoundSpent(round[c][s], record[s])

(* A projection charges a natural number of seconds, also for a clock that *)
(* is behind the last metering.                                            *)
LEMMA ProjectedNat ==
    ASSUME NEW st \in StatusSet, NEW now \in Nat
    PROVE  Projected(st, now).used \in Nat
<1> DEFINE week == WeekStart(now)
           previous == st.metered /\ st.usage.week = week
           last == IF previous THEN Bigger(st.usage.at, week) ELSE now
           since == IF last > now THEN now ELSE last
           used == (IF previous THEN st.usage.used ELSE 0) + (now - since) * st.alloc
<1>1. week \in Int
  <2>1. WeekLength \in Nat \ {0} /\ FirstMonday \in Nat /\ now - FirstMonday \in Int
    BY MeterConstants
  <2>2. ((now - FirstMonday) \div WeekLength) * WeekLength \in Int
    BY <2>1, DivBounds
  <2> QED  BY <2>1, <2>2 DEF WeekStart
<1>2. st.alloc \in {0, 1} /\ st.usage.used \in Nat /\ st.usage.at \in Nat
  BY DEF StatusSet, UsageSet
<1> HIDE DEF week
<1>3. last \in Int
  BY <1>1, <1>2 DEF Bigger
<1> HIDE DEF last, previous
<1>4. since \in Int /\ since <= now
  BY <1>3
<1> HIDE DEF since
<1>5. (now - since) * st.alloc \in Nat
  <2>1. CASE st.alloc = 0
    BY <1>4, <2>1
  <2>2. CASE st.alloc = 1
    BY <1>4, <2>2
  <2> QED  BY <1>2, <2>1, <2>2
<1>6. used \in Nat
  <2>1. (IF previous THEN st.usage.used ELSE 0) \in Nat
    BY <1>2
  <2> QED  BY <1>5, <2>1
<1>7. Projected(st, now).used = used
  BY DEF Projected, used, since, last, previous, week
<1> HIDE DEF used
<1> QED
  BY <1>6, <1>7

(* So does the quota count for every service.                              *)
LEMMA CountedNat ==
    ASSUME MeterInv, NEW now \in Nat, NEW s \in Services
    PROVE  Counted(s, now) \in Nat
<1>1. status[s] \in StatusSet /\ record[s] \in RecordSet
  BY DEF MeterInv, MeterTypes
<1>2. record[s].usage.used \in Nat
  BY <1>1 DEF RecordSet, UsageSet
<1>3. Projected(status[s], now).used \in Nat
  BY <1>1, ProjectedNat
<1> QED
  BY <1>2, <1>3 DEF Counted

(* The total of a scope is at least what any service in it is counted for. *)
LEMMA TotalCoversTerms ==
    ASSUME MeterInv, NEW now \in Nat, NEW scope \in SUBSET Services
    PROVE  /\ TotalOf(scope, now) \in Nat
           /\ \A t \in scope : Counted(t, now) <= TotalOf(scope, now)
<1> DEFINE Sums(g) == g = [s \in SUBSET scope |->
                             IF s = {} THEN 0
                             ELSE Counted(Pick(s), now) + g[s \ {Pick(s)}]]
           iter == CHOOSE g : Sums(g)
           F == [p \in scope \X Nat |-> Counted(p[1], now) + p[2]]
<1>1. IsFiniteSet(scope)
  BY MeterConstants, FS_Subset
<1>2. \A t \in scope : Counted(t, now) \in Nat
  BY CountedNat
<1>3. F \in [scope \X Nat -> Nat]
  BY <1>2
<1>4. PICK g \in [SUBSET scope -> Nat] : \A s \in SUBSET scope :
         g[s] = IF s = {} THEN 0 ELSE F[<<Pick(s), g[s \ {Pick(s)}]>>]
  <2> HIDE DEF F
  <2>1. HasFold(scope, Nat, 0, F)
    BY <1>1, <1>3, FoldExists
  <2> QED  BY <2>1, Zenon DEF HasFold
<1>5. Sums(g)
  <2>1. ASSUME NEW s \in SUBSET scope, s # {}
        PROVE  g[s] = Counted(Pick(s), now) + g[s \ {Pick(s)}]
    <3>1. Pick(s) \in scope /\ s \ {Pick(s)} \in SUBSET scope
      BY <2>1, PickIn
    <3>2. g[s] = F[<<Pick(s), g[s \ {Pick(s)}]>>]
      BY <1>4, <2>1, Zenon
    <3> QED  BY <3>1, <3>2
  <2>2. g[{}] = 0
    <3>1. {} \in SUBSET scope
      OBVIOUS
    <3> QED  BY <1>4, <3>1, Zenon
  <2> QED  BY <2>1, <2>2
<1>6. Sums(iter)
  <2>1. \E h : Sums(h)
    BY <1>5
  <2> HIDE DEF Sums
  <2> QED  BY <2>1, Zenon
<1>7. TotalOf(scope, now) = iter[scope]
  BY Zenon DEF TotalOf, MapThenSumSet, MapThenFoldSet, Pick
<1> HIDE DEF iter
<1>8. /\ iter[{}] = 0
      /\ \A s \in SUBSET scope : s # {} =>
            iter[s] = Counted(Pick(s), now) + iter[s \ {Pick(s)}]
  <2>1. {} \in SUBSET scope
    OBVIOUS
  <2> QED  BY <1>6, <2>1, Zenon
<1> HIDE DEF Sums
<1> DEFINE Fine(s) == iter[s] \in Nat /\ \A t \in s : Counted(t, now) <= iter[s]
           Bad == {s \in SUBSET scope : ~Fine(s)}
<1>9. ASSUME Bad # {} PROVE FALSE
  <2>1. PICK m \in Bad : \A y \in Bad : y \subseteq m => y = m
    <3>1. Bad \in SUBSET (SUBSET scope)
      OBVIOUS
    <3> HIDE DEF Bad
    <3> QED  BY <1>1, <1>9, <3>1, LeastSubset
  <2>2. m # {}
    BY <1>8
  <2> DEFINE x == Pick(m)
             rest == m \ {x}
  <2>3. x \in m /\ x \in scope
    BY <2>2, PickIn
  <2>4. rest \in SUBSET scope /\ rest # m /\ rest \subseteq m
    BY <2>3
  <2>5. Fine(rest)
    BY <2>1, <2>4
  <2>6. iter[m] = Counted(x, now) + iter[rest]
    BY <1>8, <2>2
  <2>7. Counted(x, now) \in Nat
    BY <1>2, <2>3
  <2> HIDE DEF x
  <2>8. iter[m] \in Nat /\ iter[rest] <= iter[m] /\ Counted(x, now) <= iter[m]
    BY <2>5, <2>6, <2>7
  <2>9. ASSUME NEW t \in m PROVE Counted(t, now) <= iter[m]
    <3>1. CASE t = x
      BY <2>8, <3>1
    <3>2. CASE t # x
      <4>1. Counted(t, now) <= iter[rest] /\ Counted(t, now) \in Nat
        BY <1>2, <2>5, <3>2
      <4>2. iter[rest] \in Nat
        BY <2>5
      <4> QED  BY <2>8, <4>1, <4>2
    <3> QED  BY <3>1, <3>2
  <2> QED  BY <2>8, <2>9
<1>10. Fine(scope)
  BY <1>9
<1> QED
  BY <1>7, <1>10

(* The quotas are open only to a service whose record of the week that is  *)
(* added up is below the member limit.                                     *)
LEMMA OpenMeansUnspent ==
    ASSUME MeterInv, NEW now \in Nat, NEW s \in Services, ~Exhausted(s, now),
           record[s].kept, record[s].usage.week = WeekStart(now)
    PROVE  record[s].usage.used < MemberLimit
<1>1. Member(s) \in SUBSET Services /\ s \in Member(s)
  BY DEF Member, Account
<1>2. TotalOf(Member(s), now) \in Nat /\ Counted(s, now) <= TotalOf(Member(s), now)
  BY <1>1, TotalCoversTerms
<1>3. ~(TotalOf(Member(s), now) >= MemberLimit)
  BY DEF Exhausted
<1>4. Counted(s, now) = record[s].usage.used
  BY DEF Counted
<1>5. Counted(s, now) \in Nat /\ MemberLimit \in Nat
  BY CountedNat, MeterConstants
<1> QED
  BY <1>2, <1>3, <1>4, <1>5

(* Rounds that differ at most in being outdated know the same.             *)
Alike(r, q) ==
    /\ r.pc = q.pc /\ r.usage = q.usage
    /\ r.now = q.now /\ r.exhausted = q.exhausted

(* A step that writes no record and moves no round but to its end.         *)
LEMMA SpentStays ==
    ASSUME SpentInv, record' = record,
           \A c \in Replicas, s \in Services :
              round'[c][s].pc = "idle" \/ Alike(round'[c][s], round[c][s])
    PROVE  SpentInv'
<1> SUFFICES ASSUME NEW c \in Replicas, NEW s \in Services
             PROVE  RoundSpent(round'[c][s], record[s])
  BY DEF SpentInv
<1>1. RoundSpent(round[c][s], record[s])
  BY DEF SpentInv
<1> QED
  BY <1>1 DEF RoundSpent, Alike

(* A step of one round.                                                    *)
LEMMA SpentMoves ==
    ASSUME OneReplica, MeterInv, SpentInv, NEW c \in Replicas, NEW s \in Services,
           NEW r \in RoundSet, round' = [round EXCEPT ![c][s] = r],
           \A t \in Services : t # s => record'[t] = record[t],
           RoundSpent(r, record'[s])
    PROVE  SpentInv'
<1> SUFFICES ASSUME NEW d \in Replicas, NEW t \in Services
             PROVE  RoundSpent(round'[d][t], record'[t])
  BY DEF SpentInv
<1>1. round \in [Replicas -> [Services -> RoundSet]]
  BY DEF MeterInv, MeterTypes
<1>2. round'[d][t] = IF d = c /\ t = s THEN r ELSE round[d][t]
  BY <1>1, RoundPut
<1>3. d = c
  BY DEF OneReplica
<1>4. RoundSpent(round[d][t], record[t])
  BY DEF SpentInv
<1> QED
  BY <1>2, <1>3, <1>4

(* Outdating the rounds of a service leaves what they know.                *)
LEMMA OutdateAlike ==
    ASSUME NEW r \in [Replicas -> [Services -> RoundSet]], NEW s \in Services
    PROVE  /\ Outdate(s, r) \in [Replicas -> [Services -> RoundSet]]
           /\ \A d \in Replicas, t \in Services : Alike(Outdate(s, r)[d][t], r[d][t])
<1>1. ASSUME NEW d \in Replicas, NEW t \in Services
      PROVE  /\ [r[d][t] EXCEPT !.fresh = FALSE] \in RoundSet
             /\ Alike([r[d][t] EXCEPT !.fresh = FALSE], r[d][t])
  <2>1. r[d][t] \in RoundSet
    OBVIOUS
  <2> QED  BY <2>1 DEF RoundSet, Alike
<1>2. /\ Outdate(s, r) \in [Replicas -> [Services -> RoundSet]]
      /\ \A d \in Replicas, t \in Services :
            Outdate(s, r)[d][t] = IF t = s THEN [r[d][t] EXCEPT !.fresh = FALSE] ELSE r[d][t]
  BY <1>1 DEF Outdate
<1>3. \A d \in Replicas, t \in Services : Alike(r[d][t], r[d][t])
  BY DEF Alike
<1>4. ASSUME NEW d \in Replicas, NEW t \in Services
      PROVE  Alike(Outdate(s, r)[d][t], r[d][t])
  <2>1. CASE t = s
    <3>1. Outdate(s, r)[d][t] = [r[d][t] EXCEPT !.fresh = FALSE]
      BY <1>2, <2>1, Zenon
    <3> QED  BY <1>1, <3>1, Zenon
  <2>2. CASE t # s
    <3>1. Outdate(s, r)[d][t] = r[d][t]
      BY <1>2, <2>2, Zenon
    <3> QED  BY <1>3, <3>1, Zenon
  <2> QED  BY <2>1, <2>2
<1> QED
  BY <1>2, <1>4

(* A round ends.                                                           *)
LEMMA SpentEnds ==
    ASSUME MeterInv, SpentInv, NEW c \in Replicas, NEW s \in Services, record' = record,
           NEW fresh \in BOOLEAN,
           round' = [IF fresh THEN Outdate(s, round) ELSE round EXCEPT ![c][s] = NoRound]
    PROVE  SpentInv'
<1> DEFINE base == IF fresh THEN Outdate(s, round) ELSE round
<1>1. round \in [Replicas -> [Services -> RoundSet]]
  BY DEF MeterInv, MeterTypes
<1>2. /\ base \in [Replicas -> [Services -> RoundSet]]
      /\ \A d \in Replicas, t \in Services : Alike(base[d][t], round[d][t])
  <2>1. \A d \in Replicas, t \in Services : Alike(round[d][t], round[d][t])
    BY DEF Alike
  <2> QED  BY <1>1, <2>1, OutdateAlike
<1>3. NoRound \in RoundSet /\ NoRound.pc = "idle"
  BY Constants
<1>4. round' = [base EXCEPT ![c][s] = NoRound]
  OBVIOUS
<1> HIDE DEF base
<1>5. \A d \in Replicas, t \in Services :
         round'[d][t] = IF d = c /\ t = s THEN NoRound ELSE base[d][t]
  BY <1>2, <1>3, <1>4, RoundPut
<1>6. \A d \in Replicas, t \in Services :
         round'[d][t].pc = "idle" \/ Alike(round'[d][t], round[d][t])
  BY <1>2, <1>3, <1>5
<1> QED
  BY <1>6, SpentStays

(* The steps of a round: the projection is of the week it is made in, the  *)
(* record keeps that week, and the totals are those of that week.          *)
LEMMA SpentStep ==
    ASSUME OneReplica, MeterInv, SpentInv, NEW c \in Replicas, NEW s \in Services,
           Observe(c, s) \/ Step(c, s) \/ ReportUnmetered(c, s)
    PROVE  SpentInv'
<1> DEFINE old == round[c][s]
<1>0. /\ old \in RoundSet /\ record \in [Services -> RecordSet] /\ record[s] \in RecordSet
      /\ clock \in Nat /\ clock > FirstMonday
  BY DEF MeterInv, MeterTypes
<1>1. RoundSpent(old, record[s])
  BY DEF SpentInv
<1>2. CASE Observe(c, s)
  <2> DEFINE r == [NoRound EXCEPT !.pc = "project", !.seen = status[s],
                                  !.alloc = pods[s], !.fresh = TRUE]
  <2>1. status[s] \in StatusSet /\ pods[s] \in {0, 1}
    BY DEF MeterInv, MeterTypes
  <2>2. r \in RoundSet /\ r.pc = "project"
    BY <2>1, Constants DEF RoundSet, Steps
  <2>3. round' = [round EXCEPT ![c][s] = r] /\ record' = record
    BY <1>2 DEF Observe
  <2> HIDE DEF r
  <2>4. RoundSpent(r, record'[s])
    BY <2>2 DEF RoundSpent
  <2> QED  BY <2>2, <2>3, <2>4, SpentMoves
<1>3. CASE Project(c, s)
  <2> DEFINE seen == [NewStatus EXCEPT !.alloc = old.seen.alloc]
             usage == Projected(old.seen, clock)
             r == [old EXCEPT !.pc = "read", !.now = clock, !.usage = usage, !.seen = seen]
  <2>1. old.seen \in StatusSet /\ old.pc = "project"
    BY <1>0, <1>3 DEF RoundSet, Project
  <2>2. seen \in StatusSet
    BY <2>1, Constants DEF StatusSet
  <2>3. StatusCovered(old.seen, clock, ran[s]) /\ ran[s] \in Nat
    BY <2>1 DEF MeterInv, RoundsCovered, RoundCovered, MeterTypes
  <2>4. usage \in UsageSet /\ usage.week = WeekStart(clock)
    <3> HIDE DEF old
    <3> QED  BY <1>0, <2>1, <2>3, ProjectedCovered
  <2>5. round' = [round EXCEPT ![c][s] = r] /\ record' = record
    <3>1. round' = [round EXCEPT ![c][s] = r]
      BY <1>3, ZenonT(60) DEF Project
    <3> QED  BY <1>3, <3>1 DEF Project
  <2> HIDE DEF seen, usage
  <2>6. r \in RoundSet /\ r.pc = "read" /\ r.usage = usage /\ r.now = clock
    BY <1>0, <2>2, <2>4 DEF RoundSet, Steps
  <2> HIDE DEF r
  <2>7. RoundSpent(r, record'[s])
    BY <2>4, <2>6 DEF RoundSpent
  <2> QED  BY <2>5, <2>6, <2>7, SpentMoves
<1>4. CASE ReadRecord(c, s)
  <2> DEFINE usage == Merged(old.usage, record[s])
             r == [old EXCEPT !.pc = "write", !.usage = usage]
  <2>1. old.usage \in UsageSet /\ old.pc = "read"
    BY <1>0, <1>4 DEF RoundSet, ReadRecord
  <2>2. usage \in UsageSet /\ usage.week = old.usage.week
    BY <1>0, <2>1, MergedIsMore
  <2>3. round' = [round EXCEPT ![c][s] = r] /\ record' = record
    BY <1>4 DEF ReadRecord
  <2> HIDE DEF usage
  <2>4. r \in RoundSet /\ r.pc = "write" /\ r.usage = usage /\ r.now = old.now
    BY <1>0, <2>2 DEF RoundSet, Steps
  <2> HIDE DEF r, old
  <2>5. RoundSpent(r, record'[s])
    BY <1>1, <2>1, <2>2, <2>4 DEF RoundSpent
  <2> QED  BY <2>3, <2>4, <2>5, SpentMoves
<1>5. CASE WriteRecord(c, s)
  <2> DEFINE r == [old EXCEPT !.pc = "total"]
             rec == [kept |-> TRUE, usage |-> old.usage]
  <2>1. old.pc = "write" /\ round' = [round EXCEPT ![c][s] = r]
        /\ record' = [record EXCEPT ![s] = rec]
    BY <1>5 DEF WriteRecord
  <2>2. r \in RoundSet /\ r.pc = "total" /\ r.usage = old.usage /\ r.now = old.now
    BY <1>0 DEF RoundSet, Steps
  <2>3. rec.kept /\ rec.usage = old.usage
    OBVIOUS
  <2> HIDE DEF r, rec, old
  <2>4. record'[s] = rec /\ \A t \in Services : t # s => record'[t] = record[t]
    BY <1>0, <2>1
  <2>5. RoundSpent(r, record'[s])
    BY <1>1, <2>1, <2>2, <2>3, <2>4 DEF RoundSpent
  <2> QED  BY <2>1, <2>2, <2>4, <2>5, SpentMoves
<1>6. CASE Total(c, s)
  <2> DEFINE spent == Exhausted(s, old.now)
             r == [old EXCEPT !.pc = "scale", !.now = 0, !.exhausted = spent]
  <2>1. old.pc = "total" /\ round' = [round EXCEPT ![c][s] = r] /\ record' = record
    BY <1>6 DEF Total
  <2>2. spent \in BOOLEAN
    BY Zenon DEF Exhausted
  <2>3. old.now \in Nat
    BY <1>0 DEF RoundSet
  <2>4. record[s].kept /\ record[s].usage.week = WeekStart(old.now)
    <3> HIDE DEF old
    <3> QED  BY <1>1, <2>1 DEF RoundSpent
  <2>5. ~spent => record[s].usage.used < MemberLimit
    <3> HIDE DEF old
    <3> QED  BY <2>3, <2>4, OpenMeansUnspent
  <2> HIDE DEF spent
  <2>6. r \in RoundSet /\ r.pc = "scale" /\ r.exhausted = spent
    BY <1>0, <2>2 DEF RoundSet, Steps
  <2> HIDE DEF r, old
  <2>7. RoundSpent(r, record'[s])
    BY <2>1, <2>5, <2>6 DEF RoundSpent
  <2> QED  BY <2>1, <2>6, <2>7, SpentMoves
<1>7. CASE Scale(c, s)
  <2> DEFINE r == [old EXCEPT !.pc = "report", !.exhausted = FALSE]
  <2>1. round' = [round EXCEPT ![c][s] = r] /\ record' = record
    BY <1>7 DEF Scale
  <2>2. r \in RoundSet /\ r.pc = "report"
    BY <1>0 DEF RoundSet, Steps
  <2> HIDE DEF r, old
  <2>3. RoundSpent(r, record'[s])
    BY <2>2 DEF RoundSpent
  <2> QED  BY <2>1, <2>2, <2>3, SpentMoves
<1>8. CASE Report(c, s)
  <2>1. /\ record' = record /\ old.fresh \in BOOLEAN
        /\ round' = [IF old.fresh THEN Outdate(s, round) ELSE round EXCEPT ![c][s] = NoRound]
    BY <1>0, <1>8 DEF Report, RoundSet
  <2> QED  BY <2>1, SpentEnds
<1>9. CASE ReportUnmetered(c, s)
  <2>1. /\ record' = record /\ old.fresh \in BOOLEAN
        /\ round' = [IF old.fresh THEN Outdate(s, round) ELSE round EXCEPT ![c][s] = NoRound]
    BY <1>0, <1>9 DEF ReportUnmetered, RoundSet
  <2> QED  BY <2>1, SpentEnds
<1> QED
  BY <1>2, <1>3, <1>4, <1>5, <1>6, <1>7, <1>8, <1>9 DEF Step

(* Every step keeps what rounds know: a restart forgets them, a deletion   *)
(* leaves the record.                                                      *)
LEMMA SpentNext ==
    ASSUME OneReplica, MeterInv, SpentInv, [Next]_mvars
    PROVE  SpentInv'
<1>0. \A c \in Replicas, s \in Services : Alike(round[c][s], round[c][s])
  BY DEF Alike
<1>1. ASSUME NEW c \in Replicas, Crash(c) PROVE SpentInv'
  <2> DEFINE none == [s \in Services |-> NoRound]
  <2>1. round' = [round EXCEPT ![c] = none] /\ record' = record
    BY <1>1 DEF Crash
  <2>2. \A s \in Services : none[s].pc = "idle"
    BY Constants
  <2> HIDE DEF none
  <2>3. \A d \in Replicas : round'[d] = none \/ round'[d] = round[d]
    BY <2>1 DEF MeterInv, MeterTypes
  <2> QED  BY <1>0, <2>1, <2>2, <2>3, SpentStays
<1>2. ASSUME NEW s \in Services, Remove(s) PROVE SpentInv'
  <2>1. round' = Outdate(s, round) /\ record' = record
    BY <1>2 DEF Remove
  <2>2. round \in [Replicas -> [Services -> RoundSet]]
    BY DEF MeterInv, MeterTypes
  <2> QED  BY <2>1, <2>2, OutdateAlike, SpentStays
<1>3. ASSUME UNCHANGED <<round, record>> PROVE SpentInv'
  BY <1>0, <1>3, SpentStays
<1>4. ASSUME NEW s \in Services, Settle(s) \/ Install(s) PROVE UNCHANGED <<round, record>>
  BY <1>4 DEF Settle, Install
<1>5. Tick => UNCHANGED <<round, record>>
  BY DEF Tick
<1>6. UNCHANGED mvars => UNCHANGED <<round, record>>
  BY DEF mvars
<1> QED
  BY <1>1, <1>2, <1>3, <1>4, <1>5, <1>6, SpentStep DEF Next

(* At the start no round is under way.                                     *)
LEMMA SpentInit ==
    ASSUME Init
    PROVE  SpentInv
<1> SUFFICES ASSUME NEW c \in Replicas, NEW s \in Services
             PROVE  RoundSpent(round[c][s], record[s])
  BY DEF SpentInv
<1>1. round[c][s] = NoRound
  BY DEF Init
<1> QED
  BY <1>1, Constants DEF RoundSpent

(* A service that has used up its member quota is not started again in     *)
(* that week, for every number of services and members, every limit and    *)
(* every sequence of restarts, lost statuses, deletions and creations      *)
(* (weekly_totals and the scaling that follows it).                        *)
THEOREM SpentServicesStayDown ==
    ASSUME OneReplica
    PROVE  MSpec => SpentStaysDown
<1> DEFINE Down == \A s \in Services :
                      /\ desired'[s] > desired[s]
                      /\ record[s].kept
                      /\ record[s].usage.week = WeekStart(clock)
                      => record[s].usage.used < MemberLimit
<1>1. MeterInv /\ SpentInv /\ [Next]_mvars => [Down]_mvars
  <2> SUFFICES ASSUME MeterInv, SpentInv, Next, NEW s \in Services, desired'[s] > desired[s]
               PROVE  record[s].usage.used < MemberLimit
    OBVIOUS
  <2>0. desired \in [Services -> {0, 1}] /\ desired[s] \in {0, 1}
    BY DEF MeterInv, MeterTypes
  <2>1. desired' # desired
    BY <2>0
  <2>2. ASSUME NEW t \in Services, Remove(t) PROVE FALSE
    <3>1. desired'[s] = IF s = t THEN 0 ELSE desired[s]
      BY <2>0, <2>2 DEF Remove
    <3> QED  BY <2>0, <3>1
  <2>3. \E c \in Replicas, t \in Services : Scale(c, t)
    <3>1. ASSUME NEW c \in Replicas, NEW t \in Services,
                 Observe(c, t) \/ Step(c, t) \/ ReportUnmetered(c, t)
          PROVE  Scale(c, t)
      <4>1. ~Observe(c, t)
        BY <2>1 DEF Observe
      <4>2. ~Project(c, t)
        BY <2>1 DEF Project
      <4>3. ~ReadRecord(c, t) /\ ~WriteRecord(c, t)
        BY <2>1 DEF ReadRecord, WriteRecord
      <4>4. ~Total(c, t)
        BY <2>1 DEF Total
      <4>5. ~Report(c, t) /\ ~ReportUnmetered(c, t)
        BY <2>1 DEF Report, ReportUnmetered
      <4> QED  BY <3>1, <4>1, <4>2, <4>3, <4>4, <4>5 DEF Step
    <3>2. \A c \in Replicas : ~Crash(c)
      BY <2>1 DEF Crash
    <3>3. \A t \in Services : ~Settle(t) /\ ~Install(t)
      BY <2>1 DEF Settle, Install
    <3>4. ~Tick
      BY <2>1 DEF Tick
    <3> QED  BY <2>2, <3>1, <3>2, <3>3, <3>4 DEF Next
  <2>4. PICK c \in Replicas, t \in Services : Scale(c, t)
    BY <2>3
  <2> DEFINE n == IF t \in live /\ ~round[c][t].exhausted THEN 1 ELSE 0
  <2>5. desired' = [desired EXCEPT ![t] = n] /\ round[c][t].pc = "scale"
    BY <2>4 DEF Scale
  <2>6. t = s /\ n # 0
    <3>1. n \in {0, 1}
      OBVIOUS
    <3> HIDE DEF n
    <3> QED  BY <2>0, <2>5, <3>1
  <2>7. RoundSpent(round[c][s], record[s]) /\ ~round[c][s].exhausted
    BY <2>6 DEF SpentInv
  <2> QED  BY <2>5, <2>6, <2>7 DEF RoundSpent
<1>2. Init => SpentInv
  BY SpentInit
<1>3. MeterInv /\ SpentInv /\ [Next]_mvars => SpentInv'
  BY SpentNext
<1>4. MSpec => [](MeterInv /\ SpentInv)
  BY <1>2, <1>3, MeterInvariance, PTL DEF MSpec
<1> QED
  BY <1>1, <1>4, PTL DEF MSpec, SpentStaysDown
=============================================================================
