---------------------------- MODULE WeeklyMeterMC ----------------------------
(* Instances of WeeklyMeter: two accounts of one cloud organization.       *)
EXTENDS WeeklyMeter

CONSTANTS s1, s2

OneEach == [s \in Services |-> IF s = s1 THEN "a" ELSE "b"]
SameUser == [s \in Services |-> "u"]
=============================================================================
