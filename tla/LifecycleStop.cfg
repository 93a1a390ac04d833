SPECIFICATION LFairSpec
CONSTANTS
  w1 = w1
  w2 = w2
  r1 = r1
  r2 = r2
  Workers = {w1}
  Requests = {r1}
  Commands <- Sleepy
  Replicas = 1
  MaxReplicas = 1
  MaxGen = 2
  MaxFaults = 1
  MaxScalings = 1
PROPERTIES   StopHolds ColdStartCompletes
