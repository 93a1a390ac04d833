SPECIFICATION LSpec
CONSTANTS
  w1 = w1
  w2 = w2
  r1 = r1
  r2 = r2
  Workers = {w1, w2}
  Requests = {}
  Commands <- Scaled
  Replicas = 2
  MaxReplicas = 2
  MaxGen = 2
  MaxFaults = 0
  MaxScalings = 1
INVARIANT FreshViewIsCurrent
PROPERTIES StatusOfCurrentSpec HandoffKeepsCount
