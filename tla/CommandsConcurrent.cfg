SPECIFICATION CSpec
CONSTANTS
  org = org
  otherOrg = otherOrg
  web = web
  batch = batch
  backup = backup
  alice = alice
  bob = bob
  ceiling = ceiling
  None = None
  h1 = h1
  h2 = h2
  h3 = h3
  Handlers = {h1, h2, h3}
  Updates <- SomeUpdates
  Removals <- SomeRemovals
  MaxRequests = 5
INVARIANT FreshCommandIsLawful
PROPERTIES QuotaLandsOnItsGeneration UpdateTakesNothingBack
CHECK_DEADLOCK FALSE
