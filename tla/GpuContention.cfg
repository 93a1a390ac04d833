SPECIFICATION Spec
CONSTANTS
  r1 = r1
  r2 = r2
  orgA = orgA
  orgB = orgB
  alice = alice
  bob = bob
  typeX = typeX
  typeY = typeY
  AnyType = AnyType
  Replicas = {r1}
  Maintainers = {}
  Jobs = {1, 2}
  Devices = {1}
  Orgs = {orgA, orgB}
  Subjects = {alice, bob}
  OwnerOf <- OneOwnerEach
  TypeOf <- OneType
  Requests = {typeX}
  AccessSets = {{bob}}
  Lease = 2
  RenewAt = 1
  MaxClock = 3
  MaxEvents = 1
INVARIANT TypeOK
INVARIANT LeaseBounded
PROPERTIES AllocationSound ActiveReservationKept PublishedRequestStands
CHECK_DEADLOCK FALSE
