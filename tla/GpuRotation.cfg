SPECIFICATION RSpec
CONSTANTS
  orgA = orgA
  orgB = orgB
  orgC = orgC
  alice = alice
  bob = bob
  carol = carol
  typeX = typeX
  AnyType = AnyType
  Jobs = {1, 2, 3, 4}
  Devices = {1, 2}
  Orgs = {orgA, orgB, orgC}
  Subjects = {alice, bob, carol}
  OwnerOf <- Owners
  TypeOf <- OneType
  MaxTime = 2
INVARIANT OneMove
 
