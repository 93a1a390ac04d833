\* Routes, secrets and domains of a changing service, and every small list of networks.
SPECIFICATION XFairSpec
CHECK_DEADLOCK FALSE
CONSTANTS
    Address <- BothFamilies
    Networks <- AllNetworks
    FamilyRoots <- Whole
    Roots <- Public
    Protected <- Reserved
    Extra <- Operator
    Nowhere <- Unroutable
    Dns = {}
    SecretManager <- Operator
    Guard = {}
    MaxEffective = 4
    Halves <- HalvesOf
    Aggregate <- AggregateOf
    Aliases = {"alias"}
    Forwarders <- Hosts
    MaxGen = 2
    Starts <- AllStarts
    Later <- Updates
INVARIANTS  AccessAsAsked
PROPERTIES RouteLeavesFirst 
