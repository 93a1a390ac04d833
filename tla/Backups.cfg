\* Competing replicas, restores against deletions, exports, replaced disks and restarts.
SPECIFICATION Spec
CHECK_DEADLOCK FALSE
CONSTANTS
    tenant = tenant
    own = own
    d1 = d1
    c1 = c1
    c2 = c2
    Backups = {tenant, own}
    Controllers = {c1, c2}
    Enabled = {c1, c2}
    Destinations = {d1}
    Default = Default
    DestOf <- TwoTargets
    None = None
    API = API
    Scenarios <- AllScenarios
INVARIANT ReadyWhereAsked
PROPERTIES ImplementsVault ExportedStays
