\* One replica that may restart meters two accounts of a cloud organization over a week boundary.
SPECIFICATION MSpec
CHECK_DEADLOCK FALSE
CONSTANTS
    s1 = s1
    s2 = s2
    Services = {s1, s2}
    Replicas = {c1}
    OrgOf <- OneEach
    UserOf <- SameUser
    Legacy = {s1}
    CloudAccounts = {"a", "b"}
    OrgLimit = 3
    MemberLimit = 2
    CloudLimit = 3
    WeekLength = 3
    FirstMonday = 1
    MaxClock = 5
    MaxFaults = 1
INVARIANTS ChargedOnce ListingCoversQuota
PROPERTIES ChargesStand SpentStaysDown
