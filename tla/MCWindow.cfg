SPECIFICATION PartsSpec
CONSTANTS
    a = a
    b = b
    NoCall = NoCall
    LinkPage = {a, b}
    MaxRevision = 3
    MaxClicks = 1
    MaxFaults = 1
    MaxUnmounts = 2
    Position <- Places
    PageOf <- Pages
    Near <- WithinTolerance
    Limit = 3
    Epochs = {1, 2}
    MaxHeld = 2
    Requests <- ThreeRequests
    MaxCloses = 1
    MaximumTabs = 2
    NormalLimit = 1
    OwnershipLimit = 1
    Conditions <- MostConditions
SYMMETRY Perms
CHECK_DEADLOCK FALSE
CONSTRAINT FewAtOnce
INVARIANTS
    LiveMayCommit
    DisplayIsConsistent
    TransactionIsSound
    CallsAreOrdered
    RegistryAgrees
    TabsAreOwned
    CalmKeepsOneActive
    SettledIsClean
PROPERTIES
    ChangesAreDecided
    AdoptedIsKept
