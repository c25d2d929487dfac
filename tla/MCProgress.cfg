SPECIFICATION PartsSpec
CONSTANTS
    Pages = 3
    Matches = {1, 2, 3}
    Located = {2, 3}
    MaxSearches = 5
    s1 = s1
    s2 = s2
    c1 = c1
    j1 = j1
    j2 = j2
    j3 = j3
    j4 = j4
    None = None
    Session = {s1, s2}
    Client = {c1}
    Job = {j1, j2, j3, j4}
    MaxOpens = 1
    MaxSessionQueue = 2
    MaxSessionInFlight = 2
    MaxProcessQueue = 3
    MaxProcessInFlight = 1
    p1 = p1
    p2 = p2
    Call = {p1, p2}
    Selections <- OnePageOrTwo
    Lossy = {"cancel", "check"}
    MaxFaults = 1
CHECK_DEADLOCK FALSE
CONSTRAINT SecondOnlyStarts
INVARIANTS
    SearchIsTrue
    NothingIsLeft
    ReportsAreTrue
PROPERTIES
    ProgressIsMade
