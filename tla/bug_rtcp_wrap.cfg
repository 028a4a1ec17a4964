SPECIFICATION Spec
CONSTANTS
    Parts = {"rtcp"}
    SeqSpace = 8
    Starts = {6}
    Packets = 4
    Window = 3
    Fractions = {0}
    MaxReports = 2
    Keys <- SomeKeys
    Total = 2
    MaxFrames = 2
    MaxLost = 2
    JitterLen = 2
    MaxPcm = 12
    MaxFar = 4
    RateChanges = 1
    DayLen = 3
    RuleSets <- SomeRules
    Files = {"history", "preferences"}
    KeepLen = 3
    RotateLen = 2
    RotatedLen = 1
    MaxEntries = 5
    MaxCrashes = 2
    Peers = {"p1", "p2"}
    Allowed = {"p1"}
    RateLimit = 2
    Minute = 3
    MaxNow = 8
    MaxRequests = 6
    Grants = {3, 4, 6}
    MinExpires = 6
    Asked = 3
    MaxFaults = 3
    Users = {u1}
    Holding = {u1}
    Groupings = {g1, g2}
    Dialling = {g1}
    Nobody = Nobody
    Owners = {"o1", "o2"}
    Callers = {"c1", "c2"}
    MaxCalls = 2
    MaxOwn = 1
INVARIANTS
    LossTrue
CHECK_DEADLOCK FALSE
