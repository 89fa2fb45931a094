CONSTANTS
    Slots = {one, two}
    Rooms = {"r1", "r2"}
    Posters = {one, two}
    Wallets = {"w1"}
    AdminCalls = {one, two}
    Callers = {one, two}
    Passes = {"p1", "p2"}
    MaxKeys = 2
    Peers = {"x", "y"}
    Checks = {one, two}
    Limit = 2
    Window = 2
    Threshold = 1
    MaxClock = 4
    Dialogs = {"d1", "d2"}
    ShoutOf = {"d1"}
    Jobs = {one, two}
    MaxActive = 1
    MaxTx = 2
    MaxOdd = 2
    Tabs = {one, two}
    MsgIds = {1}
    MaxWrites = 3
    MaxMints = 2
    PageRows = 2
SPECIFICATION BackendsSpec
CHECK_DEADLOCK FALSE
SYMMETRY Alike
INVARIANTS   SignInsSound BurstBounded PaymentsBalance  SiteServed 
