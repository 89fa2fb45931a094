CONSTANTS
    c1 = c1
    c2 = c2
    c3 = c3
    Conns = {c1, c2, c3}
    Rooms = {"r1"}
    Refreshers = {"f1"}
    MaxPerWallet = 2
    MaxConnections = 3
    Narrowed = {}
    Restless = {}
    Races = {}
    Users = {"u1"}
    Admins = {"u1"}
    Tasks = {"t1", "t2"}
    Ops = {"reply", "edit", "remove", "publish", "emoticon", "purge"}
    Sealings = {TRUE, FALSE}
    Clock = {1, 3}
    MaxIds = 3
    MaxSerial = 4
SPECIFICATION StateSpec
CHECK_DEADLOCK FALSE
SYMMETRY Alike
INVARIANTS RegistryExact
PROPERTIES SerialsClimb RowsNeverGoBack
