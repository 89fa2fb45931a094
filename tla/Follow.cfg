CONSTANTS
    Publishers = {"p1", "p2"}
    MaxEvents = 3
    Capacity = 1
    MaxReplay = 1
    MaxDrops = 2
    Users = {"u1"}
    Admins = {"u1"}
    Tasks = {"t1"}
    Ops = {"remove", "purge"}
    Sealings = {FALSE}
    Clock = {1, 2}
    MaxIds = 3
    MaxSerial = 3
    Viewer = "u1"
    Blocked = {}
    Jobs = {"j1", "j2"}
    Moves = {"older", "resync", "reload", "fail", "echo", "quota"}
    SyncLimit = 1
    HistoryLimit = 1
    MaxRows = 2
    MaxSlips = 1
SPECIFICATION FollowSpec
CHECK_DEADLOCK FALSE
INVARIANTS NothingSkipped HeadIsCurrent
  
