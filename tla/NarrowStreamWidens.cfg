CONSTANTS
    c1 = c1
    r1 = r1
    r2 = r2
    f1 = f1
    Conns = {c1}
    Rooms = {r1, r2}
    Refreshers = {f1}
    MaxPerWallet = 2
    MaxConnections = 2
    Narrowed = {c1}
    Restless = {}
    Races = {}
SPECIFICATION Spec
CHECK_DEADLOCK FALSE
INVARIANT StaysNarrow
