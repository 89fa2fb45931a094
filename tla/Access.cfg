CONSTANTS
    alice = alice
    bob = bob
    carol = carol
    Users = {alice, bob, carol}
    Creator = alice
    ServerAdmins = {}
    Requests = {"r1", "r2"}
    Ops <- RaceOps
    Links = {k1}
    MaxUses = 1
    MaxAdmins = 2
    MaxEpoch = 3
    MayFail = TRUE
    Accounts = {bob, carol}
    Flights = {bob, carol}
    MaxReloads = 1
    AfterLate = FALSE
    Calls = {bob, carol}
    Before = 1
    MaxEntries = 2
    MaxEntryIds = 3
    MaxSecrets = 3
    MaxAsked = 2
    MaxOdd = 1
SPECIFICATION ScenesSpec
CHECK_DEADLOCK FALSE
SYMMETRY Alike
INVARIANTS LinkBudget DeadRoomIsEmpty OutsidersStayOut SomebodyInCharge   VaultSound
PROPERTIES EpochMovesWhole RemovedHoldNoWrap
