CONSTANTS
    Accounts = {"a"}
    Flights = {"f1", "f2"}
    MaxReloads = 1
    AfterLate = TRUE
SPECIFICATION SiSpec
CHECK_DEADLOCK FALSE
INVARIANT SignOutSticks
