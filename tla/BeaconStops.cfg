CONSTANTS
    MaxUser = 2
    MaxNet = 0
    SlowFailure = FALSE
SPECIFICATION TransportSpec
CHECK_DEADLOCK FALSE
PROPERTY BeaconKept
