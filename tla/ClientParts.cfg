CONSTANTS
    Sends = {"c1", "c2"}
    Shares = {1, 2, 3}
    Quorum = 2
    Rounds = 2
    MaxUser = 3
    MaxNet = 2
    SlowFailure = FALSE
    Turns = {"t1", "t2"}
    MaxRounds = 2
    MaxViews = 2
SPECIFICATION ClientSpec
CHECK_DEADLOCK FALSE
INVARIANTS NobodyForgotten UserInControl
PROPERTIES CeremonyEnds LadderRests TurnsEnd
