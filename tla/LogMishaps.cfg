CONSTANTS
    a1 = a1
    a2 = a2
    Appenders <- TwoAppenders
    MaxDay = 2
    MaxRecords = 5
    SyncEvery = 2
    MaxReplay = 3
    MaxMishaps = 2
SPECIFICATION Spec
INVARIANTS  ReplayHasNoGap 
PROPERTY ImplementsSeqLog
SYMMETRY Alike
