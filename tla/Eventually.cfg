SPECIFICATION EventuallySpec
CHECK_DEADLOCK FALSE
INVARIANTS HeadIsCurrent
PROPERTIES PresenceSettles 
