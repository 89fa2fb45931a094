CONSTANTS
    alice = alice
    bob = bob
    Users = {alice, bob}
    Creator = alice
    ServerAdmins = {}
    Requests = {r1, r2}
    Ops = {"invite", "accept", "kick", "rotate"}
    Links = {k1}
    MaxUses = 1
    MaxAdmins = 2
    MaxEpoch = 2
    MayFail = FALSE
SPECIFICATION Spec
PROPERTIES RotationHasNoStrays
