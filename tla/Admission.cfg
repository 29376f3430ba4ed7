\* Four requests of an anonymous client and a key, clients going away at will.
SPECIFICATION FairSpec
CONSTANTS
    Requests = {r1, r2, r3, r4}
    Keys = {k1}
    Cap <- MCCap
    MaxInFlight = 3
    Disconnects = TRUE
INVARIANTS TypeOK InFlightExact WithinCap
PROPERTY InFlightDrains
