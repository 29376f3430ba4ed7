\* Three admin requests, two that authenticate and the master, on one key: commands on
\* different keys touch nothing in common.  Keys run out.
SPECIFICATION Spec
CONSTANTS
    Keys = {k1}
    Tiers = {"free", "pro"}
    Clients = {c1, c2}
    Admins = {a1, a2, a3}
    Master = master
    AdminKey = k1
    None = None
    Updates <- MCUpdates
SYMMETRY SlotSymmetry
INVARIANTS TypeOK RevocationIsFinal IssuedKeysWork
PROPERTY ImplementsKeyService
CHECK_DEADLOCK FALSE
