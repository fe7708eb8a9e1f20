SPECIFICATION Spec
CONSTANTS
    Users = {alice, bob}
    Clients = {alice}
    MaxMessages = 3
    MaxTime = 2
    Limit = 1
    Requests = {r1, r2}
SYMMETRY Symmetry
INVARIANTS
    TypeOK
    NoGap
    RoomsAreRight
