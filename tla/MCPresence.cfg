SPECIFICATION Spec
CONSTANTS
    Users = {alice, bob}
    Sockets = {s1, s2, s3}
    MaxRunning = 2
SYMMETRY Symmetry
INVARIANTS
    TypeOK
    OnlineIsTrue
    NewsIsRight
