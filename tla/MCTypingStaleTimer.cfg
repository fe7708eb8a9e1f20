SPECIFICATION Spec
CONSTANTS
    alice = alice
    s1 = s1
    s2 = s2
    Users = {alice}
    Contexts = {general}
    Sockets = {s1, s2}
    SocketUser <- OneUser
    Threads = {h1, h2}
    Timers = {t1, t2, t3}
    NoTimer = NoTimer
PROPERTY OnlyOwnTimerExpires
