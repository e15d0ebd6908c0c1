\* Two terminals, two processes, two users who are friends, two ports.
CONSTANTS
    Clients = {c1, c2}
    a = a
    b = b
    Users = {a, b}
    Friends <- Mutual
    Ports = {p1, p2}
    None = None
    Typed = {"register", "nobody", "none", "state", "quit", "message"}
    MaxStarts = 2
SPECIFICATION Spec
ACTION_CONSTRAINT OneKill
SYMMETRY Renaming
CHECK_DEADLOCK FALSE
INVARIANTS
    TypeOK
    Lockstep
    DeathCauses
    SessionsOwned
    RightReader
    LeakBound
