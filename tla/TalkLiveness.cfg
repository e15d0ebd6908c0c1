\* One port: each process takes over the port, and the sessions left at it.
CONSTANTS
    Clients = {c1, c2}
    a = a
    b = b
    Users = {a, b}
    Friends <- OneWay
    Ports = {p1}
    None = None
    Typed = {"quit", "message"}
    MaxStarts = 2
SPECIFICATION FairSpec
ACTION_CONSTRAINT OneKill
CHECK_DEADLOCK FALSE
PROPERTIES
    Answered
    RoundsEnd
