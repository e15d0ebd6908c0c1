\* Three clients, four starts, numbers that leave the port space and, with two
\* digits, grow from one digit to three.  Clients may all stay off.
CONSTANTS
    Clients = {c1, c2, c3}
    Base = 1
    PortSpace = 3
    MaxStarts = 4
    Radix = 2
SPECIFICATION FileSpec
INVARIANTS
    Distinct
    Restored
    ReadsBack
    SettingsKept
CHECK_DEADLOCK FALSE
