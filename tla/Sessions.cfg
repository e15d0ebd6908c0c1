\* Two users who register, on two clients: three logins,
\* failing statements and a restart of the server.
SPECIFICATION Spec
CONSTANTS
  Clients = {c1, c2}
  a = a
  b = b
  Users = {a, b}
  Persisted = {}
  States = {"ONLINE", "OFFLINE"}
  None = None
  Fallible = TRUE
  MaxTime = 2
  MaxLogins = 3
  MaxRestarts = 1
SYMMETRY Renaming
INVARIANTS TypeOK Consistent Reachable
PROPERTIES HistoryKept
