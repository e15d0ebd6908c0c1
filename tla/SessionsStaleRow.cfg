\* One user on two clients, database and server never fail.
SPECIFICATION Spec
CONSTANTS
  Clients = {c1, c2}
  a = a
  b = b
  Users = {a}
  Persisted = {a}
  States = {"ONLINE", "OFFLINE", "BUSY"}
  None = None
  Fallible = FALSE
  MaxTime = 2
  MaxLogins = 2
  MaxRestarts = 0
PROPERTIES QuitClearsDatabase
