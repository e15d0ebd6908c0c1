\* Two handlers, two users, state posts and messages; a post of a makes two calls.
SPECIFICATION FairSpec
CONSTANTS
  Handlers = {h1, h2}
  a = a
  b = b
  c = c
  Users = {a, b}
  States = {"ONLINE", "OFFLINE"}
  Texts = {"hi"}
  Friends <- FriendsOf2
  Notifier = Notifier
  NoOne = NoOne
  NoPost = NoPost
  Empty = Empty
  Garbled = Garbled
  Torn = {Garbled}
INVARIANTS TypeOK NoLostWakeup LatestDelivered UndisturbedExact
PROPERTIES OutboxSpec Settles
\* A write to nobody ends the server.
CHECK_DEADLOCK FALSE
