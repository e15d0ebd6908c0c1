\* Two handlers, three users, strings read whole: is a state only pushed to friends?
SPECIFICATION Spec
CONSTANTS
  Handlers = {h1, h2}
  a = a
  b = b
  c = c
  Users = {a, b, c}
  States = {"ONLINE", "OFFLINE"}
  Texts = {}
  Friends <- FriendsOf3
  Notifier = Notifier
  NoOne = NoOne
  NoPost = NoPost
  Empty = Empty
  Garbled = Garbled
  Torn = {}
INVARIANTS ToldAboutFriends
