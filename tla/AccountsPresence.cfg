\* The same instance: does the list show who is logged in?
CONSTANTS
    Words = {James, Bob, joy, pw, man, hi}
    Numbers <- Figures1
    Semicolon = Semicolon
    Comma = Comma
    c1 = c1
    c2 = c2
    James = James
    Bob = Bob
    joy = joy
    pw = pw
    man = man
    hi = hi
    Clients = {c1, c2}
    Port <- TwoPorts
    Ip <- Address
    Stored <- ThreeAccounts
    FriendRows <- TwoFriends
    Typed <- Names
    Chosen <- NewNames
    Passwds <- Secrets
    Texts <- Lines
    StateWords <- States
    Profile <- Person
    Garbage <- Wild
    None = None
    MaxUsers = 4
    MaxLogins = 2
SPECIFICATION FairSpec
CHECK_DEADLOCK FALSE
PROPERTIES
    ListShowsPresence
