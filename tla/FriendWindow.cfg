\* Two rows over up to three friends, two states, notices at any moment.
CONSTANTS
    Height = 2
    MaxFriends = 3
    States = {s1, s2}
    Unset = Unset
SPECIFICATION Spec
INVARIANTS
    IndexSafe
    RowsCurrent
PROPERTIES
    PagerSpec
