SPECIFICATION Spec
CONSTANTS
    Users = {o, a}
    Owner = o
    Readers = {a}
    PageSize = 1
    MaxSends = 2
    Workers = {w1, w2}
    NoRow = NoRow
SYMMETRY MCSymmetry
INVARIANTS
    ThreadFollowsTeam
    NothingSkipped
    BellMeansUnread
