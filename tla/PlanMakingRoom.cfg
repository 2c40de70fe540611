SPECIFICATION Spec
CONSTANTS
    Milestones = {m, n}
    MaxPosition = 3
    Workers = {w1}
    NoRow = NoRow
INVARIANT
    MakingRoomIsNeverRefused
CHECK_DEADLOCK FALSE
