SPECIFICATION Spec
CONSTANTS
    Applicants = {a}
    MaxPositions = 1
    MaxEvents = 3
    Workers = {w1}
    NoRow = NoRow
INVARIANT
    NoticeOnlyWhileOpen
CHECK_DEADLOCK FALSE
