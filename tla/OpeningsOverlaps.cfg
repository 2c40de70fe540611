SPECIFICATION Spec
CONSTANTS
    Applicants = {a}
    MaxPositions = 1
    MaxEvents = 3
    Workers = {w1, w2}
    NoRow = NoRow
SYMMETRY MCSymmetry
INVARIANTS
    
    BoardMatchesOpening

    
CHECK_DEADLOCK FALSE
