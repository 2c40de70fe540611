SPECIFICATION Spec
CONSTANTS
    Milestones = {m, n}
    MaxPosition = 2
    Workers = {w1, w2}
    NoRow = NoRow
SYMMETRY MCSymmetry
INVARIANTS
    EditedOnlyWhileEditable
    ApprovedIsKept
    CompletionInStep
    NothingWaitsOnItself
CHECK_DEADLOCK FALSE
