SPECIFICATION Spec
CONSTANTS
    Records = {p, q}
    Followed = {p}
    LastYear = 2
    Dockets <- ThreeNumbers
    MaxVersion = 1
    Workers = {w1, w2}
    NoRow = NoRow
SYMMETRY MCSymmetry
INVARIANTS
    RecordsAreTrue
PROPERTY
    DocketGivenOnce
