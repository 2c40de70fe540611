SPECIFICATION Spec
CONSTANTS
    Records = {p}
    Followed = {p}
    LastYear = 1
    Dockets <- OneNumber
    MaxVersion = 0
    Workers = {w1}
    NoRow = NoRow
INVARIANT
    OffersWhatItTakes
