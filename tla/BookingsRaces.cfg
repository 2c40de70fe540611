SPECIFICATION Spec
CONSTANTS
    Users = {u, v}
    Approvers = {u}
    Students = {v}
    BookingIds = {b1, b2}
    Horizon = 2
    MaxHours = 2
    MinLead = 0
    Workers = {w1, w2}
    NoRow = NoRow
SYMMETRY MCSymmetry
PROPERTIES
    ImplementsCalendar
