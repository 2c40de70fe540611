SPECIFICATION MCSpec
CONSTANTS
    Users = {a, b}
    Contactable = {a, b}
    Requests = {q1, q2, q3}
    Workers = {w1, w2}
    NoRow = NoRow
    People = {"v", "o"}
    Departments = {"d", "e"}
    Overseen <- MCOverseen
    Other = "x"
    Clerks = {"x"}
    MaxMoves = 2
    Applicants = {a, b}
    MaxPositions = 2
    MaxEvents = 3
    Askers = {"v"}
    Queries = {{}, {"project", "publication", "o"}}
    MaxSaved = 1
    Reports = {"x"}
    Participants = {"o"}
    Reporters = {"o"}
    Moderators = {"v"}
    Staff = {"c", "k", "l"}
    Charge <- MCCharge
    Facilities = {"f", "g"}
    Equipment = {"x"}
    Bookings = {"x"}
    Managers = {"c", "k"}
    Bookers = {"l"}
    Movers = {"k"}
    Spellings <- MCSpellings
    Areas = {"d", "e", "f"}
    Suggestions = {"x"}
    Calls = {"l"}
    MaxAdded = 3
    Upgrades <- MCUpgrades
    Downgrades <- MCDowngrades
    Landmarks <- MCLandmarks
    Processes = {"i", "h"}
    Instances = {"i"}
    Goals = {0, 20}
    RowKinds <- MCKinds
    Later <- MCLater
    Noted <- MCNoted
    MaxRows = 2
    MaxRuns = 2
SYMMETRY MCSymmetry
INVARIANTS
    HouseTypeOK
    StateMatchesRequests
    PlacesAreKept
    
    OfferedCanBeDone
    WordsAreReviewed
    ModerationStands
    
    
    ReadyIsCurrent
PROPERTIES
    ImplementsRelationship
CHECK_DEADLOCK FALSE
