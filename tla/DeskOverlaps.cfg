SPECIFICATION MCSpec
CONSTANTS
    NoRow = NoRow
    Workers = {w1, w2}
    Departments = {"d"}
    Correspondents = {"s", "f"}
    Letters = {"x"}
    Files = {"x"}
    Notes = {n1, n2}
    LetterMoves = 3
    Readers = {"s", "c", "a"}
    Notices = {"x"}
    Documents = {f1}
    MaxText = 1
    Things = {"x"}
    MaxHalfDays = 2
    MaxNudges = 2
    Savers = {"x"}
    Items = {"x"}
    Stages = {}
    Suited = {}
    LEAD_DAYS = {1, 2}
    MaxDay = 1
    MaxDue = 2
    Officers = {"a", "b"}
    MAX_ATTEMPTS = 1
    Given = {"admin", "research_coordinator"}
    AccountMoves = 2
    Callers = {"a", "s"}
    Followed = {"s"}
    Tokens = {"t", "u", "v"}
    Addresses = {"x"}
    MaxRequests = 2
    Window = 2
    MaxTime = 4
    Scholars = {"c"}
    Works = {1, 2, 3}
    Entries = {1, 2}
    Titles = {"x"}
    Dois = {"x"}
    Projects = {}
    Externals = {}
    Reviews = {n1, n2}
    RecordMoves = 3
    Profiled = {"r", "c"}
    Researchers = {"r"}
    Branches = {"d", "e"}
    Scope <- MCScope
    Papers = {n1, n2}
    SourceDois = {n1, n2}
    Headings = {{1}, {1, 2}, {1, 3}}
    Years = {1, 2}
    Answering = {"orcid", "crossref"}
    MaxWorks = 3
    MaxApplied = 2
    Observed = {"c", "r", "s"}
    Checkpoints = {1, 2}
    Depends <- MCDepends
    Threshold = 1
    FigureMoves = 2
    Texts = {n1, n2}
    MaxSaves = 3
    MaxStamp = 1
SYMMETRY MCSymmetry
INVARIANTS
    TypeOK
    ToldIsTheAnswer
    NudgesAreSpaced
    RemindedOnceOnTheDay
    SessionsAreTheirOwners
    NeverOverBudget
    
    
    
    
PROPERTIES
    AnswerIsFinal
    SaidToItsReaders
    AdministratorRemains
    
CHECK_DEADLOCK FALSE
