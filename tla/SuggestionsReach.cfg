SPECIFICATION FairSpec
CONSTANTS
    People = {"s", "t"}
    Items = {}
    Milestones = {}
    Suited <- EachOther
    LEAD_DAYS = {1}
    MaxDay = 0
    MaxDue = 1
    Schedulers = {p1}
PROPERTIES
    SuggestionsReach
