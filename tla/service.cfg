SPECIFICATION ServiceSpec
CONSTANTS
    Item = {i1, i2}
    Process = {service}
    Fallible = {"latest"}
    MaxTroubles = 2
    Caller = {"poll", "backfill"}
    Gap = 2
    LastTime = 8
    MaxSlots = 4
    Scan = {1, 2}
    Parts = 2
    MaxFails = 2
    Opener = {"service", "once", "old"}
    Knows <- MCKnows
    MaxCrashes = 2
    Items = 3
    Steps <- MCSteps
    BatchSize = 2
    MaxMishaps = 2
    Day = 5
    Hour = 1
    Period = 2
    MaxWork = 6
    LastHour = 17
    Sampler = {"service", "once"}
    Index = {"x", "y"}
    Raw = {1, 2}
    MaxSlips = 3
    Browser = {"b", "c"}
    Token = {"s", "t"}
    PerHour = 1
    MaxRequests = 2
    Halves = 3
    TokenLen = 5
INVARIANTS
    ServiceSound
    LawsHold
PROPERTIES
    CatalogueCatchesUp
    PricesCatchUp
    JobsGoOn
CHECK_DEADLOCK FALSE
