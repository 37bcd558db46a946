SPECIFICATION PagesSpec
CONSTANTS
    Word <- MCWord
    Lower <- MCLower
    Links <- MCLinks
    Daily <- MCDaily
    LastDay = 2
    HistoryCap = 2
    MaxLoads = 2
    MaxClicks = 2
    Practised <- MCPractised
    MaxGames = 2
    Elements <- MCElements
    Sheets = {"f", "g"}
    MaxToggles = 2
    TextLength = 3
    Pause = 2
    LongPause = 3
    PageWidth = 4
    TextWidth = 3
    MixMax = 2
    Quarter = 3
    Steps = {1, 2}
    MaxScale = 2
    Tab = {1, 2}
    Themes = {"gtk2", "motif"}
    Retired = "retired"
    Default = "gtk2"
INVARIANTS
    GameSound
    PlayTruthful
    TextLaws
    ContentShown
    ChoicesShown
PROPERTIES
    GetsFinished
    AnimationsGoRound
CHECK_DEADLOCK FALSE
