SPECIFICATION Spec
CONSTANTS
    Width <- MCWidth
    Window <- MCWindow
    Keep <- MCKeep
    Traded <- MCTraded
    Backfilled = {"24h"}
    MaxPoints = 2
    Nightly = 1
    MaxTime = 18
    MaxMissed = 2
    MaxOutages = 1
INVARIANT TiersSound
PROPERTIES AbsorbedBeforePrune RowsOnlyGrow
