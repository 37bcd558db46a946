SPECIFICATION Spec
CONSTANTS
    Token = {t1, t2}
    Item = {1, 2, 3}
    Listed = {1, 2}
    Handler = {h1, h2}
    Cap <- MCCap
    PruneAfter = 1
    Ops = {"favourites", "ledger", "alerts", "import", "prefs"}
    MaxTime = 2
    MaxRequests = 3
    MaxLines = 2
    MaxDropped = 1
SYMMETRY Symmetry
INVARIANTS NoOrphans CapOvershoot
