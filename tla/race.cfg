SPECIFICATION MCSpec
CONSTANTS
    Host = h
    Guest = {g1, g2}
    First = g1
    Second = g2
    Fake = {f}
    Challenge = {c}
    FakeClicks = 1
    MaxStarts = 2
    MaxClicks = 1
    MaxQueue = 1
    Budget = 2
INVARIANTS RoomSound Mirrors NoHeadStart FinishKnown
PROPERTY EventsArrive
CHECK_DEADLOCK FALSE
