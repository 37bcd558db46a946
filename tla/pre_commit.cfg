SPECIFICATION HookSpec
CONSTANTS
    Dated = TRUE
    MaxChanges = 3
    MaxDrift = 1
    MaxAborts = 1
INVARIANTS TreesSound FeedsTruthful PagesDescribed
