SPECIFICATION FairSpec
CONSTANTS
    Fallible = {"nginx", "gophernicus", "molly-brown", "fail2ban"}
    MaxEdits = 2
    MaxInterrupts = 1
    MaxReboots = 1
INVARIANTS TestedStaysUp RollbackRestores InstalledIsReread
PROPERTY Converges
