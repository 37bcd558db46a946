SPECIFICATION MCSpec
CONSTANTS
    Program <- Programs
    Statement <- Statements
    Width = 6
    TextLength = 4
INVARIANTS
    NoEarlyExecute
    RunSound
    LanguageLaws
PROPERTIES
    KeepsDeath
    TimersRelease
CHECK_DEADLOCK FALSE
