SPECIFICATION MCSpec
CONSTANTS
    Program <- Programs
    Statement <- Statements
    Width = 6
    TextLength = 0
PROPERTIES
    DeclaresInOwnScope
CHECK_DEADLOCK FALSE
