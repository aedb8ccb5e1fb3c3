SPECIFICATION Spec
CONSTANTS
    r1 = r1
    r2 = r2
    prog = prog
    Receivers <- MCOne
    Others <- MCOthers
    NoFile = NoFile
    Numbers = 3
    MaxOther = 1
    MaxFiles = 6
PROPERTIES ExistingNeedsOverwrite
CHECK_DEADLOCK FALSE
