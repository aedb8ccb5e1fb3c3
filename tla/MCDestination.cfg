SPECIFICATION Spec
CONSTANTS
    r1 = r1
    r2 = r2
    prog = prog
    Receivers <- MCReceivers
    Others <- MCOthers
    NoFile = NoFile
    Numbers = 3
    MaxOther = 2
    MaxFiles = 6
SYMMETRY Interchangeable
INVARIANTS OwnUnlessShared OneAcknowledges
PROPERTIES ReplacedOnlyIfAsked
CHECK_DEADLOCK FALSE
