SPECIFICATION TuiSpec
CONSTANTS
    Capacity = 2
    MaxSteps = 2
    MaxNotes = 2
    Nodes <- MCNodes
    Root = 0
    Dirs = {0, 1, 2}
    Hidden = {2}
    Parent <- MCParent
    StartDir = 0
    Typed = {0, 1}
    Letters = {1, 2, 3}
    Blank = 3
    Width <- MCWidth
    MaxName = 2
    MaxChanges = 1
INVARIANTS ResultComesLast QuestionNeverLost CursorsInside FingerprintIsCurrent PlanIsUsable
CHECK_DEADLOCK FALSE
