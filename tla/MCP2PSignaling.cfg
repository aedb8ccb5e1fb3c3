SPECIFICATION MCSpec
CONSTANTS
    Candidates <- MCCandidates
    Window = 1
    Retry = 1
    Gather = 0
    MaxLoss = 0
    SlowBy = 1
    Relays = {"r1", "r2"}
    Legs <- MCLegs
    Retries = 2
    Capacity = 2
INVARIANTS CandidatesInTurn WindowsSuffice PublishedIsHeld NothingSlipsPast
PROPERTIES BothSettle
CHECK_DEADLOCK FALSE
