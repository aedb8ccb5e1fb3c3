SPECIFICATION FairSpec
CONSTANTS
    Second = 2
    BucketSec = 2
    StartClocks <- MCClocks
    StaleCodes <- MCStale
    NoCode = NoCode
    Connect = 2
    OpenTimeout = 1
    Gather = 1
    Carry = 1
    MaxTime = 7
INVARIANTS CodesReadable CarriedInTime
PROPERTIES ExchangeSettles
CHECK_DEADLOCK FALSE
