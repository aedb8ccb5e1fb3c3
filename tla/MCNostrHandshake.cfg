SPECIFICATION MCSpec
CONSTANTS
    r1 = r1
    r2 = r2
    Receivers <- MCReceivers
    Nobody = Nobody
    Rotation = 2
    Second = 2
    WaitTimeout = 4
    ConfirmTimeout = 1
    MaxRefresh = 1
    Skew <- MCSkew
    Start = 1
    MaxTime = 6
INVARIANTS ShownCanBeClaimed HonouredIsFindable NoClaimWasted ConfirmedIsLocked
PROPERTIES RevokedStaysRevoked HandshakeSettles
CHECK_DEADLOCK FALSE
