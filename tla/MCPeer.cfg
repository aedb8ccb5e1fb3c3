SPECIFICATION MCSpec
CONSTANTS
    Low = 1
    High = 2
    Outgoing = 6
    Incoming = 2
    Setups = 2
    Sockets = 2
    Interfaces <- MCInterfaces
    STUN_SERVERS <- MCServers
    GatherTimeout = 7
    ResolveCap = 1
    ProbeCap = 1
    MaxInbox = 2
INVARIANTS NoLostWakeup GateReopens BoundedOvershoot InboundComplete RoutesReach GatheredIsTold GatherInTime
PROPERTIES EveryCallReturns
CHECK_DEADLOCK FALSE
