SPECIFICATION FairSpec
CONSTANTS
    s1 = s1
    s2 = s2
    w1 = w1
    N = 1
    Slots = {s1}
    Conns = {w1}
    NoSlot = NoSlot
    NoConn = NoConn
    BatchLimit = 1
    MaxDeliveries = 2
    MaxFaults = 1
INVARIANT ChannelInv
INVARIANT SuccessWasDispatched
INVARIANT OneDispatchPerDelivery
PROPERTY ImplementsLifecycle
PROPERTY CommandsSettle
CHECK_DEADLOCK FALSE
