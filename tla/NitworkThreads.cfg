CONSTANTS
    MaxPackets = 1
    MaxReceived = 1
SPECIFICATION FairSpec
INVARIANTS
    TypeOK
    HandlerPacketsAreSent
    NoLockDeadlock
PROPERTY StopReturns
