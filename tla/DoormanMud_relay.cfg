\* Two clients whose sockets may fail, and a MUD that stops once.
SPECIFICATION FairSpec
CONSTANTS
    MaxAccepts = 2
    MaxChannels = 2
    MaxQueue = 0
    MaxFaults = 1
    ClientFaults = TRUE
\* Doorman that has exited is not started again.
CHECK_DEADLOCK FALSE
INVARIANTS
    TypeOK
    PoolPartition
    ConnectedIffUp
    InitExpected
PROPERTIES
    NumbersNotShared
    ImplementsRelay
    WaitingEnds
