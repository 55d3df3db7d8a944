\* The MUD stops while a client is connected.
SPECIFICATION Spec
CONSTANTS
    MaxAccepts = 2
    MaxChannels = 1
    MaxQueue = 1
    MaxFaults = 1
    ClientFaults = FALSE
\* Doorman that has exited is not started again.
CHECK_DEADLOCK FALSE
INVARIANTS
    DoormanStaysUp
