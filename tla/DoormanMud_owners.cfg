\* Three clients one after the other: numbers are used again.
SPECIFICATION Spec
CONSTANTS
    MaxAccepts = 3
    MaxChannels = 1
    MaxQueue = 1
    MaxFaults = 0
    ClientFaults = FALSE
INVARIANTS
    DeliveredToOwner
    IdentityIsOwn
    InputFromOwner
    MudNumbersHeld
