SPECIFICATION Spec
CONSTANTS
    QueueSize = 2
    StatusThread = FALSE
    MaxLosses = 1
    MaxSleeps = 1
    MaxExits = 1
INVARIANTS TypeOK ShownLiveIsLive
PROPERTY ImplementsAuthority
