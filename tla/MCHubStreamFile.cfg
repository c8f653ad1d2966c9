SPECIFICATION Spec
CONSTANTS
    QueueSize = 1
    StatusThread = FALSE
    MaxLosses = 0
    MaxSleeps = 1
    MaxExits = 0
PROPERTY FreshSnapshotKept
