SPECIFICATION FairSpec
CONSTANTS
    QueueSize = 1
    StatusThread = TRUE
    MaxLosses = 1
    MaxSleeps = 1
    MaxExits = 0
PROPERTIES EventuallyLive ResumeWakes ReadersEnd DeadStreamLeft
