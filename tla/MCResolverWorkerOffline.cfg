SPECIFICATION Spec
CONSTANTS
    Agents = {a1, a2}
    Windows = {w1, w2}
    Restored = w1
    Nothing = Nothing
    PageSize = 1
    MaxStamp = 1
    MaxChanges = 3
CHECK_DEADLOCK FALSE

PROPERTY UnavailableNeverAcknowledges
