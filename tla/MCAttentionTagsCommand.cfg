SPECIFICATION Spec
CONSTANTS
    Windows = {w1}
    NoWindow = NoWindow
    Agents = {a1}
    MaxEvents = 2
    MaxSignals = 1
    MaxActs = 2
    MaxClears = 1
    MaxChanges = 2
    MaxExits = 1
INVARIANT LastOwnerClears
