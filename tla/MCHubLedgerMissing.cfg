SPECIFICATION Spec
CONSTANTS
    Agents = {a1}
    Absent = Absent
    None = None
    Commands = {c1}
    Worker = worker
    Ahead <- ClocksAgree
    Activities = {"active", "idle", "needs_attention"}
    MissingStamps = TRUE
    MaxClock = 4
    MaxFaults = 1
INVARIANT NewRequestShows
