SPECIFICATION FairSpec
CONSTANTS
    Agents = {a1}
    Absent = Absent
    None = None
    Commands = {c1}
    Worker = worker
    Ahead <- ClocksLead
    Activities = {"active", "idle", "needs_attention", "unknown"}
    MissingStamps = FALSE
    MaxClock = 3
    MaxFaults = 2
INVARIANTS TypeOK NoLostClaim OnlyNewerClaimsOutliveTheirAgent NewRequestShows
PROPERTIES EventuallyCovered NoReplayedAlert ImplementsInbox
