CONSTANTS
    site = site
    other = other
    NoProject = NoProject
    NoKey = NoKey
    Projects = {site, other}
    Plans <- MCPlans
    Known = {site, other}
    Fallback = NoProject
    MaxBeads = 2
    MaxFilings = 2
    MaxEdits = 2
    MaxFails = 1
SPECIFICATION Spec
INVARIANTS OneBeadPerRef DoneMeansFiled NoSilentCycle
CHECK_DEADLOCK FALSE
