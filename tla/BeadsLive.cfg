CONSTANTS
    site = site
    other = other
    NoProject = NoProject
    NoKey = NoKey
    Projects = {site, other}
    Plans <- MCWidePlans
    Known = {site}
    Fallback = NoProject
    MaxBeads = 3
    MaxFilings = 1
    MaxEdits = 1
    MaxFails = 1
SPECIFICATION FairSpec
PROPERTIES PassRecordsBlockers CatchesUp
CHECK_DEADLOCK FALSE
