CONSTANTS
    Units = {"u"}
    Mounts = {"m"}
    Gateways = {"g"}
    Streams = {"s"}
    Graphs = {"q"}
    Watched = {"w"}
    IngestsWorkspace = TRUE
    ExpectCells = 1
    Admins = {"a", "b"}
    Lifetime = 4
    MaxMishaps = 2
    Beads = {"b1", "b2"}
    MaxAgents = 2
    MaxContinue = 1
    MaxStops = 1
    Roles = {"polecat", "reviewer"}
    Models = {"sonnet", "kimi", "gemini", "new"}
    ProviderOf <- MCProviderOf
    BuiltInLimits = {"sonnet", "kimi", "gemini"}
    DefaultModel = "sonnet"
    Commands = {"bd", "npm", "rm", "gh"}
    Rigs = {"sandbox", "portaljs"}
    CodeRig = "portaljs"
    BeadPrefix = "sa"
    PrefixOf <- MCPrefixOf
    TownRigs <- MCTownRigs
    Polecats = {"p"}
    RigOf <- MCRigOf
    Recipients <- MCRecipients
    Sweep = 2
    Silence = 3
    MaxTroubles = 3
SPECIFICATION NodeSpec
INVARIANTS NodeTypesOK PlansCanRun OneItemPerProblem
PROPERTIES AlertsFollow RunsTornDown WorkAtRiskIsTold
CHECK_DEADLOCK FALSE
