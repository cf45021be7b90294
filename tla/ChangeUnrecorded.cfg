CONSTANTS
    u1 = u1
    u2 = u2
    u3 = u3
    u4 = u4
    i1 = i1
    i2 = i2
    call1 = call1
    call2 = call2
    call3 = call3
    g1 = g1
    cli1 = cli1
    cli2 = cli2
    repoA = repoA
    repoB = repoB
    repoC = repoC
    dflt = dflt
    j1 = j1
    j2 = j2
    pa1 = pa1
    pa2 = pa2
    Approvers = {u1, u2, u3, u4}
    Requester = u4
    RequiredApprovals = 2
    Digests = {"v1", "v2"}
    People = {u1, u2}
    Items = {i1, i2}
    Horizon = 2
    Calls = {call1, call2, call3}
    Call <- MCCall
    Scopes = {"write"}
    ActionOf <- MCActionOf
    Spending = {"resolve"}
    Granted = {"write"}
    Enforce = TRUE
    Rate = 1
    DefaultRate = 1
    Minute = 2
    LastTick = 3
    Grants = {g1}
    Signers = {u1, u2}
    Clients = {cli1, cli2}
    CodeOf <- MCCodeOf
    MaxGuesses = 1
    MaxTokens = 3
    Repos = {repoA, repoB, repoC}
    Closed = {"closed"}
    RepoProject <- MCRepoProject
    BaseOf <- MCBaseOf
    QualifiedOf <- MCQualifiedOf
    Rigs = {"sandbox", "web", "site", "q_web"}
    DefaultRig = "sandbox"
    Town <- MCTown
    Jobs = {j1, j2}
    KindOfJob <- MCKindOfJob
    ProjectOfJob <- MCProjectOfJob
    NoRepo = NoRepo
    Members = {u1, u2, u3}
    Slugs = {"p"}
    Cells = {"oss"}
    DefaultCell = "oss"
    Checkouts = {repoA}
    Empty = {repoA}
    OwnerChanges = {pa1, pa2}
    Proposed <- MCProposed
    GrantRoles = {"project_lead"}
    Shipped = 4
    First = 3
    Seeds = {2, 3}
    Again = {2}
    OnEmpty = "fresh"
    Deploys = {"d1"}
    MaxUpsets = 2
SPECIFICATION CPSpec
INVARIANT RecordFollowsChange
CHECK_DEADLOCK FALSE
