CONSTANTS
    d1 = d1
    n1 = n1
    n2 = n2
    n3 = n3
    m1 = m1
    in1 = in1
    in2 = in2
    ask1 = ask1
    ask2 = ask2
    cal1 = cal1
    cal2 = cal2
    Sources = {d1}
    KindOfSource <- MCKindOfSource
    Names = {n1, n2, n3}
    Messages = {m1}
    Life = 3
    RenewBefore = 2
    MaxUpsets = 2
    Tasks = {1, 2, 3}
    Decisions = {4, 5, 6}
    ProjectOf <- MCProjectOf
    Unpublishable = {1, 6}
    Superseding = {4}
    Limit = 2
    MaxMishaps = 3
    Logins = {in1, in2}
    Tokens <- MCTokens
    Audiences = {"ours"}
    KeyTTL = 2
    FetchTimeout = 1
    MaxKeys = 2
    LastInstant = 3
    Askers = {ask1, ask2}
    Repositories = {"r"}
    Uncovered = "x"
    Callers = {cal1, cal2}
    TokenLife = 4
    MinutesMargin = 2
    DelegatedMargin = 1
    MintTimeout = 1
    LastMoment = 5
SPECIFICATION IntegrationsSpec
INVARIANTS OneBeadPerCandidate TokenReachesWhatWasAsked HandedOutIsLive
PROPERTIES SourceStaysSubscribed CandidateBecomesWork AcceptedKeyIsRecent
CHECK_DEADLOCK FALSE
