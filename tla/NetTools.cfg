SPECIFICATION Spec
CONSTANTS
    Node = {1, 2, 3, 4, 5}
    Trees <- MCTrees
    MaxSockets = 2
    BodySize = 42
    Char = {"h", "-", "x", "1", "a", "b", "c", "sp", "lf", "a1", "a2", "a3"}
    Prefix <- MCPrefix
    Listings <- MCListings
    Archive <- MCArchive
    NameCap = 6
    BufGrowth = 8
    NClients = 3
    PoolThread = {p1}
    MaxDone = 4
    Client = {c1, c2, c3}
    Backlog = 2
    MaxKills = 1
    Piece = {"state", "running", "failure", "x"}
    Responses <- MCResponses
    Letter <- MCLetter
    Environs <- MCEnvirons
    CmdlineCap = 26
    EnvvalCap = 7
    UsernameCap = 3
INVARIANTS
    PacksCompleteTree
    TraversalFollowsTree
    PodNameIsComplete
    ArchiveHasNoGap
    EveryResponseCounted
    OnlyRequestArrives
    FinishedBuildOnly
    LaunchedAsAsked
