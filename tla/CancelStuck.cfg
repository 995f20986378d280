SPECIFICATION FairSpec
CONSTANTS
    s1 = s1
    w1 = w1
    SseClients = {}
    WsClients = {}
    BufferCap = 2
    HubCap = 2
    ReplayBatch = 1
    MaxSeq = 3
    MaxNoise = 1
    MaxDrops = 1
    MaxRestarts = 1
    p1 = p1
    p2 = p2
    Puts = {p1, p2}
    Gone = Gone
    MaxRuns = 2
    MaxChanges = 1
    MaxSaves = 2
    MaxWork = 3
    MaxDisturbances = 1
    f1 = f1
    f2 = f2
    Files = {f1, f2}
    Existing = {f1}
    root = root
    sub = sub
    Writers = {root, sub}
    RootWriter = root
    KeepN = 2
    MaxTurns = 0
    MaxEdits = 3
    MaxUndos = 0
    pa = pa
    pb = pb
    pc = pc
    ProjectFiles = {pa, pb, pc}
    Committed = {pa}
    OwnFiles = {pb}
    SnapshotsKept = 1
    MaxWrites = 2
    MaxNodes = 2
    MaxFaults = 1
    Frontends = {"daemon", "tui", "subagent"}
    ReadCalls = {1}
    KeepResults = 1
    Watermark = 3
    Threshold = 4
    Ratios = {1}
    MaxRounds = 2
    MaxParseErrors = 2
    MaxContinuations = 1
    StuckRounds = 1
    MaxCallIds = 2
    MaxUserTurns = 0
    MaxNotes = 1
    t1 = t1
    t2 = t2
    t3 = t3
    TaskIds = {t1, t2, t3}
    c1 = c1
    TaskCalls = {c1}
    NoTask = NoTask
    MaxTaskOps = 0
    MaxTaskFaults = 0
    d1 = d1
    d2 = d2
    d3 = d3
    Processes = {}
    Nobody = Nobody
PROPERTIES
    RunSettles
CHECK_DEADLOCK FALSE
