\* The audit events of the policy approval and of the stop command.
CONSTANTS
    Openers = {p1, p2}
    NoOpener = none
    MaxDeaths = 2
    Requests <- TwoRegistrations
    AuditTypes = {"job.policy.approved", "job.stop.requested"}
    Legacy <- OneMessage
    Pids = {1, 2}
    MaxEvents = 5
    MaxHubFaults = 2
    FleetRunners = {1, 2}
    FleetJobs = {f1}
    ChatKeys = {o1, o2}
    DeviceKeys = {k1}
    NotAny = nobody
    SourceJobs = {j1, j2}
    NoJob = nojob
    MaxHubDeaths = 2
    MaxObservers = 2
    Versions = {v1, v2}
    NoVersion = nov
    Manifests = {m1}
    MaxRegistrations = 4
    LastTurn = 3
    LastWorker = 4
    MaxReplay = 8
    RotateAfter = 2
    MaxWorkerFaults = 2
    AccessRequests = {r1, r2}
    NoLease = nl
    LastLease = 2
    LeaseTerm = 3
    TokenTtl = 2
    LastTick = 4
    MaxCalls = 1
    MaxSandboxLease = 2
    MaxSandboxFaults = 1
    NodeProcs = {n1, n2}
    NodeKeys = {k1, k2, k3}
    NoKey = nokey
    MaxNodeFaults = 1
    ListCommands = {n1, n2}
    WorkspaceIds = {w1, w2, w3}
    WorkspaceRoots = {d1, d2, d3}
    MostWorkspaces = 2
    MaxListSteps = 3
    Sessions = {n1, n2}
    Releases = {v1, v2}
    WorkingReleases = {v1}
    NoRelease = norelease
    MaxReleaseSteps = 3
SPECIFICATION MCSpec
INVARIANTS
    LogIsReadable
CHECK_DEADLOCK FALSE
