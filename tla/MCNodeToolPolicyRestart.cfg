\* One unavailable tool: two restarts dispatch a held job.
CONSTANTS
    Jobs = {j1}
    Runners = {r1}
    LeaseTicks = 2
    MaxLease = 2
    MaxEvents = 3
    Calls = {c1, c2}
    AuthorityTicks = 2
    ToolLists = {{"service.restart"}}
SPECIFICATION MCSpec
INVARIANTS
    PendingCallHoldsJob
SYMMETRY Symmetry
CHECK_DEADLOCK FALSE
