CONSTANTS
    Jobs = {j1}
    Runners = {r1}
    Me = r1
    LeaseTicks = 1
    AuthorityTicks = 1
    MaxLease = 2
    MaxEvents = 6
    Calls = {c1, c2}
    ToolLists = {{}}
    Proposed = {"system.snapshot", "file.write"}
    StepBudget = 2
    ExchangeLimit = 4
    MaxCrashes = 1
    MaxLosses = 0
SPECIFICATION AgentSpec
INVARIANTS CheckpointsRecover
SYMMETRY Symmetry
CHECK_DEADLOCK FALSE
