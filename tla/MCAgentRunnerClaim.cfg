CONSTANTS
    Jobs = {j1}
    Runners = {r1}
    Me = r1
    LeaseTicks = 1
    AuthorityTicks = 1
    MaxLease = 1
    MaxEvents = 6
    Calls = {c1}
    ToolLists = {{"file.write", "service.restart"}}
    Proposed = {"system.snapshot", "file.write"}
    StepBudget = 2
    ExchangeLimit = 4
    MaxCrashes = 0
    MaxLosses = 0
SPECIFICATION AgentSpec
INVARIANTS SuccessIsObserved
CHECK_DEADLOCK FALSE
