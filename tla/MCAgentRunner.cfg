CONSTANTS
    Jobs = {j1}
    Runners = {r1}
    Me = r1
    LeaseTicks = 1
    AuthorityTicks = 1
    MaxLease = 2
    MaxEvents = 6
    Calls = {c1, c2}
    ToolLists = {{}, {"file.write", "service.restart"}}
    Proposed = {"system.snapshot", "file.write"}
    StepBudget = 2
    ExchangeLimit = 1
    MaxCrashes = 1
    MaxLosses = 1
SPECIFICATION AgentSpec
INVARIANTS AgentTypeOK OnlyClearedInvoked ToldTheTruth
PROPERTIES InvokedUnderItsLease ImplementsPolicy
SYMMETRY Symmetry
CHECK_DEADLOCK FALSE
