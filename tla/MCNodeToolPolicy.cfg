\* The tool lists server.ts configures: none, or everything but the reads.
CONSTANTS
    Jobs = {j1}
    Runners = {r1}
    LeaseTicks = 2
    MaxLease = 3
    MaxEvents = 3
    Calls = {c1, c2, c3}
    AuthorityTicks = 2
    ToolLists = {{}, {"file.write", "service.restart"}}
SPECIFICATION MCSpec
INVARIANTS
    PolicyTypeOK
    AuthorityWithinLease
    OwnerClearedCall
    HeldJobIsReleasable
    SteadyCallHoldsJob
PROPERTIES
    DenialIsFinal
SYMMETRY Symmetry
CHECK_DEADLOCK FALSE
