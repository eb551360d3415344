\* One job, two leases of two ticks, four reports of any body from either Runner.
CONSTANTS
    Jobs = {j1}
    Runners = {r1, r2}
    LeaseTicks = 2
    MaxLease = 2
    MaxEvents = 4
SPECIFICATION Spec
INVARIANTS
    TypeOK
    OwnerGate
    OutcomeIsEvidenced
    Fenced
PROPERTIES
    TerminalIsFinal
    NoLiveLeaseReplaced
    ImplementsLeasedLog
SYMMETRY Symmetry
CHECK_DEADLOCK FALSE
