CONSTANTS
    p1 = p1
    p2 = p2
    Procs = {p1, p2}
    None = None
    Invocations <- MCInvocations
    SpecFiles <- MCSpecFiles
    RelaySpecs <- MCRelaySpecs
    MaxStarts = 2
    MaxFaults = 1
SPECIFICATION NodeSpec
INVARIANTS CollatorKeyThere OnlyAuthoritiesCollate NotInItsOwnWay PurgedWhatRunWrote RunningIsWhole
PROPERTIES NoIdleCollator
CHECK_DEADLOCK FALSE
