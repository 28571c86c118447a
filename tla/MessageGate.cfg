CONSTANTS
    Callers = {c1, c2, c3}
    Cancellable = {c2, c3}
    Slots = 1
SPECIFICATION FairSpec
INVARIANTS TypeOK GateConserved GateExclusive OverlapBounded GateOrder
PROPERTIES EveryCallReturns
CHECK_DEADLOCK FALSE
