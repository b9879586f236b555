CONSTANTS
    Credits = {c1}
    Returns = {}
    Settlements = {}
    MaxDeliveries = 2
    Faults = {}
    MaxFaults = 0
    None = None
SPECIFICATION Spec
INVARIANTS PaidOutOnce
CHECK_DEADLOCK FALSE
