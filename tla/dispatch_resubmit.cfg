CONSTANTS
    Payments = {p1}
    Tries = {n1, n2}
    Settlements = {}
    Poison = {}
    BatchSize = 1
    Faults = {"crash"}
    MaxFaults = 1
    None = None
SPECIFICATION Spec
INVARIANTS SubmittedOnce
