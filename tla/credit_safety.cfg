CONSTANTS
    Credits = {c1, c2}
    Returns = {c2}
    Settlements = {s1}
    MaxDeliveries = 2
    Faults <- AllFaults
    MaxFaults = 2
    None = None
SPECIFICATION Spec
INVARIANTS EvidenceFirst OutcomeIsTrue ReturnsAreDue
PROPERTIES LatestAttemptWins
CHECK_DEADLOCK FALSE
