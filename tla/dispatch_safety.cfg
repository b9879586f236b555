CONSTANTS
    Payments = {p1, p2}
    Tries = {n1, n2, n3}
    Settlements = {s1, s2}
    Poison = {p1}
    BatchSize = 2
    Faults <- AllFaults
    MaxFaults = 1
    None = None
SPECIFICATION FairSpec
INVARIANTS EvidenceAgrees StampedIsCovered
PROPERTIES NoWayBack PaymentEnds
