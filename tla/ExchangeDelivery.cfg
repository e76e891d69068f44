\* A paid order is delivered, served, accepted and settled while credentials run out.
\* A settled or disputed order at the end of time has nothing left to do.
SPECIFICATION DeliverySpec
CHECK_DEADLOCK FALSE
CONSTANTS
    Calls = {r1, r2}
    Start = 2
    End = 5
    Units = 2
    Gross = 101
    Attributed = TRUE
    Expiries = {2, 4, 6}
    MaxPackages = 3
    MaxClock = 6
    r1 = r1
    r2 = r2
SYMMETRY Symmetry
INVARIANTS
    DeliveryIsInStep
    PaidAsEarned
