SPECIFICATION TrialsSpec
CONSTANTS
    o1 = o1
    o2 = o2
    a1 = a1
    a2 = a2
    TrialOrders = {o1, o2}
    Slots <- MCSlots
    MaxHours = 4
    MaxBuyers = 2
    AlipayTrials = {o1}
    HalfPaid = {o2}
    Total = 2
    Refs = {c1, c2}
    Workers = {w1, w2}
    Amounts = {1, 2}
    Admins = {a1, a2}
    MaxClaims = 2
CONSTRAINT Fits
SYMMETRY MCSymmetry
CHECK_DEADLOCK FALSE
INVARIANTS
    NodeIsExclusive
    RefundsAreSound
    PaidOnceOrRepairable
