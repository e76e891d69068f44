\* A large and a small contract of one wallet, settled by two calls at once or disputed.
\* Every contract may be over and the call idle: the system may stop.
SPECIFICATION Spec
CHECK_DEADLOCK FALSE
CONSTANTS
    Contracts = {c1, c2}
    Callers = {k1, k2}
    Rate <- MCRate
    Rentals = {200, 3600}
    Runtimes = {0, 600, 4000}
    Deposit = 10012
    FeeSteps <- MCFeeSteps
    ScheduleFee = 10
    ScheduleReferral = 3
    None = None
    c1 = c1
    c2 = c2
SYMMETRY Symmetry
INVARIANTS
    AlwaysSettleable
    PaidAndRecorded
    VolumeIsSettled
