\* Two top-ups refunded by two executors that may be late, against every other way
\* of getting and spending card-hours; and the other desks, each on its own.
\* Every order may be over and every refund decided: the system may stop.
SPECIFICATION OfficeSpec
CHECK_DEADLOCK FALSE
CONSTANTS
    t1 = t1
    t2 = t2
    a1 = a1
    a2 = a2
    r1 = r1
    r2 = r2
    p1 = p1
    p2 = p2
    Topups = {t1, t2}
    Grants = {g1}
    Sales = {s1}
    Orders = {o1}
    Price <- MCPrice
    Admins = {a1, a2}
    Requests = {r1, r2}
    Proofs = {p1, p2}
    Outcomes = {"MANUAL_REQUIRED", "FAILED", "SUCCEEDED"}
    MaxClaims = 3
    NoProof = NoProof
    Purchases = {t1, t2}
    Suppliers = {a1, a2}
    Desks = {r1, r2}
    Quotes = {20000}
    Uses = {1, 20000}
    Funds = 30000
    Disputed = {d1}
    MaxCases = 2
    Officers = {a1, a2}
    Counters = {r1, r2}
    Evidence = {a1, a2}
    NoEvidence = NoProof
    Questioned = {d1}
    Clerks = {a1, a2}
    Filings = {r1, r2}
    Callers = {r1, r2, d1}
    Window = 5
    Timeout = 3
    Limit = 3
    MaxPending = 2
SYMMETRY Symmetry
CONSTRAINTS
    FirstRefund
    OnePurchase
INVARIANTS
    WalletIsSound
    RefundsAreControlled
    ManualOrdersAreSound
    CasesAreSound
    QueriesAreBounded
PROPERTIES
    OfficeEndsAreFinal
