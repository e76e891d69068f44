\* Buyers compete for two units of a lot; holds run out; payments are late or repeated.
\* The clock stops and every request may be over: the system may stop.
SPECIFICATION Spec
CHECK_DEADLOCK FALSE
CONSTANTS
    Orders = {o1, o2}
    Requests = {r1, r2}
    Events = {e1, e2}
    Transactions = {t1, t2}
    Windows <- TwoWindows
    LotUnits = 2
    HoldTtl = 2
    ValidUntil = 3
    MaxTime = 3
    o1 = o1
    o2 = o2
    e1 = e1
    e2 = e2
    t1 = t1
    t2 = t2
SYMMETRY Symmetry
INVARIANTS
    BooksAgree
PROPERTIES
    ImplementsOrderPromise
