\* One Qixiang order raced by two checkout requests, the worker, a member and a callback;
\* one Alipay order with two callbacks, duplicated and reordered.
SPECIFICATION LiveSpec
CONSTANTS
    QixiangOrders = {o1}
    AlipayOrders = {a1}
    Requests = {r1, r2}
    Timer = timer
    Members = {m1}
    Notifiers = {n1}
    AlipayNotifiers = {b1, b2}
    EscalateAfter = 2
    NoToken = NoToken
CONSTRAINT FewAreBusy
INVARIANTS
    TypeOK
    PaidOnceAndSettled
    OneCheckoutPerOrder
PROPERTIES
    NothingIsTakenBack
    ImplementsPromise
    PaidIsCredited
