\* Two request slots and two keys, with money for one lease: either retried on any slot
\* against one cancellation, or each on its own and nobody cancels.
\* A revoked device without requests leaves nothing to do: the system may stop.
SPECIFICATION MCSpec
CHECK_DEADLOCK FALSE
CONSTANTS
    Keys = {k1, k2}
    Requests = {r1, r2}
    KeysOf <- AnyKeys
    Cancels = {c1}
    CancelKeys = {x1}
    Funds = 1
SYMMETRY Symmetry
INVARIANTS
    TypeOK
    HeldMatchesHolds
    RetiredStaysUnlisted
    OrderlySaleIsExclusive
PROPERTIES
    ReleasedIsFinal
