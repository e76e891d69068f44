\* The clients of Reservation that retry on any slot, asked whether the listing is sold once.
\* A revoked device without requests leaves nothing to do: the system may stop.
SPECIFICATION MCSpec
CHECK_DEADLOCK FALSE
CONSTANTS
    Keys = {k1, k2}
    Requests = {r1, r2}
    KeysOf <- AnyKeys
    Cancels = {c1}
    CancelKeys = {x1}
    Funds = 1
INVARIANTS
    OneReservationPerListing
