\* One hosted machine or two telemetry challenges of one supply offer; two
\* administrators of the configuration, or one who is invited.
\* Everything may be retired, and nothing be left to do.
SPECIFICATION IdentitySpec
CHECK_DEADLOCK FALSE
CONSTANTS
    c1 = c1
    c2 = c2
    d1 = d1
    d2 = d2
    r1 = r1
    r2 = r2
    x1 = x1
    h1 = h1
    Challenges = {c1, c2}
    Modes <- MCModes
    Quantity = 1
    Devices = {d1, d2}
    Offers = {o1}
    Contracts = {k1}
    Requests = {r1, r2}
    MaxBeats = 2
    MaxCommands = 4
    MaxProfile = 3
    MaxOffer = 2
    Configured = {c1, c2}
    Invited = {x1}
    HomeOf <- MCHomeOf
    Sessions = {d1, d2}
    Visits = {r1, r2}
    MaxCodes = 1
    NoMember = NoMember
SYMMETRY MCSymmetry
CONSTRAINT OneKind
INVARIANTS
    DevicesAreWithinQuota
    RetirementIsFinal
    AccessIsSound
PROPERTIES
    SuspensionIsFinal
