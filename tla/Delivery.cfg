\* Two faults at any two points of one delivery, retried by administrators, where a second
\* start request, which may leave a second START command, counts as a fault; or one fault
\* while all people do: disputes, retirement, unlisting; or two start requests, a dispute
\* and a retirement, without a fault.
\* A contract that is closed leaves nothing to do: the system may stop.
SPECIFICATION Spec
CHECK_DEADLOCK FALSE
CONSTANTS
    StartRequests = {s1, s2}
    StopRequests = {t1}
    AutomatedStopAttempts = 2
    MaxCommands = 5
    MaxFaults = 2
    Occasions <- MCOccasions
SYMMETRY Interchangeable
CONSTRAINT FaultsFit
INVARIANTS
    DeliveryTypeOK
    MoneyFollowsService
    NothingIsLeftBehind
PROPERTIES
    ImplementsEscrow
