\* One fault anywhere, then the agent keeps polling; the expiry stops the lease.
\* A contract that is closed leaves nothing to do: the system may stop.
SPECIFICATION LiveSpec
CHECK_DEADLOCK FALSE
CONSTANTS
    StartRequests = {s1}
    StopRequests = {}
    AutomatedStopAttempts = 4
    MaxCommands = 5
    MaxFaults = 1
    Occasions = {{}}
PROPERTIES
    EscrowEnds
