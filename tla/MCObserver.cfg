\* Three events in up to three blocks, pages of one event, two faults.  Deadlock is not
\* checked: an observer whose request is never answered waits for good.
SPECIFICATION ObserverSpec
CONSTANTS
    Events = {1, 2, 3}
    Addresses <- MCAddresses
    AddressOf <- MCAddressOf
    Unreadable = {2}
    FromBlock = 1
    PageSize = 1
    MaxAttempts = 2
    NoCheckpoint = none
    MaxBlock = 3
    MaxFaults = 2
INVARIANTS PassedIsTried
PROPERTIES EveryEventIsReached
CHECK_DEADLOCK FALSE
