\* One event, and no fault at all.
SPECIFICATION ObserverSpec
CONSTANTS
    Events = {3}
    Addresses <- MCAddresses
    AddressOf <- MCAddressOf
    Unreadable = {}
    FromBlock = 1
    PageSize = 1
    MaxAttempts = 2
    NoCheckpoint = none
    MaxBlock = 3
    MaxFaults = 0
PROPERTIES EveryEventIsTried
