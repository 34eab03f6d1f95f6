\* A device the reader may poll, which is unplugged and
\* plugged in again, and a built-in one that it may not.
CONSTANTS
    Devices = {mouse, pad}
    Pollable = {mouse}
    Removable = {mouse}
    Entries = {e1, e2}
    NoEntry = NoEntry
    NoDevice = NoDevice
    MaxFd = 2
    MaxPlugs = 1
    MaxRequests = 2
    MaxFaults = 1
SPECIFICATION FairSpec
INVARIANTS ListIsAlive GrabFollowsRequest
PROPERTY PluggedDeviceIsRead
CHECK_DEADLOCK FALSE
