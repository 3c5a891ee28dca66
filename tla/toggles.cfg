SPECIFICATION Spec
CONSTANTS
    ble = ble
    relay = relay
    h1 = h1
    h2 = h2
    NoBearer = NoBearer
    NoRoute = NoRoute
    Bearers = {ble, relay}
    NameOf <- OneName
    Names = {"Relay"}
    Locals = {1}
    Hosts = {h1, h2}
    HostOps = {"setEnabled", "startStop", "send"}
    Registered = {ble, relay}
    BaseLinkId = 1
    MaxLinks = 2
    Deadline = 1
    MaxClock = 0
SYMMETRY HostSymmetry
INVARIANTS TypeOK MapsInverse OneReporter DisabledIsTornDown
PROPERTIES BytesAfterUp
