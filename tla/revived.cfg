SPECIFICATION Spec
CONSTANTS
    ble = ble
    relay = relay
    h1 = h1
    h2 = h2
    NoBearer = NoBearer
    NoRoute = NoRoute
    Bearers = {ble}
    NameOf <- Alone1
    Names = {"BT"}
    Locals = {1}
    Hosts = {h1, h2}
    HostOps = {"setEnabled", "startStop"}
    Registered = {ble}
    BaseLinkId = 1
    MaxLinks = 1
    Deadline = 1
    MaxClock = 0
INVARIANTS DisabledStaysDown
