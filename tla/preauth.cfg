SPECIFICATION FairSpec
CONSTANTS
    ble = ble
    relay = relay
    h1 = h1
    h2 = h2
    NoBearer = NoBearer
    NoRoute = NoRoute
    Bearers = {ble}
    NameOf <- Alone1
    Names = {"BT"}
    Locals = {1, 2}
    Hosts = {h1, h2}
    HostOps = {"register", "setEnabled", "preauth", "markSecured"}
    Registered = {}
    BaseLinkId = 1
    MaxLinks = 2
    Deadline = 1
    MaxClock = 2
INVARIANTS NoLinkEscapesDeadline
PROPERTIES SweepSparesSecured RemovedIsReported
