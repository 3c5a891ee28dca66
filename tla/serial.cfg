SPECIFICATION SerialSpec
CONSTANTS
    ble = ble
    relay = relay
    h1 = h1
    h2 = h2
    NoBearer = NoBearer
    NoRoute = NoRoute
    Bearers = {ble, relay}
    NameOf <- TwoNames
    Names = {"BT", "Relay"}
    Locals = {1}
    Hosts = {h1}
    HostOps = {"register", "setEnabled", "startStop", "send", "markSecured", "preauth"}
    Registered = {ble}
    BaseLinkId = 1
    MaxLinks = 2
    Deadline = 1
    MaxClock = 2
PROPERTIES BytesOnlyWhileUp ImplementsLinkContract
INVARIANTS ConsumerMatchesRoutes EnabledIsNotMuted DisabledStaysDown StoppedStaysDown
