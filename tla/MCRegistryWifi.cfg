CONSTANTS
    Sessions = {s1, s2, s3}
    k1 = k1
    k2 = k2
    k3 = k3
    d1 = d1
    d2 = d2
    d3 = d3
    Keys = {k1, k2, k3}
    Devices = {d1, d2, d3}
    Hellos <- WifiHellos
    Requests = {}
    Streams = {}
    AudioModes <- OneMode
    INITIAL_MODE = "balanced"
    TRANSPORT_MODE = "wifi"
    DATA_PLANE = "v2_header"
    CODEC = "opus"
    MAX_CLIENTS = 2
    Transport = Transport
    Wifi = Wifi
    None = None
    FailureCodes = {"HandshakeTimeout", "NegotiationMismatch"}
    NoFailure = NoFailure
SYMMETRY Symmetric
SPECIFICATION ContractSpec
INVARIANTS TypeOK Capacity UniqueKeys SessionCountExactOnWifi ConnectionFollowsHandler
PROPERTIES RejectionIsClean
