CONSTANTS
    Sessions = {s1}
    k1 = k1
    k2 = k2
    d1 = d1
    d2 = d2
    Keys = {k1, k2}
    Devices = {d1, d2}
    Hellos <- PhoneOrLegacy
    Requests <- Switches
    Streams = {}
    AudioModes <- TwoModes
    INITIAL_MODE = "balanced"
    TRANSPORT_MODE = "wifi"
    DATA_PLANE = "v2_header"
    CODEC = "opus"
    MAX_CLIENTS = 2
    MAX_FRAMES = 4
    FRAGS = 1
    Transport = Transport
    Wifi = Wifi
    None = None
SPECIFICATION PipeSpec
PROPERTIES FlagsLostOnlyByBuffering
