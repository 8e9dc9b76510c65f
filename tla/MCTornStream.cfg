CONSTANTS
    Sessions = {s1}
    k1 = k1
    k2 = k2
    d1 = d1
    d2 = d2
    Keys = {k1, k2}
    Devices = {d1, d2}
    Hellos <- OnePhone
    Requests = {}
    Streams = {t1}
    AudioModes <- OneMode
    INITIAL_MODE = "balanced"
    TRANSPORT_MODE = "usb"
    DATA_PLANE = "v2_header"
    CODEC = "pcm16"
    MAX_CLIENTS = 2
    MAX_FRAMES = 3
    FRAGS = 1
    Transport = Transport
    Wifi = Wifi
    None = None
SPECIFICATION PipeSpec
INVARIANT StreamsWellFramed
