CONSTANTS
    Sessions = {s1, s2}
    k1 = k1
    k2 = k2
    d1 = d1
    d2 = d2
    Keys = {k1, k2}
    Devices = {d1, d2}
    Hellos <- OnePhone
    Requests <- OneSwitch
    Streams = {t1, t2}
    AudioModes <- TwoModes
    INITIAL_MODE = "balanced"
    TRANSPORT_MODE = "usb"
    DATA_PLANE = "v2_header"
    CODEC = "pcm24"
    MAX_CLIENTS = 2
    MAX_FRAMES = 2
    FRAGS = 2
    Transport = Transport
    Wifi = Wifi
    None = None
SYMMETRY Symmetric
SPECIFICATION PipeSpec
INVARIANTS BrokenStreamsReleased
PROPERTIES SequenceIncreases
