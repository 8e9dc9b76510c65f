CONSTANTS
    MAX_FRAG = 2
    MAX_FRAGS = 3
    MAX_PAYLOAD = 7
    MAX_PACKETS = 2
    PREFERRED <- MCPreferred
    SOURCES <- MCSources
    FIRST_SEQUENCE = 255
SPECIFICATION Spec
INVARIANTS RoundTrip TruncatedRejected PhoneAgrees FragmentsReassemble
CHECK_DEADLOCK FALSE
