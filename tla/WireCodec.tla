------------------------------ MODULE WireCodec ------------------------------
(***************************************************************************)
(* The audio wire formats: the LAS1, V2 and V3 packets of                  *)
(* lan_audio_protocol, the fragmentation of PCM24 frames in data_plane.rs, *)
(* and the parser of the phone (LasPacketParser).                          *)
(*                                                                         *)
(* Bytes are numbers and a datagram is a sequence of them, because the     *)
(* formats are what the properties are about.  A header is a record; an    *)
(* encoder appends its fields one by one, and a layout says where a        *)
(* decoder looks for them.                                                 *)
(* Multi-byte fields are little-endian; numbers stay below 2^31.           *)
(***************************************************************************)
EXTENDS Integers, Sequences

CONSTANTS
    MAX_FRAG,        \* MAX_PCM24_FRAG_PAYLOAD_BYTES
    MAX_FRAGS,       \* u8::MAX, the largest number of fragments
    MAX_PAYLOAD,     \* bound: bytes of a payload
    MAX_PACKETS,     \* bound: packets encoded
    PREFERRED,       \* the sample rates clients ask for
    SOURCES,         \* the formats frames are captured in: [rate, frames]
    FIRST_SEQUENCE   \* the sequence number of the first packet

ASSUME WireSizes ==
    /\ MAX_FRAG \in Nat \ {0} /\ MAX_FRAGS \in 1..255 /\ MAX_PAYLOAD \in Nat
    /\ MAX_PACKETS \in Nat /\ FIRST_SEQUENCE \in Nat
    /\ PREFERRED \subseteq Nat /\ \A src \in SOURCES : src.rate \in Nat \ {0} /\ src.frames \in Nat

\* The numbers that are sent fit their fields: a payload size has 16 bits, and
\* the counters stay below 2^31.
ASSUME FieldsFit ==
    /\ MAX_PAYLOAD < 65536 /\ MAX_FRAG < 65536
    /\ FIRST_SEQUENCE + MAX_PACKETS + 70000 <= 2147483647

VARIABLES
    sequence,        \* the shared sequence counter
    packets,         \* the packets encoded, with their codec and data plane
    net,             \* datagrams sent: bytes, and the packet they belong to
    heard,           \* PCM24 fragments that arrived, whatever their order
    truncated        \* what was received of a datagram that was cut off

vars == <<sequence, packets, net, heard, truncated>>

(***************************************************************************)
(* Layouts.                                                                *)
(***************************************************************************)
MAGIC_LAS1 == 76 + 256 * 65 + 65536 * 83 + 16777216 * 49
MAGIC_LAV2 == 76 + 256 * 65 + 65536 * 86 + 16777216 * 50

\* Where the decoders look for the fields: <<offset, width>>.
LAS1At == [magic |-> <<0, 4>>, version |-> <<4, 1>>, flags |-> <<5, 1>>, sequence |-> <<6, 4>>,
           timestamp_ms |-> <<10, 8>>, sample_rate |-> <<18, 4>>, channels |-> <<22, 1>>,
           frames_per_packet |-> <<23, 2>>, payload_size |-> <<25, 2>>]

V2At == [magic |-> <<0, 4>>, version |-> <<4, 1>>, header_size |-> <<5, 2>>, flags |-> <<7, 2>>,
         sequence |-> <<9, 4>>, timestamp_ms |-> <<13, 8>>, codec |-> <<21, 1>>,
         channels |-> <<22, 1>>, sample_rate |-> <<23, 4>>, frame_duration_ms |-> <<27, 2>>,
         payload_size |-> <<29, 2>>, reserved |-> <<31, 2>>]

V3At == [magic |-> <<0, 4>>, version |-> <<4, 1>>, header_size |-> <<5, 2>>, flags |-> <<7, 2>>,
         sequence |-> <<9, 4>>, timestamp_ms |-> <<13, 8>>, codec |-> <<21, 1>>,
         channels |-> <<22, 1>>, sample_rate |-> <<23, 4>>, frame_duration_ms |-> <<27, 2>>,
         payload_size |-> <<29, 2>>, frag_index |-> <<31, 1>>, total_frags |-> <<32, 1>>,
         logical_seq |-> <<33, 4>>]

AUDIO_HEADER_LEN == 4 + 1 + 1 + 4 + 8 + 4 + 1 + 2 + 2
UDP_AUDIO_HEADER_V2_LEN == 4 + 1 + 2 + 2 + 4 + 8 + 1 + 1 + 4 + 2 + 2 + 2
UDP_AUDIO_HEADER_V3_LEN == UDP_AUDIO_HEADER_V2_LEN + 4

\* What a byte of a little-endian number counts.
Weight(i) == IF i = 1 THEN 1 ELSE IF i = 2 THEN 256 ELSE IF i = 3 THEN 65536 ELSE 16777216

\* (a fault: to_be_bytes for to_le_bytes)
ToBeBytes(v, n) ==
    [i \in 1..n |-> IF n - i >= 4 THEN 0 ELSE (v \div Weight(n + 1 - i)) % 256]

\* to_le_bytes of an n byte unsigned integer: it keeps what fits
ToLeBytes(v, n) == [i \in 1..n |-> IF i > 4 THEN 0 ELSE (v \div Weight(i)) % 256]

\* The byte i of the n after the first off, or 0 where there is none.
ByteAt(bytes, off, n, i) == IF i <= n /\ off + i <= Len(bytes) THEN bytes[off + i] ELSE 0

\* The number at n bytes after the first off; the top bit of a fourth byte is
\* left out.
FromLeBytes(bytes, off, n) ==
    ByteAt(bytes, off, n, 1) + 256 * ByteAt(bytes, off, n, 2)
    + 65536 * ByteAt(bytes, off, n, 3) + 16777216 * (ByteAt(bytes, off, n, 4) % 128)

\* UdpAudioPacket::encode, up to the payload
Las1Bytes(h) ==
    ToLeBytes(h.magic, 4) \o ToLeBytes(h.version, 1) \o ToLeBytes(h.flags, 1)
    \o ToLeBytes(h.sequence, 4) \o ToLeBytes(h.timestamp_ms, 8)
    \o ToLeBytes(h.sample_rate, 4) \o ToLeBytes(h.channels, 1)
    \o ToLeBytes(h.frames_per_packet, 2) \o ToLeBytes(h.payload_size, 2)

\* The fields with which UdpAudioHeaderV2::encode and UdpAudioHeaderV3::encode begin
BaseBytes(h) ==
    ToLeBytes(h.magic, 4) \o ToLeBytes(h.version, 1) \o ToLeBytes(h.header_size, 2)
    \o ToLeBytes(h.flags, 2) \o ToLeBytes(h.sequence, 4) \o ToLeBytes(h.timestamp_ms, 8)
    \o ToLeBytes(h.codec, 1) \o ToLeBytes(h.channels, 1) \o ToLeBytes(h.sample_rate, 4)
    \o ToLeBytes(h.frame_duration_ms, 2) \o ToLeBytes(h.payload_size, 2)

V2Bytes(h) == BaseBytes(h) \o ToLeBytes(h.reserved, 2)

V3Bytes(h) ==
    BaseBytes(h) \o ToLeBytes(h.frag_index, 1) \o ToLeBytes(h.total_frags, 1)
    \o ToLeBytes(h.logical_seq, 4)

DecodeHeader(at, bytes) ==
    [f \in DOMAIN at |-> FromLeBytes(bytes, at[f][1], at[f][2])]

(***************************************************************************)
(* The decoders.  Each gives an error, and the header and the payload that *)
(* count when there is none; the checks come in the order of the code.     *)
(***************************************************************************)
Codecs == [pcm16 |-> 1, f32 |-> 2, opus |-> 3, pcm24 |-> 4]

Decoded(h, len, bytes, error) ==
    [error |-> error, header |-> h, payload |-> SubSeq(bytes, len + 1, Len(bytes))]

\* (a fault: a payload that was cut off is taken as it is)
LengthAtMost(len, bytes, h) == Len(bytes) <= len + h.payload_size

LengthMatches(len, bytes, h) == Len(bytes) = len + h.payload_size

DecodeLas1(bytes) ==
    LET h == DecodeHeader(LAS1At, bytes)
        len == AUDIO_HEADER_LEN
    IN Decoded(h, len, bytes,
               IF Len(bytes) < len THEN "TooShort"
               ELSE IF h.magic # MAGIC_LAS1 THEN "InvalidMagic"
               ELSE IF ~LengthMatches(len, bytes, h) THEN "PayloadLengthMismatch"
               ELSE "none")

\* What UdpAudioHeaderV2::decode and UdpAudioHeaderV3::decode check first.
BaseError(h, len, version, bytes) ==
    IF Len(bytes) < len THEN "TooShort"
    ELSE IF h.magic # MAGIC_LAV2 THEN "InvalidMagic"
    ELSE IF h.version # version THEN "UnsupportedVersion"
    ELSE IF h.header_size # len THEN "InvalidHeaderSize"
    ELSE IF h.codec \notin 1..4 THEN "InvalidCodec"
    ELSE "none"

DecodeV2(bytes) ==
    LET h == DecodeHeader(V2At, bytes)
        len == UDP_AUDIO_HEADER_V2_LEN
        base == BaseError(h, len, 2, bytes)
    IN Decoded(h, len, bytes,
               IF base # "none" THEN base
               ELSE IF ~LengthMatches(len, bytes, h) THEN "PayloadLengthMismatch"
               ELSE "none")

DecodeV3(bytes) ==
    LET h == DecodeHeader(V3At, bytes)
        len == UDP_AUDIO_HEADER_V3_LEN
        base == BaseError(h, len, 3, bytes)
    IN Decoded(h, len, bytes,
               IF base # "none" THEN base
               ELSE IF h.total_frags = 0 \/ h.frag_index >= h.total_frags
                    THEN "InvalidFragHeader"
               ELSE IF ~LengthMatches(len, bytes, h) THEN "PayloadLengthMismatch"
               ELSE "none")

\* detect_data_plane_packet_kind
DetectKind(bytes) ==
    LET magic == FromLeBytes(bytes, 0, 4)
    IN IF Len(bytes) < 4 THEN "Unknown"
       ELSE IF magic = MAGIC_LAS1 THEN "LegacyLas1"
       ELSE IF magic = MAGIC_LAV2 THEN "V2Lav2"
       ELSE "Unknown"

(***************************************************************************)
(* The phone.  null is the empty sequence.                                 *)
(***************************************************************************)
PhonePacket(h, codec, frames, payload) ==
    << [sequence |-> h.sequence, flags |-> h.flags, codec |-> codec,
        sample_rate |-> h.sample_rate, channels |-> h.channels,
        frames_per_packet |-> frames, payload |-> payload] >>

ParseLegacy(bytes) ==
    LET h == DecodeHeader(LAS1At, bytes)
    IN IF Len(bytes) < 27 \/ Len(bytes) # 27 + h.payload_size THEN <<>>
       ELSE PhonePacket(h, Codecs.pcm16, h.frames_per_packet, SubSeq(bytes, 28, Len(bytes)))

\* (a fault: the version is not looked at)
ParseV2AnyVersion(bytes) ==
    LET h == DecodeHeader(V2At, bytes)
    IN IF \/ Len(bytes) < 33
          \/ h.header_size < 33 \/ Len(bytes) < h.header_size
          \/ Len(bytes) # h.header_size + h.payload_size
       THEN <<>>
       ELSE PhonePacket(h, h.codec, (h.sample_rate * h.frame_duration_ms) \div 1000,
                        SubSeq(bytes, h.header_size + 1, Len(bytes)))

ParseV2(bytes) ==
    LET h == DecodeHeader(V2At, bytes)
    IN IF \/ Len(bytes) < 33
          \/ h.version # 2
          \/ h.header_size < 33 \/ Len(bytes) < h.header_size
          \/ h.codec \notin {Codecs.pcm16, Codecs.opus}
          \/ Len(bytes) # h.header_size + h.payload_size
       THEN <<>>
       ELSE PhonePacket(h, h.codec, (h.sample_rate * h.frame_duration_ms) \div 1000,
                        SubSeq(bytes, h.header_size + 1, Len(bytes)))

PhoneParse(bytes) ==
    IF DetectKind(bytes) = "LegacyLas1" THEN ParseLegacy(bytes)
    ELSE IF DetectKind(bytes) = "V2Lav2" THEN ParseV2(bytes)
    ELSE <<>>

(***************************************************************************)
(* Encoding.                                                               *)
(***************************************************************************)
\* normalize_encoder_sample_rate: the rates Opus knows, or 48 kHz
NormalizeEncoderSampleRate(rate) ==
    IF rate \in {8000, 12000, 16000, 24000, 48000} THEN rate ELSE 48000

\* pcm24_target_sample_rate
Pcm24TargetSampleRate(rate) == IF rate > 96000 THEN 96000 ELSE rate

\* encode_pcm16_from_samples: 10 ms, whatever the length of the captured frame
Pcm16Frame(preferred) ==
    LET rate == NormalizeEncoderSampleRate(preferred)
    IN [rate |-> rate, frames |-> rate \div 100]

\* ExperimentalOpusEncoder::encode: 20 ms
OpusFrame(preferred) ==
    LET rate == NormalizeEncoderSampleRate(preferred)
    IN [rate |-> rate, frames |-> rate \div 50]

\* encode_pcm24_from_native: the captured frame, resampled above 96 kHz
Pcm24Frame(src) ==
    LET rate == Pcm24TargetSampleRate(src.rate)
    IN [rate |-> rate, frames |-> (src.frames * rate) \div src.rate]

\* AudioFrameEncoder::encode: the frames an encoder may return
EncodedFrames(codec) ==
    IF codec = "pcm16" THEN {Pcm16Frame(rate) : rate \in PREFERRED}
    ELSE IF codec = "opus" THEN {OpusFrame(rate) : rate \in PREFERRED}
    ELSE {Pcm24Frame(src) : src \in SOURCES}

UDP_FLAG_V2_SILENCE == 1
UDP_FLAG_V2_CONFIG_CHANGED == 2
UDP_FLAG_V2_DISCONTINUITY == 4

LegacyFlagsForFrame(silent) == IF silent THEN UDP_FLAG_V2_SILENCE ELSE 0

V2FlagsForFrame(flags, mode_changed, first) ==
    (IF flags % 2 = 1 THEN UDP_FLAG_V2_SILENCE ELSE 0)
    + (IF mode_changed THEN UDP_FLAG_V2_CONFIG_CHANGED + UDP_FLAG_V2_DISCONTINUITY
       ELSE IF first THEN UDP_FLAG_V2_DISCONTINUITY ELSE 0)

Las1Header(p) ==
    [magic |-> MAGIC_LAS1, version |-> 1, flags |-> p.flags,
     sequence |-> p.sequence, timestamp_ms |-> p.timestamp_ms,
     sample_rate |-> p.sample_rate, channels |-> p.channels,
     frames_per_packet |-> p.frames_per_packet, payload_size |-> Len(p.payload)]

EncodeLas1(p) == Las1Bytes(Las1Header(p)) \o p.payload

FrameDurationMs(p) ==
    IF p.sample_rate = 0 THEN 0 ELSE (p.frames_per_packet * 1000) \div p.sample_rate

\* build_v2_header_preview
V2Header(p) ==
    [magic |-> MAGIC_LAV2, version |-> 2, header_size |-> UDP_AUDIO_HEADER_V2_LEN,
     flags |-> p.v2_flags, sequence |-> p.sequence, timestamp_ms |-> p.timestamp_ms,
     codec |-> Codecs[p.codec], channels |-> p.channels, sample_rate |-> p.sample_rate,
     frame_duration_ms |-> FrameDurationMs(p), payload_size |-> Len(p.payload),
     reserved |-> 0]

EncodeV2(p) == V2Bytes(V2Header(p)) \o p.payload

\* The header of fragment index of total, which holds chunk.
V3Header(p, chunk, index, total) ==
    [magic |-> MAGIC_LAV2, version |-> 3, header_size |-> UDP_AUDIO_HEADER_V3_LEN,
     flags |-> p.v2_flags, sequence |-> p.sequence + index,
     timestamp_ms |-> p.timestamp_ms, codec |-> Codecs[p.codec],
     channels |-> p.channels, sample_rate |-> p.sample_rate,
     frame_duration_ms |-> FrameDurationMs(p), payload_size |-> Len(chunk),
     frag_index |-> index, total_frags |-> total, logical_seq |-> p.sequence]

EncodeV3(p, chunk, index, total) == V3Bytes(V3Header(p, chunk, index, total)) \o chunk

TotalFrags(n) == IF n = 0 THEN 1 ELSE (n + MAX_FRAG - 1) \div MAX_FRAG

\* (a fault: the end of a chunk is one byte too far)
ChunkOverlapping(payload, index) ==
    LET end == (index + 1) * MAX_FRAG + 1
    IN SubSeq(payload, index * MAX_FRAG + 1, IF end < Len(payload) THEN end ELSE Len(payload))

Chunk(payload, index) ==
    LET end == (index + 1) * MAX_FRAG
    IN SubSeq(payload, index * MAX_FRAG + 1, IF end < Len(payload) THEN end ELSE Len(payload))

\* encode_packets_by_data_plane: the datagrams of a packet
EncodePackets(p) ==
    LET total == TotalFrags(Len(p.payload))
    IN IF p.codec # "pcm24" THEN << IF p.plane = "LegacyLas1" THEN EncodeLas1(p) ELSE EncodeV2(p) >>
       ELSE IF p.plane = "LegacyLas1" \/ total > MAX_FRAGS THEN <<>>
       ELSE [i \in 1..total |-> EncodeV3(p, Chunk(p.payload, i - 1), i - 1, total)]

(***************************************************************************)
(* The sender, the network and the receivers.                              *)
(***************************************************************************)
Init ==
    /\ sequence = FIRST_SEQUENCE
    /\ packets = {} /\ net = {} /\ heard = {}
    /\ truncated = <<>>

\* The pairs of data plane and codec a client can have (negotiate_session_path,
\* set_client_mode and the fallback to PCM16).
Kinds == {<<"LegacyLas1", "pcm16">>, <<"V2Header", "pcm16">>, <<"V2Header", "opus">>,
          <<"V2Header", "pcm24">>}

\* The encode worker makes the datagrams of one packet; fragments after the
\* first take further sequence numbers.
SendPacket(kind, encoded, silent, mode_changed, n) ==
    LET flags == LegacyFlagsForFrame(silent)
        p == [plane |-> kind[1], codec |-> kind[2], sequence |-> sequence,
              timestamp_ms |-> 70000 + sequence, flags |-> flags,
              v2_flags |-> V2FlagsForFrame(flags, mode_changed, packets = {}),
              sample_rate |-> encoded.rate, channels |-> 2,
              frames_per_packet |-> encoded.frames,
              payload |-> [i \in 1..n |-> (16 * sequence + i) % 256]]
        out == EncodePackets(p)
    IN /\ sequence < FIRST_SEQUENCE + MAX_PACKETS
       /\ truncated = <<>>
       /\ sequence' = sequence + (IF Len(out) > 1 THEN Len(out) ELSE 1)
       /\ packets' = packets \cup {p}
       /\ net' = net \cup {[bytes |-> out[i], of |-> p] : i \in DOMAIN out}
       /\ UNCHANGED <<heard, truncated>>

\* A fragment arrives: perhaps never, twice, or after one sent later.
Deliver(d) ==
    /\ d.of.codec = "pcm24"
    /\ d \notin heard
    /\ heard' = heard \cup {d}
    /\ UNCHANGED <<sequence, packets, net, truncated>>

\* A datagram that does not fit the buffer of the receiver is cut off.  (Nothing
\* depends on it, so that no packet is sent after it here.)
Truncate(d, cut) ==
    /\ truncated = <<>> /\ heard = {}
    /\ \A p \in packets : p = d.of
    /\ truncated' = SubSeq(d.bytes, 1, cut)
    /\ UNCHANGED <<sequence, packets, net, heard>>

Next ==
    \/ \E kind \in Kinds, silent \in BOOLEAN, mode_changed \in BOOLEAN, n \in 0..MAX_PAYLOAD :
          \E encoded \in EncodedFrames(kind[2]) :
              SendPacket(kind, encoded, silent, mode_changed, n)
    \/ \E d \in net : Deliver(d)
    \/ \E d \in net : \E cut \in 1..(Len(d.bytes) - 1) : Truncate(d, cut)

Spec == Init /\ [][Next]_vars

(***************************************************************************)
(* Properties.                                                             *)
(***************************************************************************)
Decoders(bytes) == <<DecodeLas1(bytes), DecodeV2(bytes), DecodeV3(bytes)>>
FlagsSent(p) == IF p.plane = "LegacyLas1" THEN p.flags ELSE p.v2_flags
Accepted(bytes) == {k \in 1..3 : Decoders(bytes)[k].error = "none"}

\* Every datagram is accepted by exactly one decoder, that of the format it was
\* encoded in, which gives back what the packet said: V2 and V3 share a magic,
\* so it is the version and the header size that keep them apart.
RoundTrip ==
    \A d \in net :
        LET k == IF d.of.plane = "LegacyLas1" THEN 1 ELSE IF d.of.codec = "pcm24" THEN 3 ELSE 2
            r == Decoders(d.bytes)[k]
        IN /\ Accepted(d.bytes) = {k}
           /\ \A f \in {"timestamp_ms", "sample_rate", "channels"} : r.header[f] = d.of[f]
           /\ r.header.flags = FlagsSent(d.of)
           /\ k # 3 => r.payload = d.of.payload /\ r.header.sequence = d.of.sequence
           /\ k = 3 => r.header.logical_seq = d.of.sequence

\* A datagram that was cut off anywhere is accepted by no decoder, the phone's
\* included: also where what is left is a complete header, or a complete header
\* of the shorter format.
TruncatedRejected ==
    truncated # <<>> => Accepted(truncated) = {} /\ PhoneParse(truncated) = <<>>

\* The phone plays what the server sent: its parser accepts exactly the LAS1
\* and V2 packets, never a PCM24 fragment that looks like V2, and reads the same
\* values.  The V2 header has a duration in whole milliseconds in place of the
\* number of frames; every rate the encoder is normalized to gives it back.
PhoneAgrees ==
    \A d \in net :
        LET r == PhoneParse(d.bytes) IN
        IF d.of.codec = "pcm24" THEN r = <<>>
        ELSE /\ r # <<>>
             /\ \A f \in {"sequence", "sample_rate", "channels", "frames_per_packet", "payload"} :
                    r[1][f] = d.of[f]
             /\ r[1].flags = FlagsSent(d.of)
             /\ r[1].codec = Codecs[d.of.codec]

\* s is what parts 1 to n give when they are put one behind the other: part i
\* takes the bytes of s behind the first at[i - 1], up to at[i].
IsConcatenation(s, n, parts) ==
    \E at \in [0..n -> 0..Len(s)] :
        /\ at[0] = 0 /\ at[n] = Len(s)
        /\ \A i \in 1..n : /\ at[i] = at[i - 1] + Len(parts[i])
                           /\ \A k \in 1..Len(parts[i]) : s[at[i - 1] + k] = parts[i][k]

\* The fragments of one logical frame, as a reassembler keyed on logical_seq
\* would collect them from what arrived.
Collected(seq) ==
    {r \in {DecodeV3(d.bytes) : d \in heard} : r.header.logical_seq = seq}

\* Once every fragment of a frame has arrived, in whatever order and between
\* those of other frames, putting them in the order of frag_index gives the
\* frame's payload, and their sequence numbers follow each other.
FragmentsReassemble ==
    \A p \in packets : p.codec = "pcm24" =>
        LET got == Collected(p.sequence)
            part(i) == CHOOSE r \in got : r.header.frag_index = i
            total == TotalFrags(Len(p.payload))
        IN {r.header.frag_index : r \in got} = 0..(total - 1) =>
               /\ IsConcatenation(p.payload, total, [i \in 1..total |-> part(i - 1).payload])
               /\ \A r \in got : /\ r.header.total_frags = total
                                 /\ r.header.sequence = p.sequence + r.header.frag_index
=============================================================================
