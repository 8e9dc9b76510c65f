--------------------------- MODULE WireCodecProofs ---------------------------
(***************************************************************************)
(* Theorems about WireCodec for every payload a 16 bit size can name,      *)
(* every size of a fragment, every set of rates and formats, and any       *)
(* number of packets.                                                      *)
(***************************************************************************)
EXTENDS WireCodec, TLAPS, SequenceTheorems

Byte == 0..255

(***************************************************************************)
(* Fields: where a number is written, and that it is read back.            *)
(***************************************************************************)

\* The n bytes of v are those behind the first off bytes.
Holds(bytes, off, v, n) ==
    /\ off + n <= Len(bytes)
    /\ \A i \in 1..n : bytes[off + i] = ToLeBytes(v, n)[i]

\* s begins with p.
Begins(s, p) ==
    /\ Len(p) <= Len(s)
    /\ \A i \in 1..Len(p) : s[i] = p[i]

\* v fits n bytes, and what the model keeps of four or more.
Fits(v, n) == v <= IF n = 1 THEN 255 ELSE IF n = 2 THEN 65535 ELSE 2147483647

\* to_le_bytes gives n bytes.
LEMMA LeBytes ==
    ASSUME NEW v \in Nat, NEW n \in Nat
    PROVE  ToLeBytes(v, n) \in Seq(Byte) /\ Len(ToLeBytes(v, n)) = n
<1>1. ASSUME NEW i \in 1..n
      PROVE  (IF i > 4 THEN 0 ELSE (v \div Weight(i)) % 256) \in Byte
  <2>1. Weight(i) \in {1, 256, 65536, 16777216}
    BY SMT DEF Weight
  <2> QED BY <2>1, SMT DEF Byte
<1>2. ToLeBytes(v, n) \in [1..n -> Byte]
  BY <1>1 DEF ToLeBytes
<1> QED BY <1>2

\* The first field is at the beginning.
LEMMA StartField ==
    ASSUME NEW v \in Nat, NEW n \in Nat
    PROVE  /\ ToLeBytes(v, n) \in Seq(Byte) /\ Len(ToLeBytes(v, n)) = n
           /\ Holds(ToLeBytes(v, n), 0, v, n)
<1>1. ToLeBytes(v, n) \in Seq(Byte) /\ Len(ToLeBytes(v, n)) = n
  BY LeBytes
<1>2. \A i \in 1..n : 0 + i = i
  OBVIOUS
<1> QED BY <1>1, <1>2 DEF Holds

Put(p, v, n) == p \o ToLeBytes(v, n)

Appended(s, p, v, n) ==
    /\ s \in Seq(Byte) /\ Len(s) = Len(p) + n
    /\ Holds(s, Len(p), v, n)
    /\ Begins(s, p)

\* A field that is appended is where the bytes ended, and nothing before it
\* changes.
LEMMA AppendField ==
    ASSUME NEW p \in Seq(Byte), NEW v \in Nat, NEW n \in Nat
    PROVE  Appended(Put(p, v, n), p, v, n)
<1> DEFINE b == ToLeBytes(v, n)
           s == Put(p, v, n)
<1>1. b \in Seq(Byte) /\ Len(b) = n
  BY LeBytes
<1>2. s = p \o b
  BY DEF Put
<1> HIDE DEF b, s
<1>3. s \in Seq(Byte) /\ Len(s) = Len(p) + n
  BY <1>1, <1>2, ConcatProperties
<1>4. \A i \in 1..n : s[Len(p) + i] = b[i]
  BY <1>1, <1>2
<1>5. \A i \in 1..Len(p) : s[i] = p[i]
  BY <1>1, <1>2
<1>6. Appended(s, p, v, n)
  BY <1>3, <1>4, <1>5 DEF b, Holds, Begins, Appended
<1> QED BY <1>6 DEF s

\* A payload is what is behind its header.
LEMMA AppendPayload ==
    ASSUME NEW p \in Seq(Byte), NEW q \in Seq(Byte)
    PROVE  /\ p \o q \in Seq(Byte) /\ Len(p \o q) = Len(p) + Len(q)
           /\ Begins(p \o q, p)
           /\ SubSeq(p \o q, Len(p) + 1, Len(p \o q)) = q
<1>1. p \o q \in Seq(Byte) /\ Len(p \o q) = Len(p) + Len(q)
  OBVIOUS
<1>2. \A i \in 1..Len(p) : (p \o q)[i] = p[i]
  OBVIOUS
<1>3. \A i \in 1..Len(q) : (p \o q)[Len(p) + i] = q[i]
  OBVIOUS
<1>4. SubSeq(p \o q, Len(p) + 1, Len(p \o q)) = q
  <2> DEFINE r == SubSeq(p \o q, Len(p) + 1, Len(p \o q))
  <2>1. r \in Seq(Byte) /\ Len(r) = Len(q)
    BY <1>1, SubSeqProperties
  <2>2. \A i \in 1..Len(q) : r[i] = q[i]
    BY <1>1, <1>3, SubSeqProperties
  <2> QED BY <2>1, <2>2, SeqEqual
<1> QED BY <1>1, <1>2, <1>4 DEF Begins

LEMMA BeginsTrans ==
    ASSUME NEW p \in Seq(Byte), NEW q \in Seq(Byte), NEW s \in Seq(Byte),
           Begins(q, p), Begins(s, q)
    PROVE  Begins(s, p)
BY DEF Begins

\* A field stays where it is in whatever begins with it.
LEMMA BeginsHolds ==
    ASSUME NEW p \in Seq(Byte), NEW s \in Seq(Byte), Begins(s, p),
           NEW off \in Nat, NEW v \in Nat, NEW n \in Nat, Holds(p, off, v, n)
    PROVE  Holds(s, off, v, n)
BY DEF Begins, Holds

\* So it is in what is left of the bytes, unless the cut is before its end.
LEMMA CutHolds ==
    ASSUME NEW s \in Seq(Byte), NEW c \in 0..Len(s),
           NEW off \in Nat, NEW v \in Nat, NEW n \in Nat, Holds(s, off, v, n), off + n <= c
    PROVE  Holds(SubSeq(s, 1, c), off, v, n)
<1>1. SubSeq(s, 1, c) \in Seq(Byte) /\ Len(SubSeq(s, 1, c)) = c
  OBVIOUS
<1>2. \A i \in 1..c : SubSeq(s, 1, c)[i] = s[i]
  OBVIOUS
<1> QED BY <1>1, <1>2 DEF Holds

\* The base 256 digits of a number below 2^31.
LEMMA Digits ==
    ASSUME NEW v \in Nat, v <= 2147483647
    PROVE  v = (v % 256) + 256 * ((v \div 256) % 256) + 65536 * ((v \div 65536) % 256)
               + 16777216 * (((v \div 16777216) % 256) % 128)
BY SMT

\* from_le_bytes gives back what to_le_bytes wrote.
LEMMA ReadBack ==
    ASSUME NEW bytes \in Seq(Byte), NEW off \in Nat, NEW v \in Nat,
           NEW n \in {1, 2, 4, 8}, Holds(bytes, off, v, n), Fits(v, n)
    PROVE  FromLeBytes(bytes, off, n) = v
<1>1. \A i \in 1..4 : i <= n => ByteAt(bytes, off, n, i) = (v \div Weight(i)) % 256
  BY SMT DEF Holds, ByteAt, ToLeBytes
<1>2. \A i \in 1..4 : i > n => ByteAt(bytes, off, n, i) = 0
  BY SMT DEF ByteAt
<1>3. Weight(1) = 1 /\ Weight(2) = 256 /\ Weight(3) = 65536 /\ Weight(4) = 16777216
  BY SMT DEF Weight
<1>4. CASE n = 1
  BY <1>1, <1>2, <1>3, <1>4, SMT DEF FromLeBytes, Fits
<1>5. CASE n = 2
  BY <1>1, <1>2, <1>3, <1>5, SMT DEF FromLeBytes, Fits
<1>6. CASE n \in {4, 8}
  <2> DEFINE d1 == v % 256
             d2 == (v \div 256) % 256
             d3 == (v \div 65536) % 256
             d4 == (v \div 16777216) % 256
  <2>1. v <= 2147483647
    BY <1>6, SMT DEF Fits
  <2>2. v = d1 + 256 * d2 + 65536 * d3 + 16777216 * (d4 % 128)
    BY <2>1, Digits, SMT
  <2>3. /\ ByteAt(bytes, off, n, 1) = d1 /\ ByteAt(bytes, off, n, 2) = d2
        /\ ByteAt(bytes, off, n, 3) = d3 /\ ByteAt(bytes, off, n, 4) = d4
    BY <1>1, <1>3, <1>6, SMT
  <2>4. d1 \in Nat /\ d2 \in Nat /\ d3 \in Nat /\ d4 \in Nat
    BY SMT
  <2> HIDE DEF d1, d2, d3, d4
  <2>5. 16777216 * (ByteAt(bytes, off, n, 4) % 128) = 16777216 * (d4 % 128)
    BY <2>3, SMT
  <2>6. FromLeBytes(bytes, off, n)
          = d1 + 256 * d2 + 65536 * d3 + 16777216 * (ByteAt(bytes, off, n, 4) % 128)
    BY <2>3, <2>4, SMTT(30) DEF FromLeBytes
  <2> QED BY <2>2, <2>5, <2>6, SMT
<1> QED BY <1>4, <1>5, <1>6, SMT

(***************************************************************************)
(* Formats: every encoder puts its fields where the decoders look.         *)
(***************************************************************************)

Las1Fields == [magic : Nat, version : Nat, flags : Nat, sequence : Nat, timestamp_ms : Nat,
    sample_rate : Nat, channels : Nat, frames_per_packet : Nat, payload_size : Nat]
V2Fields == [magic : Nat, version : Nat, header_size : Nat, flags : Nat, sequence : Nat,
    timestamp_ms : Nat, codec : Nat, channels : Nat, sample_rate : Nat, frame_duration_ms :
    Nat, payload_size : Nat, reserved : Nat]
V3Fields == [magic : Nat, version : Nat, header_size : Nat, flags : Nat, sequence : Nat,
    timestamp_ms : Nat, codec : Nat, channels : Nat, sample_rate : Nat, frame_duration_ms :
    Nat, payload_size : Nat, frag_index : Nat, total_frags : Nat, logical_seq : Nat]

\* UdpAudioPacket::encode
LEMMA Las1Format ==
    ASSUME NEW h \in Las1Fields
    PROVE  /\ Las1Bytes(h) \in Seq(Byte) /\ Len(Las1Bytes(h)) = 27
           /\ Holds(Las1Bytes(h), 0, h.magic, 4) /\ Holds(Las1Bytes(h), 4, h.version, 1)
           /\ Holds(Las1Bytes(h), 5, h.flags, 1) /\ Holds(Las1Bytes(h), 6, h.sequence, 4)
           /\ Holds(Las1Bytes(h), 10, h.timestamp_ms, 8)
           /\ Holds(Las1Bytes(h), 18, h.sample_rate, 4)
           /\ Holds(Las1Bytes(h), 22, h.channels, 1)
           /\ Holds(Las1Bytes(h), 23, h.frames_per_packet, 2)
           /\ Holds(Las1Bytes(h), 25, h.payload_size, 2)
<1> DEFINE s1 == ToLeBytes(h.magic, 4)
           s2 == Put(s1, h.version, 1)
           s3 == Put(s2, h.flags, 1)
           s4 == Put(s3, h.sequence, 4)
           s5 == Put(s4, h.timestamp_ms, 8)
           s6 == Put(s5, h.sample_rate, 4)
           s7 == Put(s6, h.channels, 1)
           s8 == Put(s7, h.frames_per_packet, 2)
           s9 == Put(s8, h.payload_size, 2)
<1>n. /\ h.magic \in Nat /\ h.version \in Nat /\ h.flags \in Nat
      /\ h.sequence \in Nat /\ h.timestamp_ms \in Nat /\ h.sample_rate \in Nat
      /\ h.channels \in Nat /\ h.frames_per_packet \in Nat /\ h.payload_size \in Nat
  BY DEF Las1Fields
<1>s. Las1Bytes(h) = s9
  BY DEF Las1Bytes, Put
<1>1. s1 \in Seq(Byte) /\ Len(s1) = 4 /\ Holds(s1, 0, h.magic, 4)
  BY <1>n, StartField
<1>e. /\ s2 = Put(s1, h.version, 1)
      /\ s3 = Put(s2, h.flags, 1)
      /\ s4 = Put(s3, h.sequence, 4)
      /\ s5 = Put(s4, h.timestamp_ms, 8)
      /\ s6 = Put(s5, h.sample_rate, 4)
      /\ s7 = Put(s6, h.channels, 1)
      /\ s8 = Put(s7, h.frames_per_packet, 2)
      /\ s9 = Put(s8, h.payload_size, 2)
  OBVIOUS
<1> HIDE DEF s1, s2, s3, s4, s5, s6, s7, s8, s9
<1>2. /\ s2 \in Seq(Byte) /\ Len(s2) = 5
      /\ Holds(s2, 4, h.version, 1) /\ Begins(s2, s1)
  <2>1. Appended(s2, s1, h.version, 1)
    BY <1>n, <1>e, <1>1, AppendField
  <2> QED BY <2>1, <1>1 DEF Appended
<1>3. /\ s3 \in Seq(Byte) /\ Len(s3) = 6
      /\ Holds(s3, 5, h.flags, 1) /\ Begins(s3, s2)
  <2>1. Appended(s3, s2, h.flags, 1)
    BY <1>n, <1>e, <1>2, AppendField
  <2> QED BY <2>1, <1>2 DEF Appended
<1>4. /\ s4 \in Seq(Byte) /\ Len(s4) = 10
      /\ Holds(s4, 6, h.sequence, 4) /\ Begins(s4, s3)
  <2>1. Appended(s4, s3, h.sequence, 4)
    BY <1>n, <1>e, <1>3, AppendField
  <2> QED BY <2>1, <1>3 DEF Appended
<1>5. /\ s5 \in Seq(Byte) /\ Len(s5) = 18
      /\ Holds(s5, 10, h.timestamp_ms, 8) /\ Begins(s5, s4)
  <2>1. Appended(s5, s4, h.timestamp_ms, 8)
    BY <1>n, <1>e, <1>4, AppendField
  <2> QED BY <2>1, <1>4 DEF Appended
<1>6. /\ s6 \in Seq(Byte) /\ Len(s6) = 22
      /\ Holds(s6, 18, h.sample_rate, 4) /\ Begins(s6, s5)
  <2>1. Appended(s6, s5, h.sample_rate, 4)
    BY <1>n, <1>e, <1>5, AppendField
  <2> QED BY <2>1, <1>5 DEF Appended
<1>7. /\ s7 \in Seq(Byte) /\ Len(s7) = 23
      /\ Holds(s7, 22, h.channels, 1) /\ Begins(s7, s6)
  <2>1. Appended(s7, s6, h.channels, 1)
    BY <1>n, <1>e, <1>6, AppendField
  <2> QED BY <2>1, <1>6 DEF Appended
<1>8. /\ s8 \in Seq(Byte) /\ Len(s8) = 25
      /\ Holds(s8, 23, h.frames_per_packet, 2) /\ Begins(s8, s7)
  <2>1. Appended(s8, s7, h.frames_per_packet, 2)
    BY <1>n, <1>e, <1>7, AppendField
  <2> QED BY <2>1, <1>7 DEF Appended
<1>9. /\ s9 \in Seq(Byte) /\ Len(s9) = 27
      /\ Holds(s9, 25, h.payload_size, 2) /\ Begins(s9, s8)
  <2>1. Appended(s9, s8, h.payload_size, 2)
    BY <1>n, <1>e, <1>8, AppendField
  <2> QED BY <2>1, <1>8 DEF Appended
<1>10. Begins(s9, s8) /\ Holds(s9, 23, h.frames_per_packet, 2)
  BY <1>n, <1>8, <1>9, BeginsHolds
<1>11. Begins(s9, s7) /\ Holds(s9, 22, h.channels, 1)
  BY <1>n, <1>7, <1>8, <1>9, <1>10, BeginsTrans, BeginsHolds
<1>12. Begins(s9, s6) /\ Holds(s9, 18, h.sample_rate, 4)
  BY <1>n, <1>6, <1>7, <1>9, <1>11, BeginsTrans, BeginsHolds
<1>13. Begins(s9, s5) /\ Holds(s9, 10, h.timestamp_ms, 8)
  BY <1>n, <1>5, <1>6, <1>9, <1>12, BeginsTrans, BeginsHolds
<1>14. Begins(s9, s4) /\ Holds(s9, 6, h.sequence, 4)
  BY <1>n, <1>4, <1>5, <1>9, <1>13, BeginsTrans, BeginsHolds
<1>15. Begins(s9, s3) /\ Holds(s9, 5, h.flags, 1)
  BY <1>n, <1>3, <1>4, <1>9, <1>14, BeginsTrans, BeginsHolds
<1>16. Begins(s9, s2) /\ Holds(s9, 4, h.version, 1)
  BY <1>n, <1>2, <1>3, <1>9, <1>15, BeginsTrans, BeginsHolds
<1>17. Begins(s9, s1) /\ Holds(s9, 0, h.magic, 4)
  BY <1>n, <1>1, <1>2, <1>9, <1>16, BeginsTrans, BeginsHolds
<1> QED BY <1>s, <1>9, <1>10, <1>11, <1>12, <1>13, <1>14, <1>15, <1>16, <1>17

\* What UdpAudioHeaderV2::encode and UdpAudioHeaderV3::encode begin with
LEMMA BaseFormat ==
    ASSUME NEW h, h \in V2Fields \/ h \in V3Fields
    PROVE  /\ BaseBytes(h) \in Seq(Byte) /\ Len(BaseBytes(h)) = 31
           /\ Holds(BaseBytes(h), 0, h.magic, 4) /\ Holds(BaseBytes(h), 4, h.version, 1)
           /\ Holds(BaseBytes(h), 5, h.header_size, 2) /\ Holds(BaseBytes(h), 7, h.flags, 2)
           /\ Holds(BaseBytes(h), 9, h.sequence, 4) /\ Holds(BaseBytes(h), 13, h.timestamp_ms, 8)
           /\ Holds(BaseBytes(h), 21, h.codec, 1) /\ Holds(BaseBytes(h), 22, h.channels, 1)
           /\ Holds(BaseBytes(h), 23, h.sample_rate, 4)
           /\ Holds(BaseBytes(h), 27, h.frame_duration_ms, 2)
           /\ Holds(BaseBytes(h), 29, h.payload_size, 2)
<1> DEFINE s1 == ToLeBytes(h.magic, 4)
           s2 == Put(s1, h.version, 1)
           s3 == Put(s2, h.header_size, 2)
           s4 == Put(s3, h.flags, 2)
           s5 == Put(s4, h.sequence, 4)
           s6 == Put(s5, h.timestamp_ms, 8)
           s7 == Put(s6, h.codec, 1)
           s8 == Put(s7, h.channels, 1)
           s9 == Put(s8, h.sample_rate, 4)
           s10 == Put(s9, h.frame_duration_ms, 2)
           s11 == Put(s10, h.payload_size, 2)
<1>n. /\ h.magic \in Nat /\ h.version \in Nat /\ h.header_size \in Nat
      /\ h.flags \in Nat /\ h.sequence \in Nat /\ h.timestamp_ms \in Nat
      /\ h.codec \in Nat /\ h.channels \in Nat /\ h.sample_rate \in Nat
      /\ h.frame_duration_ms \in Nat /\ h.payload_size \in Nat
  BY DEF V2Fields, V3Fields
<1>s. BaseBytes(h) = s11
  BY DEF BaseBytes, Put
<1>1. s1 \in Seq(Byte) /\ Len(s1) = 4 /\ Holds(s1, 0, h.magic, 4)
  BY <1>n, StartField
<1>e. /\ s2 = Put(s1, h.version, 1)
      /\ s3 = Put(s2, h.header_size, 2)
      /\ s4 = Put(s3, h.flags, 2)
      /\ s5 = Put(s4, h.sequence, 4)
      /\ s6 = Put(s5, h.timestamp_ms, 8)
      /\ s7 = Put(s6, h.codec, 1)
      /\ s8 = Put(s7, h.channels, 1)
      /\ s9 = Put(s8, h.sample_rate, 4)
      /\ s10 = Put(s9, h.frame_duration_ms, 2)
      /\ s11 = Put(s10, h.payload_size, 2)
  OBVIOUS
<1> HIDE DEF s1, s2, s3, s4, s5, s6, s7, s8, s9, s10, s11
<1>2. /\ s2 \in Seq(Byte) /\ Len(s2) = 5
      /\ Holds(s2, 4, h.version, 1) /\ Begins(s2, s1)
  <2>1. Appended(s2, s1, h.version, 1)
    BY <1>n, <1>e, <1>1, AppendField
  <2> QED BY <2>1, <1>1 DEF Appended
<1>3. /\ s3 \in Seq(Byte) /\ Len(s3) = 7
      /\ Holds(s3, 5, h.header_size, 2) /\ Begins(s3, s2)
  <2>1. Appended(s3, s2, h.header_size, 2)
    BY <1>n, <1>e, <1>2, AppendField
  <2> QED BY <2>1, <1>2 DEF Appended
<1>4. /\ s4 \in Seq(Byte) /\ Len(s4) = 9
      /\ Holds(s4, 7, h.flags, 2) /\ Begins(s4, s3)
  <2>1. Appended(s4, s3, h.flags, 2)
    BY <1>n, <1>e, <1>3, AppendField
  <2> QED BY <2>1, <1>3 DEF Appended
<1>5. /\ s5 \in Seq(Byte) /\ Len(s5) = 13
      /\ Holds(s5, 9, h.sequence, 4) /\ Begins(s5, s4)
  <2>1. Appended(s5, s4, h.sequence, 4)
    BY <1>n, <1>e, <1>4, AppendField
  <2> QED BY <2>1, <1>4 DEF Appended
<1>6. /\ s6 \in Seq(Byte) /\ Len(s6) = 21
      /\ Holds(s6, 13, h.timestamp_ms, 8) /\ Begins(s6, s5)
  <2>1. Appended(s6, s5, h.timestamp_ms, 8)
    BY <1>n, <1>e, <1>5, AppendField
  <2> QED BY <2>1, <1>5 DEF Appended
<1>7. /\ s7 \in Seq(Byte) /\ Len(s7) = 22
      /\ Holds(s7, 21, h.codec, 1) /\ Begins(s7, s6)
  <2>1. Appended(s7, s6, h.codec, 1)
    BY <1>n, <1>e, <1>6, AppendField
  <2> QED BY <2>1, <1>6 DEF Appended
<1>8. /\ s8 \in Seq(Byte) /\ Len(s8) = 23
      /\ Holds(s8, 22, h.channels, 1) /\ Begins(s8, s7)
  <2>1. Appended(s8, s7, h.channels, 1)
    BY <1>n, <1>e, <1>7, AppendField
  <2> QED BY <2>1, <1>7 DEF Appended
<1>9. /\ s9 \in Seq(Byte) /\ Len(s9) = 27
      /\ Holds(s9, 23, h.sample_rate, 4) /\ Begins(s9, s8)
  <2>1. Appended(s9, s8, h.sample_rate, 4)
    BY <1>n, <1>e, <1>8, AppendField
  <2> QED BY <2>1, <1>8 DEF Appended
<1>10. /\ s10 \in Seq(Byte) /\ Len(s10) = 29
      /\ Holds(s10, 27, h.frame_duration_ms, 2) /\ Begins(s10, s9)
  <2>1. Appended(s10, s9, h.frame_duration_ms, 2)
    BY <1>n, <1>e, <1>9, AppendField
  <2> QED BY <2>1, <1>9 DEF Appended
<1>11. /\ s11 \in Seq(Byte) /\ Len(s11) = 31
      /\ Holds(s11, 29, h.payload_size, 2) /\ Begins(s11, s10)
  <2>1. Appended(s11, s10, h.payload_size, 2)
    BY <1>n, <1>e, <1>10, AppendField
  <2> QED BY <2>1, <1>10 DEF Appended
<1>12. Begins(s11, s10) /\ Holds(s11, 27, h.frame_duration_ms, 2)
  BY <1>n, <1>10, <1>11, BeginsHolds
<1>13. Begins(s11, s9) /\ Holds(s11, 23, h.sample_rate, 4)
  BY <1>n, <1>9, <1>10, <1>11, <1>12, BeginsTrans, BeginsHolds,
     SMTT(30)
<1>14. Begins(s11, s8) /\ Holds(s11, 22, h.channels, 1)
  BY <1>n, <1>8, <1>9, <1>11, <1>13, BeginsTrans, BeginsHolds,
     SMTT(30)
<1>15. Begins(s11, s7) /\ Holds(s11, 21, h.codec, 1)
  BY <1>n, <1>7, <1>8, <1>11, <1>14, BeginsTrans, BeginsHolds,
     SMTT(30)
<1>16. Begins(s11, s6) /\ Holds(s11, 13, h.timestamp_ms, 8)
  BY <1>n, <1>6, <1>7, <1>11, <1>15, BeginsTrans, BeginsHolds,
     SMTT(30)
<1>17. Begins(s11, s5) /\ Holds(s11, 9, h.sequence, 4)
  BY <1>n, <1>5, <1>6, <1>11, <1>16, BeginsTrans, BeginsHolds,
     SMTT(30)
<1>18. Begins(s11, s4) /\ Holds(s11, 7, h.flags, 2)
  BY <1>n, <1>4, <1>5, <1>11, <1>17, BeginsTrans, BeginsHolds,
     SMTT(30)
<1>19. Begins(s11, s3) /\ Holds(s11, 5, h.header_size, 2)
  BY <1>n, <1>3, <1>4, <1>11, <1>18, BeginsTrans, BeginsHolds,
     SMTT(30)
<1>20. Begins(s11, s2) /\ Holds(s11, 4, h.version, 1)
  BY <1>n, <1>2, <1>3, <1>11, <1>19, BeginsTrans, BeginsHolds,
     SMTT(30)
<1>21. Begins(s11, s1) /\ Holds(s11, 0, h.magic, 4)
  BY <1>n, <1>1, <1>2, <1>11, <1>20, BeginsTrans, BeginsHolds,
     SMTT(30)
<1> QED BY <1>s, <1>11, <1>12, <1>13, <1>14, <1>15, <1>16, <1>17, <1>18, <1>19, <1>20, <1>21

\* UdpAudioHeaderV2::encode
LEMMA V2Format ==
    ASSUME NEW h \in V2Fields
    PROVE  /\ V2Bytes(h) \in Seq(Byte) /\ Len(V2Bytes(h)) = 33
           /\ Holds(V2Bytes(h), 0, h.magic, 4) /\ Holds(V2Bytes(h), 4, h.version, 1)
           /\ Holds(V2Bytes(h), 5, h.header_size, 2) /\ Holds(V2Bytes(h), 7, h.flags, 2)
           /\ Holds(V2Bytes(h), 9, h.sequence, 4) /\ Holds(V2Bytes(h), 13, h.timestamp_ms, 8)
           /\ Holds(V2Bytes(h), 21, h.codec, 1) /\ Holds(V2Bytes(h), 22, h.channels, 1)
           /\ Holds(V2Bytes(h), 23, h.sample_rate, 4)
           /\ Holds(V2Bytes(h), 27, h.frame_duration_ms, 2)
           /\ Holds(V2Bytes(h), 29, h.payload_size, 2) /\ Holds(V2Bytes(h), 31, h.reserved, 2)
<1> DEFINE s11 == BaseBytes(h)
           s12 == Put(s11, h.reserved, 2)
<1>n. /\ h.magic \in Nat /\ h.version \in Nat /\ h.header_size \in Nat
      /\ h.flags \in Nat /\ h.sequence \in Nat /\ h.timestamp_ms \in Nat
      /\ h.codec \in Nat /\ h.channels \in Nat /\ h.sample_rate \in Nat
      /\ h.frame_duration_ms \in Nat /\ h.payload_size \in Nat /\ h.reserved \in Nat
  BY DEF V2Fields
<1>s. V2Bytes(h) = s12
  BY DEF V2Bytes, Put
<1>11. /\ s11 \in Seq(Byte) /\ Len(s11) = 31
      /\ Holds(s11, 0, h.magic, 4) /\ Holds(s11, 4, h.version, 1)
      /\ Holds(s11, 5, h.header_size, 2) /\ Holds(s11, 7, h.flags, 2)
      /\ Holds(s11, 9, h.sequence, 4) /\ Holds(s11, 13, h.timestamp_ms, 8)
      /\ Holds(s11, 21, h.codec, 1) /\ Holds(s11, 22, h.channels, 1)
      /\ Holds(s11, 23, h.sample_rate, 4) /\ Holds(s11, 27, h.frame_duration_ms, 2)
      /\ Holds(s11, 29, h.payload_size, 2)
  BY BaseFormat
<1>e. /\ s12 = Put(s11, h.reserved, 2)
  OBVIOUS
<1> HIDE DEF s11, s12
<1>12. /\ s12 \in Seq(Byte) /\ Len(s12) = 33
      /\ Holds(s12, 31, h.reserved, 2) /\ Begins(s12, s11)
  <2>1. Appended(s12, s11, h.reserved, 2)
    BY <1>n, <1>e, <1>11, AppendField
  <2> QED BY <2>1, <1>11 DEF Appended
<1>13. Begins(s12, s11)
  BY <1>11, <1>12
<1>14. /\ Holds(s12, 0, h.magic, 4) /\ Holds(s12, 4, h.version, 1)
      /\ Holds(s12, 5, h.header_size, 2) /\ Holds(s12, 7, h.flags, 2)
      /\ Holds(s12, 9, h.sequence, 4) /\ Holds(s12, 13, h.timestamp_ms, 8)
      /\ Holds(s12, 21, h.codec, 1) /\ Holds(s12, 22, h.channels, 1)
      /\ Holds(s12, 23, h.sample_rate, 4) /\ Holds(s12, 27, h.frame_duration_ms, 2)
      /\ Holds(s12, 29, h.payload_size, 2)
  <2>1. \A off, v, w \in Nat : Holds(s11, off, v, w) => Holds(s12, off, v, w)
    BY <1>11, <1>12, <1>13, BeginsHolds
  <2> QED BY <1>n, <1>11, <2>1, ZenonT(30)
<1> QED BY <1>s, <1>12, <1>13, <1>14

\* UdpAudioHeaderV3::encode
LEMMA V3Format ==
    ASSUME NEW h \in V3Fields
    PROVE  /\ V3Bytes(h) \in Seq(Byte) /\ Len(V3Bytes(h)) = 37
           /\ Holds(V3Bytes(h), 0, h.magic, 4) /\ Holds(V3Bytes(h), 4, h.version, 1)
           /\ Holds(V3Bytes(h), 5, h.header_size, 2) /\ Holds(V3Bytes(h), 7, h.flags, 2)
           /\ Holds(V3Bytes(h), 9, h.sequence, 4) /\ Holds(V3Bytes(h), 13, h.timestamp_ms, 8)
           /\ Holds(V3Bytes(h), 21, h.codec, 1) /\ Holds(V3Bytes(h), 22, h.channels, 1)
           /\ Holds(V3Bytes(h), 23, h.sample_rate, 4)
           /\ Holds(V3Bytes(h), 27, h.frame_duration_ms, 2)
           /\ Holds(V3Bytes(h), 29, h.payload_size, 2) /\ Holds(V3Bytes(h), 31, h.frag_index, 1)
           /\ Holds(V3Bytes(h), 32, h.total_frags, 1) /\ Holds(V3Bytes(h), 33, h.logical_seq, 4)
<1> DEFINE s11 == BaseBytes(h)
           s12 == Put(s11, h.frag_index, 1)
           s13 == Put(s12, h.total_frags, 1)
           s14 == Put(s13, h.logical_seq, 4)
<1>n. /\ h.magic \in Nat /\ h.version \in Nat /\ h.header_size \in Nat
      /\ h.flags \in Nat /\ h.sequence \in Nat /\ h.timestamp_ms \in Nat
      /\ h.codec \in Nat /\ h.channels \in Nat /\ h.sample_rate \in Nat
      /\ h.frame_duration_ms \in Nat /\ h.payload_size \in Nat /\ h.frag_index \in Nat
      /\ h.total_frags \in Nat /\ h.logical_seq \in Nat
  BY DEF V3Fields
<1>s. V3Bytes(h) = s14
  BY DEF V3Bytes, Put
<1>11. /\ s11 \in Seq(Byte) /\ Len(s11) = 31
      /\ Holds(s11, 0, h.magic, 4) /\ Holds(s11, 4, h.version, 1)
      /\ Holds(s11, 5, h.header_size, 2) /\ Holds(s11, 7, h.flags, 2)
      /\ Holds(s11, 9, h.sequence, 4) /\ Holds(s11, 13, h.timestamp_ms, 8)
      /\ Holds(s11, 21, h.codec, 1) /\ Holds(s11, 22, h.channels, 1)
      /\ Holds(s11, 23, h.sample_rate, 4) /\ Holds(s11, 27, h.frame_duration_ms, 2)
      /\ Holds(s11, 29, h.payload_size, 2)
  BY BaseFormat
<1>e. /\ s12 = Put(s11, h.frag_index, 1)
      /\ s13 = Put(s12, h.total_frags, 1)
      /\ s14 = Put(s13, h.logical_seq, 4)
  OBVIOUS
<1> HIDE DEF s11, s12, s13, s14
<1>12. /\ s12 \in Seq(Byte) /\ Len(s12) = 32
      /\ Holds(s12, 31, h.frag_index, 1) /\ Begins(s12, s11)
  <2>1. Appended(s12, s11, h.frag_index, 1)
    BY <1>n, <1>e, <1>11, AppendField
  <2> QED BY <2>1, <1>11 DEF Appended
<1>13. /\ s13 \in Seq(Byte) /\ Len(s13) = 33
      /\ Holds(s13, 32, h.total_frags, 1) /\ Begins(s13, s12)
  <2>1. Appended(s13, s12, h.total_frags, 1)
    BY <1>n, <1>e, <1>12, AppendField
  <2> QED BY <2>1, <1>12 DEF Appended
<1>14. /\ s14 \in Seq(Byte) /\ Len(s14) = 37
      /\ Holds(s14, 33, h.logical_seq, 4) /\ Begins(s14, s13)
  <2>1. Appended(s14, s13, h.logical_seq, 4)
    BY <1>n, <1>e, <1>13, AppendField
  <2> QED BY <2>1, <1>13 DEF Appended
<1>15. Begins(s14, s13) /\ Holds(s14, 32, h.total_frags, 1)
  BY <1>n, <1>13, <1>14, BeginsHolds
<1>16. Begins(s14, s12) /\ Holds(s14, 31, h.frag_index, 1)
  BY <1>n, <1>12, <1>13, <1>14, <1>15, BeginsTrans, BeginsHolds
<1>17. Begins(s14, s11)
  BY <1>11, <1>12, <1>14, <1>16, BeginsTrans
<1>18. /\ Holds(s14, 0, h.magic, 4) /\ Holds(s14, 4, h.version, 1)
      /\ Holds(s14, 5, h.header_size, 2) /\ Holds(s14, 7, h.flags, 2)
      /\ Holds(s14, 9, h.sequence, 4) /\ Holds(s14, 13, h.timestamp_ms, 8)
      /\ Holds(s14, 21, h.codec, 1) /\ Holds(s14, 22, h.channels, 1)
      /\ Holds(s14, 23, h.sample_rate, 4) /\ Holds(s14, 27, h.frame_duration_ms, 2)
      /\ Holds(s14, 29, h.payload_size, 2)
  <2>1. \A off, v, w \in Nat : Holds(s11, off, v, w) => Holds(s14, off, v, w)
    BY <1>11, <1>14, <1>17, BeginsHolds
  <2> QED BY <1>n, <1>11, <2>1, ZenonT(30)
<1> QED BY <1>s, <1>14, <1>15, <1>16, <1>17, <1>18

(***************************************************************************)
(* Decoders: what they see of a datagram, all of it or its first c bytes.  *)
(***************************************************************************)

\* A field that is left of a datagram is read as it was written.
LEMMA ReadField ==
    ASSUME NEW bytes \in Seq(Byte), NEW c \in 0..Len(bytes), NEW off \in Nat, NEW v \in Nat,
           NEW n \in {1, 2, 4, 8}, Holds(bytes, off, v, n), Fits(v, n), off + n <= c
    PROVE  FromLeBytes(SubSeq(bytes, 1, c), off, n) = v
<1>1. SubSeq(bytes, 1, c) \in Seq(Byte)
  OBVIOUS
<1>2. Holds(SubSeq(bytes, 1, c), off, v, n)
  BY CutHolds
<1> QED BY <1>1, <1>2, ReadBack

Readable(t, head, c, off, v) ==
    /\ Holds(head, off, v, 1) /\ Fits(v, 1) /\ off + 1 <= c => FromLeBytes(t, off, 1) = v
    /\ Holds(head, off, v, 2) /\ Fits(v, 2) /\ off + 2 <= c => FromLeBytes(t, off, 2) = v
    /\ Holds(head, off, v, 4) /\ Fits(v, 4) /\ off + 4 <= c => FromLeBytes(t, off, 4) = v
    /\ Holds(head, off, v, 8) /\ Fits(v, 8) /\ off + 8 <= c => FromLeBytes(t, off, 8) = v

\* The header of a datagram, read from its first c bytes.
LEMMA ReadHeader ==
    ASSUME NEW head \in Seq(Byte), NEW payload \in Seq(Byte), NEW c \in 0..Len(head \o payload)
    PROVE  LET t == SubSeq(head \o payload, 1, c) IN
           /\ Len(head \o payload) = Len(head) + Len(payload)
           /\ t \in Seq(Byte) /\ Len(t) = c
           /\ \A off, v \in Nat : Readable(t, head, c, off, v)
<1> DEFINE bytes == head \o payload
<1>1. bytes \in Seq(Byte) /\ Len(bytes) = Len(head) + Len(payload) /\ Begins(bytes, head)
  BY AppendPayload
<1> HIDE DEF bytes
<1>2. SubSeq(bytes, 1, c) \in Seq(Byte) /\ Len(SubSeq(bytes, 1, c)) = c
  BY <1>1 DEF bytes
<1>3. ASSUME NEW off \in Nat, NEW v \in Nat, NEW n \in {1, 2, 4, 8},
             Holds(head, off, v, n), Fits(v, n), off + n <= c
      PROVE  FromLeBytes(SubSeq(bytes, 1, c), off, n) = v
  <2>1. n \in Nat /\ c \in 0..Len(bytes)
    BY DEF bytes
  <2>2. Holds(bytes, off, v, n)
    BY <1>1, <1>3, <2>1, BeginsHolds
  <2> QED BY <1>1, <1>3, <2>1, <2>2, ReadField
<1>4. \A off, v \in Nat : Readable(SubSeq(bytes, 1, c), head, c, off, v)
  BY <1>3 DEF Readable
<1> QED BY <1>1, <1>2, <1>4 DEF bytes

\* Where UdpAudioPacket::decode looks.
LEMMA Las1Looks ==
    ASSUME NEW t
    PROVE  LET h == DecodeHeader(LAS1At, t) IN
           /\ h.magic = FromLeBytes(t, 0, 4) /\ h.flags = FromLeBytes(t, 5, 1)
           /\ h.sequence = FromLeBytes(t, 6, 4) /\ h.timestamp_ms = FromLeBytes(t, 10, 8)
           /\ h.sample_rate = FromLeBytes(t, 18, 4) /\ h.channels = FromLeBytes(t, 22, 1)
           /\ h.frames_per_packet = FromLeBytes(t, 23, 2)
           /\ h.payload_size = FromLeBytes(t, 25, 2)
BY SMT DEF DecodeHeader, LAS1At

\* Where UdpAudioHeaderV2::decode looks.
LEMMA V2Looks ==
    ASSUME NEW t
    PROVE  LET h == DecodeHeader(V2At, t) IN
           /\ h.magic = FromLeBytes(t, 0, 4) /\ h.version = FromLeBytes(t, 4, 1)
           /\ h.header_size = FromLeBytes(t, 5, 2) /\ h.flags = FromLeBytes(t, 7, 2)
           /\ h.sequence = FromLeBytes(t, 9, 4) /\ h.timestamp_ms = FromLeBytes(t, 13, 8)
           /\ h.codec = FromLeBytes(t, 21, 1) /\ h.channels = FromLeBytes(t, 22, 1)
           /\ h.sample_rate = FromLeBytes(t, 23, 4)
           /\ h.frame_duration_ms = FromLeBytes(t, 27, 2)
           /\ h.payload_size = FromLeBytes(t, 29, 2)
BY SMT DEF DecodeHeader, V2At

\* Where UdpAudioHeaderV3::decode looks.
LEMMA V3Looks ==
    ASSUME NEW t
    PROVE  LET h == DecodeHeader(V3At, t) IN
           /\ h.magic = FromLeBytes(t, 0, 4) /\ h.version = FromLeBytes(t, 4, 1)
           /\ h.header_size = FromLeBytes(t, 5, 2) /\ h.flags = FromLeBytes(t, 7, 2)
           /\ h.sequence = FromLeBytes(t, 9, 4) /\ h.timestamp_ms = FromLeBytes(t, 13, 8)
           /\ h.codec = FromLeBytes(t, 21, 1) /\ h.channels = FromLeBytes(t, 22, 1)
           /\ h.sample_rate = FromLeBytes(t, 23, 4)
           /\ h.payload_size = FromLeBytes(t, 29, 2)
           /\ h.frag_index = FromLeBytes(t, 31, 1) /\ h.total_frags = FromLeBytes(t, 32, 1)
           /\ h.logical_seq = FromLeBytes(t, 33, 4)
BY SMT DEF DecodeHeader, V3At

\* The two magics are different, and fit their field.
LEMMA Magics ==
    /\ MAGIC_LAS1 \in Nat /\ MAGIC_LAV2 \in Nat /\ MAGIC_LAS1 # MAGIC_LAV2
    /\ Fits(MAGIC_LAS1, 4) /\ Fits(MAGIC_LAV2, 4)
BY SMT DEF MAGIC_LAS1, MAGIC_LAV2, Fits

LEMMA HeaderLengths ==
    AUDIO_HEADER_LEN = 27 /\ UDP_AUDIO_HEADER_V2_LEN = 33 /\ UDP_AUDIO_HEADER_V3_LEN = 37
BY SMT DEF AUDIO_HEADER_LEN, UDP_AUDIO_HEADER_V2_LEN, UDP_AUDIO_HEADER_V3_LEN

(***************************************************************************)
(* Packets: their numbers fit the fields they are written to.              *)
(***************************************************************************)

EncoderRates == {8000, 12000, 16000, 24000, 48000}

Packet ==
    [plane : {"LegacyLas1", "V2Header"}, codec : {"pcm16", "opus", "pcm24"}, sequence : Nat,
     timestamp_ms : Nat, flags : 0..1, v2_flags : 0..7, sample_rate : Nat \ {0}, channels : {2},
     frames_per_packet : Nat, payload : Seq(Byte)]

\* What the encode worker makes of a frame.
PacketMade(p) ==
    /\ p \in Packet
    /\ <<p.plane, p.codec>> \in Kinds
    /\ p.sequence < FIRST_SEQUENCE + MAX_PACKETS
    /\ p.timestamp_ms = 70000 + p.sequence
    /\ p.sample_rate <= 96000
    /\ Len(p.payload) <= MAX_PAYLOAD
    /\ p.codec # "pcm24" =>
           /\ p.sample_rate \in EncoderRates
           /\ \/ p.frames_per_packet = p.sample_rate \div 100
              \/ p.frames_per_packet = p.sample_rate \div 50

LEMMA Quotient ==
    ASSUME NEW a \in Nat, NEW b \in Nat, b > 0
    PROVE  a \div b \in Nat /\ b * (a \div b) <= a /\ a < b * (a \div b) + b
<1>1. a \div b \in Nat
  BY SMT
<1>2. b * (a \div b) <= a /\ a < b * (a \div b) + b
  BY SMT
<1> QED BY <1>1, <1>2

LEMMA PacketNumbers ==
    ASSUME NEW p, PacketMade(p)
    PROVE  /\ p.sequence \in Nat /\ Fits(p.sequence, 4)
           /\ p.timestamp_ms \in Nat /\ Fits(p.timestamp_ms, 8)
           /\ p.flags \in Nat /\ Fits(p.flags, 1)
           /\ p.v2_flags \in Nat /\ Fits(p.v2_flags, 2)
           /\ p.sample_rate \in Nat /\ Fits(p.sample_rate, 4)
           /\ p.channels \in Nat /\ Fits(p.channels, 1)
           /\ p.payload \in Seq(Byte) /\ Fits(Len(p.payload), 2)
           /\ Codecs[p.codec] \in 1..4 /\ Fits(Codecs[p.codec], 1)
           /\ p.frames_per_packet \in Nat
           /\ FrameDurationMs(p) \in Nat
           /\ p.codec # "pcm24" => Fits(p.frames_per_packet, 2) /\ Fits(FrameDurationMs(p), 2)
<1>1. /\ p.sequence \in Nat /\ p.flags \in 0..1 /\ p.v2_flags \in 0..7 /\ p.channels = 2
      /\ p.sample_rate \in Nat \ {0} /\ p.sample_rate <= 96000
      /\ p.timestamp_ms = 70000 + p.sequence
      /\ p.payload \in Seq(Byte) /\ p.frames_per_packet \in Nat
      /\ p.sequence < FIRST_SEQUENCE + MAX_PACKETS
      /\ Len(p.payload) <= MAX_PAYLOAD
      /\ p.codec \in {"pcm16", "opus", "pcm24"}
  BY SMT DEF PacketMade, Packet
<1>2. Fits(p.sequence, 4) /\ Fits(p.timestamp_ms, 8) /\ p.timestamp_ms \in Nat
  BY <1>1, WireSizes, FieldsFit, SMT DEF Fits
<1>3. Fits(p.flags, 1) /\ Fits(p.v2_flags, 2) /\ Fits(p.sample_rate, 4) /\ Fits(p.channels, 1)
  BY <1>1, SMT DEF Fits
<1>4. Fits(Len(p.payload), 2)
  BY <1>1, WireSizes, FieldsFit, SMT DEF Fits
<1>5. Codecs[p.codec] \in 1..4
  BY <1>1, SMT DEF Codecs
<1>6. Fits(Codecs[p.codec], 1)
  BY <1>5, SMT DEF Fits
<1>7. FrameDurationMs(p) \in Nat
  <2>1. p.frames_per_packet * 1000 \in Nat /\ p.sample_rate \in Nat /\ p.sample_rate > 0
    BY <1>1, SMT
  <2>2. (p.frames_per_packet * 1000) \div p.sample_rate \in Nat
    BY <2>1, Quotient
  <2> QED BY <2>2, SMT DEF FrameDurationMs
<1>8. ASSUME p.codec # "pcm24"
      PROVE  Fits(p.frames_per_packet, 2) /\ Fits(FrameDurationMs(p), 2)
  <2>1. p.sample_rate \in EncoderRates
    BY <1>8, SMT DEF PacketMade
  <2>2. p.frames_per_packet = p.sample_rate \div 100 \/ p.frames_per_packet = p.sample_rate \div 50
    BY <1>8, SMT DEF PacketMade
  <2> QED BY <2>1, <2>2, SMT DEF EncoderRates, Fits, FrameDurationMs
<1> QED BY <1>1, <1>2, <1>3, <1>4, <1>5, <1>6, <1>7, <1>8, SMT

\* What is seen of a LAS1 packet.
LEMMA Las1Seen ==
    ASSUME NEW p, PacketMade(p), p.codec # "pcm24",
           NEW c \in 0..Len(EncodeLas1(p))
    PROVE  LET t == SubSeq(EncodeLas1(p), 1, c) IN
           /\ Len(EncodeLas1(p)) = 27 + Len(p.payload) /\ t \in Seq(Byte) /\ Len(t) = c
           /\ c >= 4 => FromLeBytes(t, 0, 4) = MAGIC_LAS1
           /\ c >= 27 =>
                /\ FromLeBytes(t, 5, 1) = p.flags /\ FromLeBytes(t, 6, 4) = p.sequence
                /\ FromLeBytes(t, 10, 8) = p.timestamp_ms
                /\ FromLeBytes(t, 18, 4) = p.sample_rate
                /\ FromLeBytes(t, 22, 1) = p.channels
                /\ FromLeBytes(t, 23, 2) = p.frames_per_packet
                /\ FromLeBytes(t, 25, 2) = Len(p.payload)
<1> DEFINE h == Las1Header(p)
           head == Las1Bytes(h)
           t == SubSeq(head \o p.payload, 1, c)
<1>1. /\ h.magic = MAGIC_LAS1 /\ h.flags = p.flags /\ h.sequence = p.sequence
      /\ h.timestamp_ms = p.timestamp_ms /\ h.sample_rate = p.sample_rate
      /\ h.channels = p.channels /\ h.frames_per_packet = p.frames_per_packet
      /\ h.payload_size = Len(p.payload)
  BY HeaderLengths DEF Las1Header
<1>2. /\ MAGIC_LAS1 \in Nat /\ Fits(MAGIC_LAS1, 4) /\ p.flags \in Nat /\ Fits(p.flags, 1)
      /\ p.sequence \in Nat /\ Fits(p.sequence, 4)
      /\ p.timestamp_ms \in Nat /\ Fits(p.timestamp_ms, 8)
      /\ p.sample_rate \in Nat /\ Fits(p.sample_rate, 4)
      /\ p.channels \in Nat /\ Fits(p.channels, 1)
      /\ p.frames_per_packet \in Nat /\ Fits(p.frames_per_packet, 2)
      /\ Len(p.payload) \in Nat /\ Fits(Len(p.payload), 2) /\ p.payload \in Seq(Byte)
  BY PacketNumbers, Magics
<1>3. h \in Las1Fields
  BY <1>2, PacketNumbers, HeaderLengths DEF Las1Header, Las1Fields
<1>4. EncodeLas1(p) = head \o p.payload
  BY DEF EncodeLas1
<1> HIDE DEF h
<1>5. /\ head \in Seq(Byte) /\ Len(head) = 27
      /\ Holds(head, 0, MAGIC_LAS1, 4) /\ Holds(head, 5, p.flags, 1)
      /\ Holds(head, 6, p.sequence, 4) /\ Holds(head, 10, p.timestamp_ms, 8)
      /\ Holds(head, 18, p.sample_rate, 4) /\ Holds(head, 22, p.channels, 1)
      /\ Holds(head, 23, p.frames_per_packet, 2) /\ Holds(head, 25, Len(p.payload), 2)
  BY <1>1, <1>3, Las1Format
<1> HIDE DEF head
<1>6. /\ Len(head \o p.payload) = Len(head) + Len(p.payload)
      /\ t \in Seq(Byte) /\ Len(t) = c
      /\ \A off, v \in Nat : Readable(t, head, c, off, v)
  BY <1>2, <1>4, <1>5, ReadHeader
<1> HIDE DEF t
<1>10. /\ Readable(t, head, c, 0, MAGIC_LAS1) /\ Readable(t, head, c, 5, p.flags)
       /\ Readable(t, head, c, 6, p.sequence) /\ Readable(t, head, c, 10, p.timestamp_ms)
       /\ Readable(t, head, c, 18, p.sample_rate) /\ Readable(t, head, c, 22, p.channels)
       /\ Readable(t, head, c, 23, p.frames_per_packet)
       /\ Readable(t, head, c, 25, Len(p.payload))
  BY <1>2, <1>6
<1>7. c >= 4 => FromLeBytes(t, 0, 4) = MAGIC_LAS1
  BY <1>2, <1>5, <1>10 DEF Readable
<1>8. ASSUME c >= 27
      PROVE  /\ FromLeBytes(t, 5, 1) = p.flags /\ FromLeBytes(t, 6, 4) = p.sequence
             /\ FromLeBytes(t, 10, 8) = p.timestamp_ms
             /\ FromLeBytes(t, 18, 4) = p.sample_rate /\ FromLeBytes(t, 22, 1) = p.channels
             /\ FromLeBytes(t, 23, 2) = p.frames_per_packet
             /\ FromLeBytes(t, 25, 2) = Len(p.payload)
  <2>1. /\ FromLeBytes(t, 5, 1) = p.flags /\ FromLeBytes(t, 6, 4) = p.sequence
        /\ FromLeBytes(t, 10, 8) = p.timestamp_ms
    BY <1>2, <1>5, <1>10, <1>8 DEF Readable
  <2>2. /\ FromLeBytes(t, 18, 4) = p.sample_rate /\ FromLeBytes(t, 22, 1) = p.channels
        /\ FromLeBytes(t, 23, 2) = p.frames_per_packet
    BY <1>2, <1>5, <1>10, <1>8 DEF Readable
  <2>3. /\ FromLeBytes(t, 25, 2) = Len(p.payload)
    BY <1>2, <1>5, <1>10, <1>8 DEF Readable
  <2> QED BY <2>1, <2>2, <2>3
<1> QED BY <1>4, <1>5, <1>6, <1>7, <1>8 DEF t

\* What is seen of a V2 packet.
LEMMA V2Seen ==
    ASSUME NEW p, PacketMade(p), p.codec # "pcm24",
           NEW c \in 0..Len(EncodeV2(p))
    PROVE  LET t == SubSeq(EncodeV2(p), 1, c) IN
           /\ Len(EncodeV2(p)) = 33 + Len(p.payload) /\ t \in Seq(Byte) /\ Len(t) = c
           /\ c >= 4 => FromLeBytes(t, 0, 4) = MAGIC_LAV2
           /\ c >= 5 => FromLeBytes(t, 4, 1) = 2
           /\ c >= 33 =>
                /\ FromLeBytes(t, 5, 2) = 33 /\ FromLeBytes(t, 7, 2) = p.v2_flags
                /\ FromLeBytes(t, 9, 4) = p.sequence
                /\ FromLeBytes(t, 13, 8) = p.timestamp_ms
                /\ FromLeBytes(t, 21, 1) = Codecs[p.codec]
                /\ FromLeBytes(t, 22, 1) = p.channels
                /\ FromLeBytes(t, 23, 4) = p.sample_rate
                /\ FromLeBytes(t, 27, 2) = FrameDurationMs(p)
                /\ FromLeBytes(t, 29, 2) = Len(p.payload)
<1> DEFINE h == V2Header(p)
           head == V2Bytes(h)
           t == SubSeq(head \o p.payload, 1, c)
<1>1. /\ h.magic = MAGIC_LAV2 /\ h.version = 2 /\ h.header_size = 33 /\ h.flags = p.v2_flags
      /\ h.sequence = p.sequence /\ h.timestamp_ms = p.timestamp_ms
      /\ h.codec = Codecs[p.codec] /\ h.channels = p.channels
      /\ h.sample_rate = p.sample_rate /\ h.frame_duration_ms = FrameDurationMs(p)
      /\ h.payload_size = Len(p.payload)
  BY HeaderLengths DEF V2Header
<1>2. /\ MAGIC_LAV2 \in Nat /\ Fits(MAGIC_LAV2, 4) /\ 2 \in Nat /\ Fits(2, 1)
      /\ 33 \in Nat /\ Fits(33, 2) /\ p.v2_flags \in Nat /\ Fits(p.v2_flags, 2)
      /\ p.sequence \in Nat /\ Fits(p.sequence, 4)
      /\ p.timestamp_ms \in Nat /\ Fits(p.timestamp_ms, 8)
      /\ Codecs[p.codec] \in Nat /\ Fits(Codecs[p.codec], 1)
      /\ p.channels \in Nat /\ Fits(p.channels, 1)
      /\ p.sample_rate \in Nat /\ Fits(p.sample_rate, 4)
      /\ FrameDurationMs(p) \in Nat /\ Fits(FrameDurationMs(p), 2)
      /\ Len(p.payload) \in Nat /\ Fits(Len(p.payload), 2) /\ p.payload \in Seq(Byte)
  <2>1. MAGIC_LAV2 \in Nat /\ Fits(MAGIC_LAV2, 4) /\ Fits(2, 1) /\ Fits(33, 2)
    BY Magics, SMT DEF Fits
  <2>2. /\ p.v2_flags \in Nat /\ Fits(p.v2_flags, 2) /\ p.sequence \in Nat
        /\ Fits(p.sequence, 4) /\ p.timestamp_ms \in Nat /\ Fits(p.timestamp_ms, 8)
    BY PacketNumbers, SMTT(30)
  <2>3. /\ Codecs[p.codec] \in Nat /\ Fits(Codecs[p.codec], 1) /\ p.channels \in Nat
        /\ Fits(p.channels, 1) /\ p.sample_rate \in Nat /\ Fits(p.sample_rate, 4)
    BY PacketNumbers, SMTT(30)
  <2>4. /\ FrameDurationMs(p) \in Nat /\ Fits(FrameDurationMs(p), 2)
        /\ Len(p.payload) \in Nat /\ Fits(Len(p.payload), 2) /\ p.payload \in Seq(Byte)
    BY PacketNumbers, SMTT(30)
  <2> QED BY <2>1, <2>2, <2>3, <2>4
<1>3. h \in V2Fields
  BY <1>2, PacketNumbers, HeaderLengths DEF V2Header, V2Fields
<1>4. EncodeV2(p) = head \o p.payload
  BY DEF EncodeV2
<1> HIDE DEF h
<1>5. /\ head \in Seq(Byte) /\ Len(head) = 33
      /\ Holds(head, 0, MAGIC_LAV2, 4) /\ Holds(head, 4, 2, 1) /\ Holds(head, 5, 33, 2)
      /\ Holds(head, 7, p.v2_flags, 2) /\ Holds(head, 9, p.sequence, 4)
      /\ Holds(head, 13, p.timestamp_ms, 8) /\ Holds(head, 21, Codecs[p.codec], 1)
      /\ Holds(head, 22, p.channels, 1) /\ Holds(head, 23, p.sample_rate, 4)
      /\ Holds(head, 27, FrameDurationMs(p), 2) /\ Holds(head, 29, Len(p.payload), 2)
  BY <1>1, <1>3, V2Format
<1> HIDE DEF head
<1>6. /\ Len(head \o p.payload) = Len(head) + Len(p.payload)
      /\ t \in Seq(Byte) /\ Len(t) = c
      /\ \A off, v \in Nat : Readable(t, head, c, off, v)
  BY <1>2, <1>4, <1>5, ReadHeader
<1> HIDE DEF t
<1>10. /\ Readable(t, head, c, 0, MAGIC_LAV2) /\ Readable(t, head, c, 4, 2)
       /\ Readable(t, head, c, 5, 33) /\ Readable(t, head, c, 7, p.v2_flags)
       /\ Readable(t, head, c, 9, p.sequence) /\ Readable(t, head, c, 13, p.timestamp_ms)
       /\ Readable(t, head, c, 21, Codecs[p.codec]) /\ Readable(t, head, c, 22, p.channels)
       /\ Readable(t, head, c, 23, p.sample_rate)
       /\ Readable(t, head, c, 27, FrameDurationMs(p))
       /\ Readable(t, head, c, 29, Len(p.payload))
  BY <1>2, <1>6
<1>7. c >= 4 => FromLeBytes(t, 0, 4) = MAGIC_LAV2
  BY <1>2, <1>5, <1>10 DEF Readable
<1>9. c >= 5 => FromLeBytes(t, 4, 1) = 2
  BY <1>2, <1>5, <1>10 DEF Readable
<1>8. ASSUME c >= 33
      PROVE  /\ FromLeBytes(t, 5, 2) = 33 /\ FromLeBytes(t, 7, 2) = p.v2_flags
             /\ FromLeBytes(t, 9, 4) = p.sequence /\ FromLeBytes(t, 13, 8) = p.timestamp_ms
             /\ FromLeBytes(t, 21, 1) = Codecs[p.codec]
             /\ FromLeBytes(t, 22, 1) = p.channels /\ FromLeBytes(t, 23, 4) = p.sample_rate
             /\ FromLeBytes(t, 27, 2) = FrameDurationMs(p)
             /\ FromLeBytes(t, 29, 2) = Len(p.payload)
  <2>1. /\ FromLeBytes(t, 5, 2) = 33 /\ FromLeBytes(t, 7, 2) = p.v2_flags
        /\ FromLeBytes(t, 9, 4) = p.sequence
    BY <1>2, <1>5, <1>10, <1>8 DEF Readable
  <2>2. /\ FromLeBytes(t, 13, 8) = p.timestamp_ms /\ FromLeBytes(t, 21, 1) = Codecs[p.codec]
        /\ FromLeBytes(t, 22, 1) = p.channels
    BY <1>2, <1>5, <1>10, <1>8 DEF Readable
  <2>3. /\ FromLeBytes(t, 23, 4) = p.sample_rate
        /\ FromLeBytes(t, 27, 2) = FrameDurationMs(p)
        /\ FromLeBytes(t, 29, 2) = Len(p.payload)
    BY <1>2, <1>5, <1>10, <1>8 DEF Readable
  <2> QED BY <2>1, <2>2, <2>3
<1> QED BY <1>4, <1>5, <1>6, <1>7, <1>8, <1>9 DEF t

\* What is seen of a PCM24 fragment.
LEMMA V3Seen ==
    ASSUME NEW p, PacketMade(p), NEW chunk \in Seq(Byte), Len(chunk) <= MAX_PAYLOAD,
           NEW index \in Nat, index <= 255, NEW total \in Nat, total <= 255,
           NEW c \in 0..Len(EncodeV3(p, chunk, index, total))
    PROVE  LET t == SubSeq(EncodeV3(p, chunk, index, total), 1, c) IN
           /\ Len(EncodeV3(p, chunk, index, total)) = 37 + Len(chunk)
           /\ t \in Seq(Byte) /\ Len(t) = c
           /\ c >= 4 => FromLeBytes(t, 0, 4) = MAGIC_LAV2
           /\ c >= 5 => FromLeBytes(t, 4, 1) = 3
           /\ c >= 37 =>
                /\ FromLeBytes(t, 5, 2) = 37 /\ FromLeBytes(t, 7, 2) = p.v2_flags
                /\ FromLeBytes(t, 9, 4) = p.sequence + index
                /\ FromLeBytes(t, 13, 8) = p.timestamp_ms
                /\ FromLeBytes(t, 21, 1) = Codecs[p.codec]
                /\ FromLeBytes(t, 22, 1) = p.channels
                /\ FromLeBytes(t, 23, 4) = p.sample_rate
                /\ FromLeBytes(t, 29, 2) = Len(chunk) /\ FromLeBytes(t, 31, 1) = index
                /\ FromLeBytes(t, 32, 1) = total /\ FromLeBytes(t, 33, 4) = p.sequence
<1> DEFINE h == V3Header(p, chunk, index, total)
           head == V3Bytes(h)
           t == SubSeq(head \o chunk, 1, c)
<1>1. /\ h.magic = MAGIC_LAV2 /\ h.version = 3 /\ h.header_size = 37 /\ h.flags = p.v2_flags
      /\ h.sequence = p.sequence + index /\ h.timestamp_ms = p.timestamp_ms
      /\ h.codec = Codecs[p.codec] /\ h.channels = p.channels
      /\ h.sample_rate = p.sample_rate /\ h.payload_size = Len(chunk)
      /\ h.frag_index = index /\ h.total_frags = total /\ h.logical_seq = p.sequence
  BY HeaderLengths DEF V3Header
<1>2. /\ MAGIC_LAV2 \in Nat /\ Fits(MAGIC_LAV2, 4) /\ 3 \in Nat /\ Fits(3, 1)
      /\ 37 \in Nat /\ Fits(37, 2) /\ p.v2_flags \in Nat /\ Fits(p.v2_flags, 2)
      /\ p.sequence + index \in Nat /\ Fits(p.sequence + index, 4)
      /\ p.timestamp_ms \in Nat /\ Fits(p.timestamp_ms, 8)
      /\ Codecs[p.codec] \in Nat /\ Fits(Codecs[p.codec], 1)
      /\ p.channels \in Nat /\ Fits(p.channels, 1)
      /\ p.sample_rate \in Nat /\ Fits(p.sample_rate, 4)
      /\ Len(chunk) \in Nat /\ Fits(Len(chunk), 2) /\ index \in Nat /\ Fits(index, 1)
      /\ total \in Nat /\ Fits(total, 1) /\ p.sequence \in Nat /\ Fits(p.sequence, 4)
      /\ chunk \in Seq(Byte)
  <2>1. Fits(3, 1) /\ Fits(37, 2) /\ Fits(index, 1) /\ Fits(total, 1)
    BY SMT DEF Fits
  <2>2. p.sequence \in Nat /\ p.sequence < FIRST_SEQUENCE + MAX_PACKETS
    BY PacketNumbers DEF PacketMade
  <2>4. p.sequence + index \in Nat /\ Fits(p.sequence + index, 4)
    BY <2>2, WireSizes, FieldsFit, SMT DEF Fits
  <2>3. Fits(Len(chunk), 2)
    BY WireSizes, FieldsFit, SMT DEF Fits
  <2>5. /\ MAGIC_LAV2 \in Nat /\ Fits(MAGIC_LAV2, 4) /\ p.v2_flags \in Nat /\ Fits(p.v2_flags, 2)
        /\ p.timestamp_ms \in Nat /\ Fits(p.timestamp_ms, 8) /\ Codecs[p.codec] \in Nat
        /\ Fits(Codecs[p.codec], 1) /\ p.channels \in Nat /\ Fits(p.channels, 1)
        /\ p.sample_rate \in Nat /\ Fits(p.sample_rate, 4) /\ p.sequence \in Nat
        /\ Fits(p.sequence, 4)
    BY PacketNumbers, Magics, SMTT(30)
  <2>6. index \in Nat /\ total \in Nat /\ Len(chunk) \in Nat
    OBVIOUS
  <2> QED BY <2>1, <2>3, <2>4, <2>5, <2>6
<1>3. h \in V3Fields
  BY <1>2, PacketNumbers, HeaderLengths DEF V3Header, V3Fields
<1>4. EncodeV3(p, chunk, index, total) = head \o chunk
  BY DEF EncodeV3
<1> HIDE DEF h
<1>5. /\ head \in Seq(Byte) /\ Len(head) = 37
      /\ Holds(head, 0, MAGIC_LAV2, 4) /\ Holds(head, 4, 3, 1) /\ Holds(head, 5, 37, 2)
      /\ Holds(head, 7, p.v2_flags, 2) /\ Holds(head, 9, p.sequence + index, 4)
      /\ Holds(head, 13, p.timestamp_ms, 8) /\ Holds(head, 21, Codecs[p.codec], 1)
      /\ Holds(head, 22, p.channels, 1) /\ Holds(head, 23, p.sample_rate, 4)
      /\ Holds(head, 29, Len(chunk), 2) /\ Holds(head, 31, index, 1)
      /\ Holds(head, 32, total, 1) /\ Holds(head, 33, p.sequence, 4)
  <2>1. /\ head \in Seq(Byte) /\ Len(head) = 37
        /\ Holds(head, 0, h.magic, 4) /\ Holds(head, 4, h.version, 1)
        /\ Holds(head, 5, h.header_size, 2) /\ Holds(head, 7, h.flags, 2)
        /\ Holds(head, 9, h.sequence, 4) /\ Holds(head, 13, h.timestamp_ms, 8)
        /\ Holds(head, 21, h.codec, 1) /\ Holds(head, 22, h.channels, 1)
        /\ Holds(head, 23, h.sample_rate, 4) /\ Holds(head, 29, h.payload_size, 2)
        /\ Holds(head, 31, h.frag_index, 1) /\ Holds(head, 32, h.total_frags, 1)
        /\ Holds(head, 33, h.logical_seq, 4)
    BY <1>3, V3Format
  <2> HIDE DEF head
  <2> QED BY <1>1, <2>1
<1> HIDE DEF head
<1>6. /\ Len(head \o chunk) = Len(head) + Len(chunk)
      /\ t \in Seq(Byte) /\ Len(t) = c
      /\ \A off, v \in Nat : Readable(t, head, c, off, v)
  BY <1>2, <1>4, <1>5, ReadHeader
<1> HIDE DEF t
<1>10. /\ Readable(t, head, c, 0, MAGIC_LAV2) /\ Readable(t, head, c, 4, 3)
       /\ Readable(t, head, c, 5, 37) /\ Readable(t, head, c, 7, p.v2_flags)
       /\ Readable(t, head, c, 9, p.sequence + index)
       /\ Readable(t, head, c, 13, p.timestamp_ms)
       /\ Readable(t, head, c, 21, Codecs[p.codec]) /\ Readable(t, head, c, 22, p.channels)
       /\ Readable(t, head, c, 23, p.sample_rate) /\ Readable(t, head, c, 29, Len(chunk))
       /\ Readable(t, head, c, 31, index) /\ Readable(t, head, c, 32, total)
       /\ Readable(t, head, c, 33, p.sequence)
  BY <1>2, <1>6
<1>7. c >= 4 => FromLeBytes(t, 0, 4) = MAGIC_LAV2
  BY <1>2, <1>5, <1>10 DEF Readable
<1>9. c >= 5 => FromLeBytes(t, 4, 1) = 3
  BY <1>2, <1>5, <1>10 DEF Readable
<1>8. ASSUME c >= 37
      PROVE  /\ FromLeBytes(t, 5, 2) = 37 /\ FromLeBytes(t, 7, 2) = p.v2_flags
             /\ FromLeBytes(t, 9, 4) = p.sequence + index
             /\ FromLeBytes(t, 13, 8) = p.timestamp_ms
             /\ FromLeBytes(t, 21, 1) = Codecs[p.codec]
             /\ FromLeBytes(t, 22, 1) = p.channels /\ FromLeBytes(t, 23, 4) = p.sample_rate
             /\ FromLeBytes(t, 29, 2) = Len(chunk) /\ FromLeBytes(t, 31, 1) = index
             /\ FromLeBytes(t, 32, 1) = total /\ FromLeBytes(t, 33, 4) = p.sequence
  <2>1. /\ FromLeBytes(t, 5, 2) = 37 /\ FromLeBytes(t, 7, 2) = p.v2_flags
        /\ FromLeBytes(t, 9, 4) = p.sequence + index
    BY <1>2, <1>5, <1>10, <1>8 DEF Readable
  <2>2. /\ FromLeBytes(t, 13, 8) = p.timestamp_ms /\ FromLeBytes(t, 21, 1) = Codecs[p.codec]
        /\ FromLeBytes(t, 22, 1) = p.channels
    BY <1>2, <1>5, <1>10, <1>8 DEF Readable
  <2>3. /\ FromLeBytes(t, 23, 4) = p.sample_rate /\ FromLeBytes(t, 29, 2) = Len(chunk)
        /\ FromLeBytes(t, 31, 1) = index
    BY <1>2, <1>5, <1>10, <1>8 DEF Readable
  <2>4. /\ FromLeBytes(t, 32, 1) = total /\ FromLeBytes(t, 33, 4) = p.sequence
    BY <1>2, <1>5, <1>10, <1>8 DEF Readable
  <2> QED BY <2>1, <2>2, <2>3, <2>4
<1> QED BY <1>4, <1>5, <1>6, <1>7, <1>8, <1>9 DEF t

LEMMA Las1Length ==
    ASSUME NEW p, PacketMade(p), p.codec # "pcm24"
    PROVE  EncodeLas1(p) \in Seq(Byte) /\ Len(EncodeLas1(p)) = 27 + Len(p.payload)
<1>1. Las1Header(p) \in Las1Fields
  BY PacketNumbers, Magics DEF Las1Header, Las1Fields
<1>2. Las1Bytes(Las1Header(p)) \in Seq(Byte) /\ Len(Las1Bytes(Las1Header(p))) = 27
  BY <1>1, Las1Format
<1>3. p.payload \in Seq(Byte)
  BY PacketNumbers
<1> QED BY <1>2, <1>3, AppendPayload DEF EncodeLas1

LEMMA V2HeaderFields ==
    ASSUME NEW p, PacketMade(p), p.codec # "pcm24"
    PROVE  V2Header(p) \in V2Fields
<1>1. /\ p.v2_flags \in Nat /\ p.sequence \in Nat /\ p.timestamp_ms \in Nat
      /\ Codecs[p.codec] \in Nat /\ p.channels \in Nat /\ p.sample_rate \in Nat
  BY PacketNumbers, SMTT(30)
<1>2. FrameDurationMs(p) \in Nat /\ Len(p.payload) \in Nat
  BY PacketNumbers, SMTT(30)
<1> QED BY <1>1, <1>2, Magics, HeaderLengths, SMTT(30) DEF V2Header, V2Fields

LEMMA V2Length ==
    ASSUME NEW p, PacketMade(p), p.codec # "pcm24"
    PROVE  EncodeV2(p) \in Seq(Byte) /\ Len(EncodeV2(p)) = 33 + Len(p.payload)
<1>1. V2Header(p) \in V2Fields
  BY V2HeaderFields
<1>2. V2Bytes(V2Header(p)) \in Seq(Byte) /\ Len(V2Bytes(V2Header(p))) = 33
  BY <1>1, V2Format
<1>3. p.payload \in Seq(Byte)
  BY PacketNumbers
<1> QED BY <1>2, <1>3, AppendPayload, ZenonT(30) DEF EncodeV2

LEMMA V3HeaderFields ==
    ASSUME NEW p, PacketMade(p), NEW chunk \in Seq(Byte), NEW index \in Nat, NEW total \in Nat
    PROVE  V3Header(p, chunk, index, total) \in V3Fields
<1>1. /\ p.v2_flags \in Nat /\ p.sequence \in Nat /\ p.timestamp_ms \in Nat
      /\ Codecs[p.codec] \in Nat /\ p.channels \in Nat /\ p.sample_rate \in Nat
  BY PacketNumbers, SMTT(30)
<1>2. FrameDurationMs(p) \in Nat
  BY PacketNumbers, SMTT(30)
<1> QED BY <1>1, <1>2, Magics, HeaderLengths, SMTT(30) DEF V3Header, V3Fields

LEMMA V3Length ==
    ASSUME NEW p, PacketMade(p), NEW chunk \in Seq(Byte), NEW index \in Nat, NEW total \in Nat
    PROVE  /\ EncodeV3(p, chunk, index, total) \in Seq(Byte)
           /\ Len(EncodeV3(p, chunk, index, total)) = 37 + Len(chunk)
<1> DEFINE h == V3Header(p, chunk, index, total)
<1>1. h \in V3Fields
  BY V3HeaderFields
<1>2. V3Bytes(h) \in Seq(Byte) /\ Len(V3Bytes(h)) = 37
  BY <1>1, V3Format
<1> QED BY <1>2, AppendPayload DEF EncodeV3

(***************************************************************************)
(* Results: which decoders accept what.                                    *)
(***************************************************************************)

\* What UdpAudioPacket::decode accepts.
LEMMA Las1Accepts ==
    ASSUME NEW t \in Seq(Byte)
    PROVE  DecodeLas1(t).error = "none" <=>
               /\ Len(t) >= 27 /\ FromLeBytes(t, 0, 4) = MAGIC_LAS1
               /\ Len(t) = 27 + FromLeBytes(t, 25, 2)
<1> DEFINE h == DecodeHeader(LAS1At, t)
<1>1. h.magic = FromLeBytes(t, 0, 4) /\ h.payload_size = FromLeBytes(t, 25, 2)
  BY Las1Looks
<1>2. DecodeLas1(t).error
          = IF Len(t) < 27 THEN "TooShort"
            ELSE IF h.magic # MAGIC_LAS1 THEN "InvalidMagic"
            ELSE IF Len(t) # 27 + h.payload_size THEN "PayloadLengthMismatch" ELSE "none"
  BY HeaderLengths DEF DecodeLas1, Decoded, LengthMatches
<1> HIDE DEF h
<1> QED BY <1>1, <1>2

\* What UdpAudioPacketV2::decode accepts.
LEMMA V2Accepts ==
    ASSUME NEW t \in Seq(Byte)
    PROVE  DecodeV2(t).error = "none" <=>
               /\ Len(t) >= 33 /\ FromLeBytes(t, 0, 4) = MAGIC_LAV2
               /\ FromLeBytes(t, 4, 1) = 2 /\ FromLeBytes(t, 5, 2) = 33
               /\ FromLeBytes(t, 21, 1) \in 1..4
               /\ Len(t) = 33 + FromLeBytes(t, 29, 2)
<1> DEFINE h == DecodeHeader(V2At, t)
           base == BaseError(h, 33, 2, t)
<1>1. /\ h.magic = FromLeBytes(t, 0, 4) /\ h.version = FromLeBytes(t, 4, 1)
      /\ h.header_size = FromLeBytes(t, 5, 2) /\ h.codec = FromLeBytes(t, 21, 1)
      /\ h.payload_size = FromLeBytes(t, 29, 2)
  BY V2Looks
<1>2. DecodeV2(t).error
          = IF base # "none" THEN base
            ELSE IF Len(t) # 33 + h.payload_size THEN "PayloadLengthMismatch" ELSE "none"
  BY HeaderLengths DEF DecodeV2, Decoded, LengthMatches
<1> HIDE DEF h
<1>3. base = "none" <=>
          /\ Len(t) >= 33 /\ h.magic = MAGIC_LAV2 /\ h.version = 2 /\ h.header_size = 33
          /\ h.codec \in 1..4
  BY DEF BaseError
<1> HIDE DEF base
<1> QED BY <1>1, <1>2, <1>3

\* What UdpAudioPacketV3::decode accepts.
LEMMA V3Accepts ==
    ASSUME NEW t \in Seq(Byte)
    PROVE  DecodeV3(t).error = "none" <=>
               /\ Len(t) >= 37 /\ FromLeBytes(t, 0, 4) = MAGIC_LAV2
               /\ FromLeBytes(t, 4, 1) = 3 /\ FromLeBytes(t, 5, 2) = 37
               /\ FromLeBytes(t, 21, 1) \in 1..4
               /\ FromLeBytes(t, 32, 1) # 0
               /\ ~(FromLeBytes(t, 31, 1) >= FromLeBytes(t, 32, 1))
               /\ Len(t) = 37 + FromLeBytes(t, 29, 2)
<1> DEFINE h == DecodeHeader(V3At, t)
           base == BaseError(h, 37, 3, t)
<1>1. /\ h.magic = FromLeBytes(t, 0, 4) /\ h.version = FromLeBytes(t, 4, 1)
      /\ h.header_size = FromLeBytes(t, 5, 2) /\ h.codec = FromLeBytes(t, 21, 1)
      /\ h.payload_size = FromLeBytes(t, 29, 2)
      /\ h.frag_index = FromLeBytes(t, 31, 1) /\ h.total_frags = FromLeBytes(t, 32, 1)
  BY V3Looks
<1>2. DecodeV3(t).error
          = IF base # "none" THEN base
            ELSE IF h.total_frags = 0 \/ h.frag_index >= h.total_frags THEN "InvalidFragHeader"
            ELSE IF Len(t) # 37 + h.payload_size THEN "PayloadLengthMismatch" ELSE "none"
  BY HeaderLengths DEF DecodeV3, Decoded, LengthMatches
<1> HIDE DEF h
<1>3. base = "none" <=>
          /\ Len(t) >= 37 /\ h.magic = MAGIC_LAV2 /\ h.version = 3 /\ h.header_size = 37
          /\ h.codec \in 1..4
  BY DEF BaseError
<1> HIDE DEF base
<1> QED BY <1>1, <1>2, <1>3

LEMMA AcceptedBy ==
    ASSUME NEW t
    PROVE  /\ Accepted(t) \subseteq 1..3
           /\ 1 \in Accepted(t) <=> DecodeLas1(t).error = "none"
           /\ 2 \in Accepted(t) <=> DecodeV2(t).error = "none"
           /\ 3 \in Accepted(t) <=> DecodeV3(t).error = "none"
BY DEF Accepted, Decoders

\* What the phone makes of LAS1, of V2, and of neither.
LEMMA PhoneSees ==
    ASSUME NEW t \in Seq(Byte)
    PROVE  /\ Len(t) < 4 => PhoneParse(t) = <<>>
           /\ Len(t) >= 4 /\ FromLeBytes(t, 0, 4) = MAGIC_LAS1 => PhoneParse(t) = ParseLegacy(t)
           /\ Len(t) >= 4 /\ FromLeBytes(t, 0, 4) = MAGIC_LAV2 => PhoneParse(t) = ParseV2(t)
BY Magics DEF PhoneParse, DetectKind

\* A LAS1 packet is accepted by the LAS1 decoder and the phone when it is
\* complete, and by none when it is not.
LEMMA Las1Result ==
    ASSUME NEW p, PacketMade(p), p.codec # "pcm24", NEW c \in 0..Len(EncodeLas1(p))
    PROVE  LET t == SubSeq(EncodeLas1(p), 1, c) IN
           /\ c < Len(EncodeLas1(p)) => Accepted(t) = {} /\ PhoneParse(t) = <<>>
           /\ c = Len(EncodeLas1(p)) => Accepted(t) = {1}
<1> DEFINE t == SubSeq(EncodeLas1(p), 1, c)
<1>1. /\ Len(EncodeLas1(p)) = 27 + Len(p.payload) /\ t \in Seq(Byte) /\ Len(t) = c
      /\ c >= 4 => FromLeBytes(t, 0, 4) = MAGIC_LAS1
      /\ c >= 27 => FromLeBytes(t, 25, 2) = Len(p.payload)
  BY Las1Seen
<1>2. Len(p.payload) \in Nat
  BY PacketNumbers
<1> HIDE DEF t
<1>3. DecodeV2(t).error # "none" /\ DecodeV3(t).error # "none"
  BY <1>1, Magics, V2Accepts, V3Accepts
<1>4. DecodeLas1(t).error = "none" <=> c = Len(EncodeLas1(p))
  BY <1>1, <1>2, Las1Accepts
<1>5. c < Len(EncodeLas1(p)) => Accepted(t) = {}
  BY <1>3, <1>4, AcceptedBy
<1>6. c = Len(EncodeLas1(p)) => Accepted(t) = {1}
  BY <1>3, <1>4, AcceptedBy
<1>7. ASSUME c < Len(EncodeLas1(p))
      PROVE  PhoneParse(t) = <<>>
  <2>1. CASE c < 4
    BY <1>1, <2>1, PhoneSees
  <2>2. CASE c >= 4
    <3>1. PhoneParse(t) = ParseLegacy(t)
      BY <1>1, <2>2, PhoneSees
    <3>2. DecodeHeader(LAS1At, t).payload_size = FromLeBytes(t, 25, 2)
      BY Las1Looks
    <3>3. Len(t) < 27 \/ Len(t) # 27 + DecodeHeader(LAS1At, t).payload_size
      BY <1>1, <1>2, <1>7, <3>2
    <3> QED BY <3>1, <3>3 DEF ParseLegacy
  <2> QED BY <2>1, <2>2
<1> QED BY <1>5, <1>6, <1>7 DEF t

\* The same of a V2 packet.
LEMMA V2Result ==
    ASSUME NEW p, PacketMade(p), p.codec # "pcm24", NEW c \in 0..Len(EncodeV2(p))
    PROVE  LET t == SubSeq(EncodeV2(p), 1, c) IN
           /\ c < Len(EncodeV2(p)) => Accepted(t) = {} /\ PhoneParse(t) = <<>>
           /\ c = Len(EncodeV2(p)) => Accepted(t) = {2}
<1> DEFINE t == SubSeq(EncodeV2(p), 1, c)
<1>1. /\ Len(EncodeV2(p)) = 33 + Len(p.payload) /\ t \in Seq(Byte) /\ Len(t) = c
      /\ c >= 4 => FromLeBytes(t, 0, 4) = MAGIC_LAV2
      /\ c >= 5 => FromLeBytes(t, 4, 1) = 2
      /\ c >= 33 => /\ FromLeBytes(t, 5, 2) = 33 /\ FromLeBytes(t, 29, 2) = Len(p.payload)
                    /\ FromLeBytes(t, 21, 1) = Codecs[p.codec]
  BY V2Seen
<1>2. Len(p.payload) \in Nat /\ Codecs[p.codec] \in 1..4
  BY PacketNumbers
<1> HIDE DEF t
<1>3. DecodeLas1(t).error # "none" /\ DecodeV3(t).error # "none"
  BY <1>1, Magics, Las1Accepts, V3Accepts
<1>4. DecodeV2(t).error = "none" <=> c = Len(EncodeV2(p))
  BY <1>1, <1>2, V2Accepts
<1>5. c < Len(EncodeV2(p)) => Accepted(t) = {}
  BY <1>3, <1>4, AcceptedBy
<1>6. c = Len(EncodeV2(p)) => Accepted(t) = {2}
  BY <1>3, <1>4, AcceptedBy
<1>7. ASSUME c < Len(EncodeV2(p))
      PROVE  PhoneParse(t) = <<>>
  <2>1. CASE c < 4
    BY <1>1, <2>1, PhoneSees
  <2>2. CASE c >= 4
    <3>1. PhoneParse(t) = ParseV2(t)
      BY <1>1, <2>2, PhoneSees
    <3>2. /\ DecodeHeader(V2At, t).payload_size = FromLeBytes(t, 29, 2)
          /\ DecodeHeader(V2At, t).header_size = FromLeBytes(t, 5, 2)
      BY V2Looks
    <3>3. \/ Len(t) < 33
          \/ Len(t) # DecodeHeader(V2At, t).header_size + DecodeHeader(V2At, t).payload_size
      BY <1>1, <1>2, <1>7, <3>2
    <3> QED BY <3>1, <3>3 DEF ParseV2
  <2> QED BY <2>1, <2>2
<1> QED BY <1>5, <1>6, <1>7 DEF t

\* The same of a PCM24 fragment, which the phone never takes for a V2 packet.
LEMMA V3Result ==
    ASSUME NEW p, PacketMade(p), NEW chunk \in Seq(Byte), Len(chunk) <= MAX_PAYLOAD,
           NEW total \in Nat, total >= 1, total <= 255, NEW index \in Nat, index < total,
           NEW c \in 0..Len(EncodeV3(p, chunk, index, total))
    PROVE  LET t == SubSeq(EncodeV3(p, chunk, index, total), 1, c) IN
           /\ c < Len(EncodeV3(p, chunk, index, total)) => Accepted(t) = {}
           /\ c = Len(EncodeV3(p, chunk, index, total)) => Accepted(t) = {3}
           /\ PhoneParse(t) = <<>>
<1> DEFINE bytes == EncodeV3(p, chunk, index, total)
           t == SubSeq(bytes, 1, c)
<1>0. /\ index \in Nat /\ total \in Nat /\ index <= 255 /\ total <= 255
      /\ ~(index >= total) /\ total # 0
  OBVIOUS
<1>1. /\ Len(bytes) = 37 + Len(chunk) /\ t \in Seq(Byte) /\ Len(t) = c
      /\ c >= 4 => FromLeBytes(t, 0, 4) = MAGIC_LAV2
      /\ c >= 5 => FromLeBytes(t, 4, 1) = 3
      /\ c >= 37 => /\ FromLeBytes(t, 5, 2) = 37 /\ FromLeBytes(t, 29, 2) = Len(chunk)
                    /\ FromLeBytes(t, 21, 1) = Codecs[p.codec]
                    /\ FromLeBytes(t, 31, 1) = index /\ FromLeBytes(t, 32, 1) = total
  <2>1. c \in 0..Len(bytes)
    OBVIOUS
  <2> QED BY <1>0, <2>1, V3Seen
<1>2. Len(chunk) \in Nat /\ Codecs[p.codec] \in 1..4
  BY PacketNumbers
<1> HIDE DEF bytes, t
<1>3. DecodeLas1(t).error # "none" /\ DecodeV2(t).error # "none"
  BY <1>1, Magics, Las1Accepts, V2Accepts
<1>4. DecodeV3(t).error = "none" <=> c = Len(bytes)
  <2>1. ASSUME c = Len(bytes)
        PROVE  DecodeV3(t).error = "none"
    <3>1. /\ Len(t) >= 37 /\ FromLeBytes(t, 0, 4) = MAGIC_LAV2
          /\ FromLeBytes(t, 4, 1) = 3 /\ FromLeBytes(t, 5, 2) = 37
          /\ FromLeBytes(t, 21, 1) = Codecs[p.codec] /\ FromLeBytes(t, 32, 1) = total
          /\ FromLeBytes(t, 31, 1) = index /\ Len(t) = 37 + FromLeBytes(t, 29, 2)
      BY <1>1, <1>2, <2>1
    <3>2. FromLeBytes(t, 32, 1) # 0 /\ ~(FromLeBytes(t, 31, 1) >= FromLeBytes(t, 32, 1))
      BY <1>0, <3>1
    <3> QED BY <1>1, <1>2, <3>1, <3>2, V3Accepts
  <2>2. DecodeV3(t).error = "none" => c = Len(bytes)
    BY <1>1, <1>2, V3Accepts
  <2> QED BY <2>1, <2>2
<1>5. c < Len(bytes) => Accepted(t) = {}
  BY <1>3, <1>4, AcceptedBy
<1>6. c = Len(bytes) => Accepted(t) = {3}
  BY <1>3, <1>4, AcceptedBy
<1>7. PhoneParse(t) = <<>>
  <2>1. CASE c < 4
    BY <1>1, <2>1, PhoneSees
  <2>2. CASE c >= 4
    <3>1. PhoneParse(t) = ParseV2(t)
      BY <1>1, <2>2, PhoneSees
    <3>2. DecodeHeader(V2At, t).version = FromLeBytes(t, 4, 1)
      BY V2Looks
    <3>3. Len(t) < 33 \/ DecodeHeader(V2At, t).version # 2
      BY <1>1, <3>2
    <3> QED BY <3>1, <3>3 DEF ParseV2
  <2> QED BY <2>1, <2>2
<1> QED BY <1>5, <1>6, <1>7 DEF bytes, t

\* A whole datagram is its first bytes, all of them.
LEMMA WholeDatagram ==
    ASSUME NEW s \in Seq(Byte)
    PROVE  SubSeq(s, 1, Len(s)) = s /\ Len(s) \in 0..Len(s)
<1>1. SubSeq(s, 1, Len(s)) \in Seq(Byte) /\ Len(SubSeq(s, 1, Len(s))) = Len(s)
  OBVIOUS
<1>2. \A i \in 1..Len(s) : SubSeq(s, 1, Len(s))[i] = s[i]
  OBVIOUS
<1> QED BY <1>1, <1>2, SeqEqual

\* What is read of a complete LAS1 packet.
LEMMA Las1Whole ==
    ASSUME NEW p, PacketMade(p), p.codec # "pcm24"
    PROVE  LET bytes == EncodeLas1(p)
               h == DecodeHeader(LAS1At, bytes)
           IN /\ Accepted(bytes) = {1} /\ FromLeBytes(bytes, 0, 4) = MAGIC_LAS1
              /\ Len(bytes) = 27 + Len(p.payload)
              /\ h.flags = p.flags /\ h.sequence = p.sequence
              /\ h.timestamp_ms = p.timestamp_ms /\ h.sample_rate = p.sample_rate
              /\ h.channels = p.channels /\ h.frames_per_packet = p.frames_per_packet
              /\ h.payload_size = Len(p.payload)
              /\ SubSeq(bytes, 28, Len(bytes)) = p.payload
<1> DEFINE bytes == EncodeLas1(p)
           h == DecodeHeader(LAS1At, bytes)
           head == Las1Bytes(Las1Header(p))
<1>1. bytes \in Seq(Byte) /\ Len(bytes) = 27 + Len(p.payload)
  BY Las1Length
<1>2. SubSeq(bytes, 1, Len(bytes)) = bytes /\ Len(bytes) \in 0..Len(bytes)
  BY <1>1, WholeDatagram
<1>3. Accepted(bytes) = {1}
  BY <1>2, Las1Result
<1>4. p.payload \in Seq(Byte) /\ Len(p.payload) \in Nat
  BY PacketNumbers
<1>5. Len(bytes) >= 4 /\ Len(bytes) >= 27
  BY <1>1, <1>4
<1>6. /\ FromLeBytes(bytes, 0, 4) = MAGIC_LAS1
      /\ FromLeBytes(bytes, 5, 1) = p.flags /\ FromLeBytes(bytes, 6, 4) = p.sequence
      /\ FromLeBytes(bytes, 10, 8) = p.timestamp_ms
      /\ FromLeBytes(bytes, 18, 4) = p.sample_rate /\ FromLeBytes(bytes, 22, 1) = p.channels
      /\ FromLeBytes(bytes, 23, 2) = p.frames_per_packet
      /\ FromLeBytes(bytes, 25, 2) = Len(p.payload)
  <2> DEFINE t == SubSeq(bytes, 1, Len(bytes))
  <2>1. /\ FromLeBytes(t, 0, 4) = MAGIC_LAS1
        /\ FromLeBytes(t, 5, 1) = p.flags /\ FromLeBytes(t, 6, 4) = p.sequence
        /\ FromLeBytes(t, 10, 8) = p.timestamp_ms
        /\ FromLeBytes(t, 18, 4) = p.sample_rate /\ FromLeBytes(t, 22, 1) = p.channels
        /\ FromLeBytes(t, 23, 2) = p.frames_per_packet
        /\ FromLeBytes(t, 25, 2) = Len(p.payload)
    BY <1>2, <1>5, Las1Seen
  <2> QED BY <1>2, <2>1
<1>7. /\ h.flags = p.flags /\ h.sequence = p.sequence
      /\ h.timestamp_ms = p.timestamp_ms /\ h.sample_rate = p.sample_rate
      /\ h.channels = p.channels /\ h.frames_per_packet = p.frames_per_packet
      /\ h.payload_size = Len(p.payload)
  BY <1>6, Las1Looks
<1>8. Las1Header(p) \in Las1Fields
  BY PacketNumbers, Magics DEF Las1Header, Las1Fields
<1>9. head \in Seq(Byte) /\ Len(head) = 27
  BY <1>8, Las1Format
<1>10. bytes = head \o p.payload
  BY DEF EncodeLas1
<1> HIDE DEF head, bytes, h
<1>11. SubSeq(bytes, 28, Len(bytes)) = p.payload
  <2>1. SubSeq(head \o p.payload, Len(head) + 1, Len(head \o p.payload)) = p.payload
    BY <1>4, <1>9, <1>10, AppendPayload
  <2>2. Len(head) + 1 = 28
    BY <1>9
  <2> QED BY <1>10, <2>1, <2>2
<1> QED BY <1>1, <1>3, <1>6, <1>7, <1>11 DEF bytes, h

\* What is read of a complete V2 packet.
LEMMA V2Whole ==
    ASSUME NEW p, PacketMade(p), p.codec # "pcm24"
    PROVE  LET bytes == EncodeV2(p)
               h == DecodeHeader(V2At, bytes)
           IN /\ Accepted(bytes) = {2} /\ FromLeBytes(bytes, 0, 4) = MAGIC_LAV2
              /\ Len(bytes) = 33 + Len(p.payload)
              /\ h.version = 2 /\ h.header_size = 33
              /\ h.flags = p.v2_flags /\ h.sequence = p.sequence
              /\ h.timestamp_ms = p.timestamp_ms /\ h.sample_rate = p.sample_rate
              /\ h.channels = p.channels /\ h.codec = Codecs[p.codec]
              /\ h.frame_duration_ms = FrameDurationMs(p)
              /\ h.payload_size = Len(p.payload)
              /\ SubSeq(bytes, 34, Len(bytes)) = p.payload
<1> DEFINE bytes == EncodeV2(p)
           h == DecodeHeader(V2At, bytes)
           head == V2Bytes(V2Header(p))
<1>1. bytes \in Seq(Byte) /\ Len(bytes) = 33 + Len(p.payload)
  BY V2Length
<1>2. SubSeq(bytes, 1, Len(bytes)) = bytes /\ Len(bytes) \in 0..Len(bytes)
  BY <1>1, WholeDatagram
<1>3. Accepted(bytes) = {2}
  BY <1>2, V2Result
<1>4. p.payload \in Seq(Byte) /\ Len(p.payload) \in Nat
  BY PacketNumbers
<1>5. Len(bytes) >= 4 /\ Len(bytes) >= 5 /\ Len(bytes) >= 33
  BY <1>1, <1>4
<1>6. /\ FromLeBytes(bytes, 0, 4) = MAGIC_LAV2 /\ FromLeBytes(bytes, 4, 1) = 2
      /\ FromLeBytes(bytes, 5, 2) = 33 /\ FromLeBytes(bytes, 7, 2) = p.v2_flags
      /\ FromLeBytes(bytes, 9, 4) = p.sequence /\ FromLeBytes(bytes, 13, 8) = p.timestamp_ms
      /\ FromLeBytes(bytes, 21, 1) = Codecs[p.codec] /\ FromLeBytes(bytes, 22, 1) = p.channels
      /\ FromLeBytes(bytes, 23, 4) = p.sample_rate
      /\ FromLeBytes(bytes, 27, 2) = FrameDurationMs(p)
      /\ FromLeBytes(bytes, 29, 2) = Len(p.payload)
  <2> DEFINE t == SubSeq(bytes, 1, Len(bytes))
  <2>1. /\ FromLeBytes(t, 0, 4) = MAGIC_LAV2 /\ FromLeBytes(t, 4, 1) = 2
        /\ FromLeBytes(t, 5, 2) = 33 /\ FromLeBytes(t, 7, 2) = p.v2_flags
        /\ FromLeBytes(t, 9, 4) = p.sequence /\ FromLeBytes(t, 13, 8) = p.timestamp_ms
        /\ FromLeBytes(t, 21, 1) = Codecs[p.codec] /\ FromLeBytes(t, 22, 1) = p.channels
        /\ FromLeBytes(t, 23, 4) = p.sample_rate
        /\ FromLeBytes(t, 27, 2) = FrameDurationMs(p)
        /\ FromLeBytes(t, 29, 2) = Len(p.payload)
    BY <1>2, <1>5, V2Seen
  <2> QED BY <1>2, <2>1
<1>7. /\ h.version = 2 /\ h.header_size = 33
      /\ h.flags = p.v2_flags /\ h.sequence = p.sequence
      /\ h.timestamp_ms = p.timestamp_ms /\ h.sample_rate = p.sample_rate
      /\ h.channels = p.channels /\ h.codec = Codecs[p.codec]
      /\ h.frame_duration_ms = FrameDurationMs(p)
      /\ h.payload_size = Len(p.payload)
  BY <1>6, V2Looks, SMTT(30)
<1>8. V2Header(p) \in V2Fields
  BY V2HeaderFields
<1>9. head \in Seq(Byte) /\ Len(head) = 33
  BY <1>8, V2Format
<1>10. bytes = head \o p.payload
  BY DEF EncodeV2
<1> HIDE DEF head, bytes, h
<1>11. SubSeq(bytes, 34, Len(bytes)) = p.payload
  <2>1. SubSeq(head \o p.payload, Len(head) + 1, Len(head \o p.payload)) = p.payload
    BY <1>4, <1>9, <1>10, AppendPayload
  <2>2. Len(head) + 1 = 34
    BY <1>9
  <2> QED BY <1>10, <2>1, <2>2
<1> QED BY <1>1, <1>3, <1>6, <1>7, <1>11 DEF bytes, h

\* What is read of a complete PCM24 fragment.
LEMMA V3Whole ==
    ASSUME NEW p, PacketMade(p), NEW chunk \in Seq(Byte), Len(chunk) <= MAX_PAYLOAD,
           NEW total \in Nat, total >= 1, total <= 255, NEW index \in Nat, index < total
    PROVE  LET bytes == EncodeV3(p, chunk, index, total)
               h == DecodeHeader(V3At, bytes)
           IN /\ Accepted(bytes) = {3} /\ PhoneParse(bytes) = <<>>
              /\ h.flags = p.v2_flags /\ h.sequence = p.sequence + index
              /\ h.timestamp_ms = p.timestamp_ms /\ h.sample_rate = p.sample_rate
              /\ h.channels = p.channels
              /\ h.frag_index = index /\ h.total_frags = total /\ h.logical_seq = p.sequence
              /\ SubSeq(bytes, 38, Len(bytes)) = chunk
<1> DEFINE hdr == V3Header(p, chunk, index, total)
           bytes == EncodeV3(p, chunk, index, total)
           h == DecodeHeader(V3At, bytes)
           head == V3Bytes(hdr)
<1>0. index <= 255
  OBVIOUS
<1>1. bytes \in Seq(Byte) /\ Len(bytes) = 37 + Len(chunk)
  BY V3Length
<1>2. SubSeq(bytes, 1, Len(bytes)) = bytes /\ Len(bytes) \in 0..Len(bytes)
  BY <1>1, WholeDatagram
<1>3. Accepted(bytes) = {3} /\ PhoneParse(bytes) = <<>>
  <2> DEFINE t == SubSeq(bytes, 1, Len(bytes))
  <2>1. Accepted(t) = {3} /\ PhoneParse(t) = <<>>
    BY <1>2, V3Result
  <2> QED BY <1>2, <2>1
<1>4. Len(bytes) >= 37
  BY <1>1
<1>5. /\ FromLeBytes(bytes, 7, 2) = p.v2_flags /\ FromLeBytes(bytes, 9, 4) = p.sequence + index
      /\ FromLeBytes(bytes, 13, 8) = p.timestamp_ms /\ FromLeBytes(bytes, 22, 1) = p.channels
      /\ FromLeBytes(bytes, 23, 4) = p.sample_rate
      /\ FromLeBytes(bytes, 31, 1) = index /\ FromLeBytes(bytes, 32, 1) = total
      /\ FromLeBytes(bytes, 33, 4) = p.sequence
  <2> DEFINE t == SubSeq(bytes, 1, Len(bytes))
  <2>1. /\ FromLeBytes(t, 7, 2) = p.v2_flags /\ FromLeBytes(t, 9, 4) = p.sequence + index
        /\ FromLeBytes(t, 13, 8) = p.timestamp_ms /\ FromLeBytes(t, 22, 1) = p.channels
        /\ FromLeBytes(t, 23, 4) = p.sample_rate
        /\ FromLeBytes(t, 31, 1) = index /\ FromLeBytes(t, 32, 1) = total
        /\ FromLeBytes(t, 33, 4) = p.sequence
    BY <1>0, <1>2, <1>4, V3Seen, SMTT(30)
  <2> QED BY <1>2, <2>1
<1>6. /\ h.flags = p.v2_flags /\ h.sequence = p.sequence + index
      /\ h.timestamp_ms = p.timestamp_ms /\ h.sample_rate = p.sample_rate
      /\ h.channels = p.channels
      /\ h.frag_index = index /\ h.total_frags = total /\ h.logical_seq = p.sequence
  BY <1>5, V3Looks
<1>7. hdr \in V3Fields
  BY V3HeaderFields
<1>8. head \in Seq(Byte) /\ Len(head) = 37
  BY <1>7, V3Format
<1>9. bytes = head \o chunk
  BY DEF EncodeV3
<1> HIDE DEF head, bytes, h
<1>10. SubSeq(bytes, 38, Len(bytes)) = chunk
  <2>1. SubSeq(head \o chunk, Len(head) + 1, Len(head \o chunk)) = chunk
    BY <1>8, <1>9, AppendPayload
  <2>2. Len(head) + 1 = 38
    BY <1>8
  <2> QED BY <1>9, <2>1, <2>2
<1> QED BY <1>3, <1>6, <1>10 DEF bytes, h

(***************************************************************************)
(* The invariant.                                                          *)
(***************************************************************************)

\* d is one of the datagrams of the packet it belongs to.
SentFor(d) ==
    /\ d.of \in packets
    /\ \E i \in DOMAIN EncodePackets(d.of) : d.bytes = EncodePackets(d.of)[i]

\* The inductive invariant: a sequence number belongs to one packet; what is in
\* the network was encoded from a packet that was made; what was cut off is the
\* beginning of a datagram.
WireInv ==
    /\ sequence \in Nat
    /\ \A p \in packets : PacketMade(p) /\ p.sequence < sequence
    /\ \A p, q \in packets : p.sequence = q.sequence => p = q
    /\ \A d \in net : SentFor(d)
    /\ heard \subseteq net /\ \A d \in heard : d.of.codec = "pcm24"
    /\ truncated # <<>> =>
           \E d \in net : \E cut \in 1..(Len(d.bytes) - 1) : truncated = SubSeq(d.bytes, 1, cut)

(***************************************************************************)
(* Fragments.                                                              *)
(***************************************************************************)

\* As many fragments as there are bytes for: each begins within the payload, and
\* the last ends it.
LEMMA Fragmenting ==
    ASSUME NEW n \in Nat
    PROVE  LET total == TotalFrags(n) IN
           /\ total \in Nat /\ total >= 1
           /\ \A index \in 0..(total - 1) : index * MAX_FRAG \in Nat /\ index * MAX_FRAG <= n
           /\ total * MAX_FRAG \in Nat /\ n <= total * MAX_FRAG
<1>0. MAX_FRAG \in Nat /\ MAX_FRAG > 0
  BY WireSizes
<1>1. CASE n = 0
  <2>1. TotalFrags(n) = 1
    BY <1>1 DEF TotalFrags
  <2> QED BY <1>0, <1>1, <2>1
<1>2. CASE n # 0
  <2> DEFINE q == (n + MAX_FRAG - 1) \div MAX_FRAG
  <2>1. TotalFrags(n) = q
    BY <1>2 DEF TotalFrags
  <2>2. n + MAX_FRAG - 1 \in Nat
    BY <1>0
  <2>3. /\ q \in Nat /\ MAX_FRAG * q <= n + MAX_FRAG - 1
        /\ n + MAX_FRAG - 1 < MAX_FRAG * q + MAX_FRAG
    BY <1>0, <2>2, Quotient
  <2> HIDE DEF q
  <2>4. q >= 1
    <3>1. q = 0 => MAX_FRAG * q = 0
      BY <1>0, <2>3
    <3>2. q # 0
      BY <1>0, <1>2, <2>3, <3>1
    <3> QED BY <2>3, <3>2
  <2>5. q * MAX_FRAG \in Nat /\ n <= q * MAX_FRAG
    BY <1>0, <2>3
  <2>6. ASSUME NEW index \in 0..(q - 1)
        PROVE  index * MAX_FRAG \in Nat /\ index * MAX_FRAG <= n
    <3>1. index \in Nat /\ index + 1 <= q
      BY <2>3
    <3>2. (index + 1) * MAX_FRAG <= q * MAX_FRAG
      BY <1>0, <2>3, <3>1
    <3>3. (index + 1) * MAX_FRAG = index * MAX_FRAG + MAX_FRAG
      BY <1>0, <3>1
    <3>4. index * MAX_FRAG \in Nat
      BY <1>0, <3>1
    <3> QED BY <1>0, <2>3, <3>2, <3>3, <3>4
  <2> QED BY <2>1, <2>3, <2>4, <2>5, <2>6
<1> QED BY <1>1, <1>2

EndOf(n, index) == IF (index + 1) * MAX_FRAG < n THEN (index + 1) * MAX_FRAG ELSE n

\* A fragment holds the bytes of the payload from its start to its end.
LEMMA Chunks ==
    ASSUME NEW payload \in Seq(Byte), NEW index \in 0..(TotalFrags(Len(payload)) - 1)
    PROVE  LET start == index * MAX_FRAG
               end == EndOf(Len(payload), index)
               chunk == Chunk(payload, index)
           IN /\ start \in Nat /\ end \in Nat /\ start <= end /\ end <= Len(payload)
              /\ chunk \in Seq(Byte) /\ Len(chunk) = end - start
              /\ \A k \in 1..(end - start) : chunk[k] = payload[start + k]
<1> DEFINE start == index * MAX_FRAG
           end == EndOf(Len(payload), index)
<1>0. MAX_FRAG \in Nat /\ MAX_FRAG > 0 /\ Len(payload) \in Nat
  BY WireSizes
<1>1. /\ start \in Nat /\ start <= Len(payload) /\ index \in Nat
  BY <1>0, Fragmenting
<1>2. (index + 1) * MAX_FRAG = start + MAX_FRAG
  BY <1>0, <1>1
<1>3. end = IF start + MAX_FRAG < Len(payload) THEN start + MAX_FRAG ELSE Len(payload)
  BY <1>2 DEF EndOf
<1>4. Chunk(payload, index) = SubSeq(payload, start + 1, end)
  BY DEF Chunk, EndOf
<1> HIDE DEF start, end
<1>5. end \in Nat /\ start <= end /\ end <= Len(payload)
  BY <1>0, <1>1, <1>3
<1>6. /\ SubSeq(payload, start + 1, end) \in Seq(Byte)
      /\ Len(SubSeq(payload, start + 1, end)) = end - start
      /\ \A k \in 1..(end - start) : SubSeq(payload, start + 1, end)[k] = payload[start + k]
  BY <1>1, <1>5
<1> QED BY <1>1, <1>4, <1>5, <1>6 DEF start, end

\* The datagrams of a packet.
LEMMA SentAs ==
    ASSUME NEW p, PacketMade(p), NEW i \in DOMAIN EncodePackets(p)
    PROVE  LET bytes == EncodePackets(p)[i]
               total == TotalFrags(Len(p.payload))
           IN \/ p.codec # "pcm24" /\ p.plane = "LegacyLas1" /\ bytes = EncodeLas1(p)
              \/ p.codec # "pcm24" /\ p.plane = "V2Header" /\ bytes = EncodeV2(p)
              \/ /\ p.codec = "pcm24" /\ p.plane = "V2Header" /\ total \in 1..255
                 /\ i \in 1..total
                 /\ bytes = EncodeV3(p, Chunk(p.payload, i - 1), i - 1, total)
<1> DEFINE total == TotalFrags(Len(p.payload))
<1>0. p.plane \in {"LegacyLas1", "V2Header"} /\ Len(p.payload) \in Nat
  BY PacketNumbers DEF PacketMade, Packet
<1>1. total \in Nat /\ total >= 1
  BY <1>0, Fragmenting
<1> HIDE DEF total
<1>2. CASE p.codec # "pcm24"
  <2>1. EncodePackets(p) = << IF p.plane = "LegacyLas1" THEN EncodeLas1(p) ELSE EncodeV2(p) >>
    BY <1>2 DEF EncodePackets
  <2> QED BY <1>0, <1>2, <2>1
<1>3. CASE p.codec = "pcm24" /\ (p.plane = "LegacyLas1" \/ total > MAX_FRAGS)
  <2>1. EncodePackets(p) = <<>>
    BY <1>3 DEF EncodePackets, total
  <2> QED BY <2>1
<1>4. CASE p.codec = "pcm24" /\ ~(p.plane = "LegacyLas1" \/ total > MAX_FRAGS)
  <2>1. EncodePackets(p)
            = [j \in 1..total |-> EncodeV3(p, Chunk(p.payload, j - 1), j - 1, total)]
    BY <1>4 DEF EncodePackets, total
  <2>2. total \in 1..255
    BY <1>1, <1>4, WireSizes
  <2> QED BY <1>0, <1>4, <2>1, <2>2 DEF total
<1> QED BY <1>2, <1>3, <1>4

LEMMA SentLength ==
    ASSUME NEW p, PacketMade(p)
    PROVE  Len(EncodePackets(p)) \in Nat
<1> DEFINE total == TotalFrags(Len(p.payload))
<1>0. Len(p.payload) \in Nat
  BY PacketNumbers
<1>1. total \in Nat
  BY <1>0, Fragmenting
<1> HIDE DEF total
<1>2. CASE p.codec # "pcm24"
  <2> DEFINE b == IF p.plane = "LegacyLas1" THEN EncodeLas1(p) ELSE EncodeV2(p)
  <2>1. EncodePackets(p) = <<b>>
    BY <1>2 DEF EncodePackets
  <2> HIDE DEF b
  <2> QED BY <2>1
<1>3. CASE p.codec = "pcm24" /\ (p.plane = "LegacyLas1" \/ total > MAX_FRAGS)
  <2>1. EncodePackets(p) = <<>>
    BY <1>3 DEF EncodePackets, total
  <2> QED BY <2>1
<1>4. CASE p.codec = "pcm24" /\ ~(p.plane = "LegacyLas1" \/ total > MAX_FRAGS)
  <2> DEFINE b(j) == EncodeV3(p, Chunk(p.payload, j - 1), j - 1, total)
  <2>1. EncodePackets(p) = [j \in 1..total |-> b(j)]
    BY <1>4 DEF EncodePackets, total
  <2> HIDE DEF b
  <2> QED BY <1>1, <2>1
<1> QED BY <1>2, <1>3, <1>4

(***************************************************************************)
(* Every step keeps the invariant.                                         *)
(***************************************************************************)

\* The formats in which the encoders return frames.
LEMMA FrameFormats ==
    ASSUME NEW kind \in Kinds, NEW e \in EncodedFrames(kind[2])
    PROVE  /\ e.rate \in Nat \ {0} /\ e.rate <= 96000 /\ e.frames \in Nat
           /\ kind[2] # "pcm24" =>
                  /\ e.rate \in EncoderRates
                  /\ e.frames = e.rate \div 100 \/ e.frames = e.rate \div 50
<1>1. ASSUME NEW rate \in Nat
      PROVE  /\ NormalizeEncoderSampleRate(rate) \in EncoderRates
             /\ NormalizeEncoderSampleRate(rate) <= 96000
             /\ NormalizeEncoderSampleRate(rate) \in Nat \ {0}
             /\ NormalizeEncoderSampleRate(rate) \div 100 \in Nat
             /\ NormalizeEncoderSampleRate(rate) \div 50 \in Nat
  <2>1. NormalizeEncoderSampleRate(rate) \in EncoderRates
    BY SMT DEF NormalizeEncoderSampleRate, EncoderRates
  <2> QED BY <2>1, SMT DEF EncoderRates
<1>2. CASE kind[2] = "pcm16"
  <2>1. PICK rate \in PREFERRED : e = Pcm16Frame(rate)
    BY <1>2 DEF EncodedFrames
  <2>2. rate \in Nat
    BY WireSizes
  <2> DEFINE r == NormalizeEncoderSampleRate(rate)
  <2>3. e.rate = r /\ e.frames = r \div 100
    BY <2>1 DEF Pcm16Frame
  <2>4. r \in EncoderRates /\ r <= 96000 /\ r \in Nat \ {0} /\ r \div 100 \in Nat
    BY <1>1, <2>2, SMT
  <2> HIDE DEF r
  <2> QED BY <2>3, <2>4, SMT
<1>3. CASE kind[2] = "opus"
  <2>1. PICK rate \in PREFERRED : e = OpusFrame(rate)
    BY <1>3 DEF EncodedFrames
  <2>2. rate \in Nat
    BY WireSizes
  <2> DEFINE r == NormalizeEncoderSampleRate(rate)
  <2>3. e.rate = r /\ e.frames = r \div 50
    BY <2>1 DEF OpusFrame
  <2>4. r \in EncoderRates /\ r <= 96000 /\ r \in Nat \ {0} /\ r \div 50 \in Nat
    BY <1>1, <2>2, SMT
  <2> HIDE DEF r
  <2> QED BY <2>3, <2>4, SMT
<1>4. CASE kind[2] = "pcm24"
  <2>1. PICK src \in SOURCES : e = Pcm24Frame(src)
    BY <1>4 DEF EncodedFrames
  <2>2. src.rate \in Nat /\ src.rate > 0 /\ src.frames \in Nat
    BY WireSizes
  <2> DEFINE r == Pcm24TargetSampleRate(src.rate)
  <2>3. e.rate = r /\ e.frames = (src.frames * r) \div src.rate
    BY <2>1 DEF Pcm24Frame
  <2>4. r \in Nat \ {0} /\ r <= 96000
    BY <2>2, SMT DEF Pcm24TargetSampleRate
  <2> HIDE DEF r
  <2>5. src.frames * r \in Nat
    BY <2>2, <2>4, SMT
  <2>6. (src.frames * r) \div src.rate \in Nat
    BY <2>2, <2>5, Quotient
  <2> QED BY <1>4, <2>3, <2>4, <2>6, SMT
<1> QED BY <1>2, <1>3, <1>4 DEF Kinds

\* What SendPacket makes is a packet.
LEMMA SendMakes ==
    ASSUME WireInv, NEW kind \in Kinds, NEW e \in EncodedFrames(kind[2]),
           NEW silent \in BOOLEAN, NEW changed \in BOOLEAN, NEW n \in 0..MAX_PAYLOAD,
           sequence < FIRST_SEQUENCE + MAX_PACKETS,
           NEW p,
           p = [plane |-> kind[1], codec |-> kind[2], sequence |-> sequence,
                timestamp_ms |-> 70000 + sequence, flags |-> LegacyFlagsForFrame(silent),
                v2_flags |-> V2FlagsForFrame(LegacyFlagsForFrame(silent), changed, packets = {}),
                sample_rate |-> e.rate, channels |-> 2, frames_per_packet |-> e.frames,
                payload |-> [i \in 1..n |-> (16 * sequence + i) % 256]]
    PROVE  PacketMade(p)
<1>1. sequence \in Nat
  BY DEF WireInv
<1>2. LegacyFlagsForFrame(silent) \in 0..1
  BY DEF LegacyFlagsForFrame, UDP_FLAG_V2_SILENCE
<1>3. V2FlagsForFrame(LegacyFlagsForFrame(silent), changed, packets = {}) \in 0..7
  BY DEF V2FlagsForFrame, UDP_FLAG_V2_SILENCE, UDP_FLAG_V2_CONFIG_CHANGED,
         UDP_FLAG_V2_DISCONTINUITY
<1> DEFINE payload == [i \in 1..n |-> (16 * sequence + i) % 256]
<1>4. n \in Nat /\ n <= MAX_PAYLOAD
  BY WireSizes
<1>5. \A i \in 1..n : (16 * sequence + i) % 256 \in Byte
  BY <1>1, <1>4 DEF Byte
<1>6. payload \in Seq(Byte) /\ Len(payload) = n
  BY <1>4, <1>5
<1>7. /\ kind[1] \in {"LegacyLas1", "V2Header"} /\ kind[2] \in {"pcm16", "opus", "pcm24"}
      /\ <<kind[1], kind[2]>> \in Kinds
  BY DEF Kinds
<1>8. /\ e.rate \in Nat \ {0} /\ e.rate <= 96000 /\ e.frames \in Nat
      /\ kind[2] # "pcm24" =>
             /\ e.rate \in EncoderRates
             /\ e.frames = e.rate \div 100 \/ e.frames = e.rate \div 50
  BY FrameFormats, SMT
<1>9. p.payload = payload /\ p.plane = kind[1] /\ p.codec = kind[2] /\ p.sequence = sequence
      /\ p.timestamp_ms = 70000 + sequence /\ p.sample_rate = e.rate
      /\ p.frames_per_packet = e.frames
  OBVIOUS
<1>10. 70000 + sequence \in Nat
  BY <1>1, SMT
<1> HIDE DEF payload
<1>11. p \in Packet
  BY <1>1, <1>2, <1>3, <1>6, <1>7, <1>8, <1>10, SMT DEF Packet, payload
<1> QED BY <1>4, <1>6, <1>7, <1>8, <1>9, <1>11, SMT DEF PacketMade

LEMMA WireInit == Init => WireInv
BY WireSizes, SMT DEF Init, WireInv

LEMMA WireNext == WireInv /\ [Next]_vars => WireInv'
<1> SUFFICES ASSUME WireInv, [Next]_vars
             PROVE  WireInv'
  OBVIOUS
<1>1. ASSUME NEW kind \in Kinds, NEW silent \in BOOLEAN, NEW changed \in BOOLEAN,
             NEW n \in 0..MAX_PAYLOAD, NEW e \in EncodedFrames(kind[2]),
             SendPacket(kind, e, silent, changed, n)
      PROVE  WireInv'
  <2> DEFINE p == [plane |-> kind[1], codec |-> kind[2], sequence |-> sequence,
                   timestamp_ms |-> 70000 + sequence, flags |-> LegacyFlagsForFrame(silent),
                   v2_flags |-> V2FlagsForFrame(LegacyFlagsForFrame(silent), changed,
                                                packets = {}),
                   sample_rate |-> e.rate, channels |-> 2, frames_per_packet |-> e.frames,
                   payload |-> [i \in 1..n |-> (16 * sequence + i) % 256]]
             out == EncodePackets(p)
  <2>1. /\ sequence < FIRST_SEQUENCE + MAX_PACKETS /\ truncated = <<>>
        /\ sequence' = sequence + (IF Len(out) > 1 THEN Len(out) ELSE 1)
        /\ packets' = packets \cup {p}
        /\ net' = net \cup {[bytes |-> out[i], of |-> p] : i \in DOMAIN out}
        /\ heard' = heard /\ truncated' = truncated
    BY <1>1, SMT DEF SendPacket
  <2>2. p.sequence = sequence
    OBVIOUS
  <2>3. PacketMade(p)
    BY <2>1, SendMakes, SMT
  <2> HIDE DEF p
  <2>4. Len(out) \in Nat
    BY <2>3, SentLength
  <2>5. /\ sequence \in Nat /\ heard \subseteq net /\ \A d \in heard : d.of.codec = "pcm24"
        /\ \A q \in packets : PacketMade(q) /\ q.sequence < sequence
        /\ \A q, r \in packets : q.sequence = r.sequence => q = r
        /\ \A d \in net : SentFor(d)
    BY DEF WireInv
  <2>6. sequence' \in Nat /\ sequence' > sequence
    BY <2>1, <2>4, <2>5
  <2>7. \A q \in packets : q.sequence \in Nat
    BY <2>5, PacketNumbers
  <2>8. \A q \in packets' : PacketMade(q) /\ q.sequence < sequence'
    BY <2>1, <2>2, <2>3, <2>5, <2>6, <2>7
  <2>9. \A q, r \in packets' : q.sequence = r.sequence => q = r
    BY <2>1, <2>2, <2>5, <2>7
  <2>10. ASSUME NEW d \in net'
         PROVE  SentFor(d)'
    <3>1. CASE d \in net
      BY <2>1, <2>5, <3>1 DEF SentFor
    <3>2. CASE d \notin net
      <4>1. PICK i \in DOMAIN out : d = [bytes |-> out[i], of |-> p]
        BY <2>1, <3>2
      <4>2. d.bytes = out[i] /\ d.of = p
        BY <4>1
      <4> QED BY <2>1, <4>2 DEF SentFor
    <3> QED BY <3>1, <3>2
  <2>11. /\ heard' \subseteq net' /\ truncated' = <<>>
         /\ \A d \in heard' : d.of.codec = "pcm24"
    BY <2>1, <2>5
  <2> QED BY <2>6, <2>8, <2>9, <2>10, <2>11 DEF WireInv
<1>2. ASSUME NEW d \in net, Deliver(d)
      PROVE  WireInv'
  BY <1>2 DEF Deliver, WireInv, SentFor
<1>3. ASSUME NEW d \in net, NEW cut \in 1..(Len(d.bytes) - 1), Truncate(d, cut)
      PROVE  WireInv'
  BY <1>3 DEF Truncate, WireInv, SentFor
<1>4. CASE UNCHANGED vars
  BY <1>4 DEF vars, WireInv, SentFor
<1> QED BY <1>1, <1>2, <1>3, <1>4 DEF Next

\* The invariant holds in every behaviour of the sender, the network and the
\* receivers.
THEOREM WireInvariant == Spec => []WireInv
BY WireInit, WireNext, PTL DEF Spec

(***************************************************************************)
(* What the invariant says of a datagram that is sent.                     *)
(***************************************************************************)

\* A datagram is one of three things.
LEMMA Datagrams ==
    ASSUME WireInv, NEW d \in net
    PROVE  LET p == d.of
               total == TotalFrags(Len(p.payload))
           IN /\ p \in packets /\ PacketMade(p)
              /\ \/ p.codec # "pcm24" /\ p.plane = "LegacyLas1" /\ d.bytes = EncodeLas1(p)
                 \/ p.codec # "pcm24" /\ p.plane = "V2Header" /\ d.bytes = EncodeV2(p)
                 \/ /\ p.codec = "pcm24" /\ p.plane = "V2Header" /\ total \in 1..255
                    /\ \E index \in 0..(total - 1) :
                           d.bytes = EncodeV3(p, Chunk(p.payload, index), index, total)
<1> DEFINE p == d.of
           total == TotalFrags(Len(p.payload))
<1>1. p \in packets /\ PacketMade(p)
  BY DEF WireInv, SentFor
<1>2. PICK i \in DOMAIN EncodePackets(p) : d.bytes = EncodePackets(p)[i]
  BY DEF WireInv, SentFor
<1> HIDE DEF p
<1>3. \/ p.codec # "pcm24" /\ p.plane = "LegacyLas1" /\ d.bytes = EncodeLas1(p)
      \/ p.codec # "pcm24" /\ p.plane = "V2Header" /\ d.bytes = EncodeV2(p)
      \/ /\ p.codec = "pcm24" /\ p.plane = "V2Header" /\ total \in 1..255
         /\ i \in 1..total
         /\ d.bytes = EncodeV3(p, Chunk(p.payload, i - 1), i - 1, total)
  BY <1>1, <1>2, SentAs
<1> HIDE DEF total
<1>4. ASSUME total \in 1..255, i \in 1..total
      PROVE  i - 1 \in 0..(total - 1)
  BY <1>4
<1> QED BY <1>1, <1>3, <1>4 DEF p, total

\* The fragment of a packet, as V3Seen and V3Result take it.
LEMMA FragmentFits ==
    ASSUME NEW p, PacketMade(p), NEW index \in 0..(TotalFrags(Len(p.payload)) - 1),
           TotalFrags(Len(p.payload)) \in 1..255
    PROVE  /\ Chunk(p.payload, index) \in Seq(Byte) /\ Len(Chunk(p.payload, index)) <= MAX_PAYLOAD
           /\ index \in Nat /\ index <= 255
<1>1. p.payload \in Seq(Byte) /\ Len(p.payload) <= MAX_PAYLOAD /\ Len(p.payload) \in Nat
  BY PacketNumbers DEF PacketMade
<1> DEFINE start == index * MAX_FRAG
           end == EndOf(Len(p.payload), index)
           chunk == Chunk(p.payload, index)
<1>2. /\ start \in Nat /\ end \in Nat /\ start <= end /\ end <= Len(p.payload)
      /\ chunk \in Seq(Byte) /\ Len(chunk) = end - start
  BY <1>1, Chunks
<1> HIDE DEF start, end, chunk
<1>3. Len(chunk) <= MAX_PAYLOAD
  BY <1>1, <1>2, WireSizes
<1> DEFINE total == TotalFrags(Len(p.payload))
<1> HIDE DEF total
<1>4. total \in 1..255 /\ index \in 0..(total - 1)
  BY DEF total
<1>5. index \in Nat /\ index <= 255
  BY <1>4
<1> QED BY <1>2, <1>3, <1>5 DEF chunk

\* What was cut off.
LEMMA TruncatedHolds == WireInv => TruncatedRejected
<1> SUFFICES ASSUME WireInv, truncated # <<>>
             PROVE  Accepted(truncated) = {} /\ PhoneParse(truncated) = <<>>
  BY DEF TruncatedRejected
<1>1. PICK d \in net : \E cut \in 1..(Len(d.bytes) - 1) : truncated = SubSeq(d.bytes, 1, cut)
  BY DEF WireInv
<1>2. PICK cut \in 1..(Len(d.bytes) - 1) : truncated = SubSeq(d.bytes, 1, cut)
  BY <1>1
<1> DEFINE p == d.of
           total == TotalFrags(Len(p.payload))
<1>3. PacketMade(p)
  BY Datagrams
<1>4. CASE p.codec # "pcm24" /\ p.plane = "LegacyLas1" /\ d.bytes = EncodeLas1(p)
  <2> HIDE DEF p
  <2>1. Len(EncodeLas1(p)) \in Nat
    BY <1>3, <1>4, Las1Length
  <2>2. cut \in 0..Len(EncodeLas1(p)) /\ cut < Len(EncodeLas1(p))
    BY <1>4, <2>1
  <2> QED BY <1>2, <1>3, <1>4, <2>2, Las1Result
<1>5. CASE p.codec # "pcm24" /\ p.plane = "V2Header" /\ d.bytes = EncodeV2(p)
  <2> HIDE DEF p
  <2>1. Len(EncodeV2(p)) \in Nat
    BY <1>3, <1>5, V2Length
  <2>2. cut \in 0..Len(EncodeV2(p)) /\ cut < Len(EncodeV2(p))
    BY <1>5, <2>1
  <2> QED BY <1>2, <1>3, <1>5, <2>2, V2Result
<1>6. ASSUME total \in 1..255, NEW index \in 0..(total - 1),
             d.bytes = EncodeV3(p, Chunk(p.payload, index), index, total)
      PROVE  Accepted(truncated) = {} /\ PhoneParse(truncated) = <<>>
  <2> DEFINE chunk == Chunk(p.payload, index)
  <2> HIDE DEF p, chunk
  <2>1. chunk \in Seq(Byte) /\ Len(chunk) <= MAX_PAYLOAD /\ index \in Nat /\ index <= 255
    BY <1>3, <1>6, FragmentFits DEF chunk
  <2> HIDE DEF total
  <2>2. d.bytes = EncodeV3(p, chunk, index, total) /\ total \in Nat /\ total <= 255
    BY <1>6 DEF chunk
  <2>3. Len(EncodeV3(p, chunk, index, total)) \in Nat
    BY <1>3, <2>1, <2>2, V3Length
  <2> DEFINE bytes == EncodeV3(p, chunk, index, total)
  <2>4. cut \in 0..Len(bytes) /\ cut < Len(bytes)
    BY <2>2, <2>3
  <2>5. total >= 1 /\ index < total
    BY <1>6
  <2>6. Accepted(SubSeq(bytes, 1, cut)) = {} /\ PhoneParse(SubSeq(bytes, 1, cut)) = <<>>
    BY <1>3, <2>1, <2>2, <2>4, <2>5, V3Result
  <2> QED BY <1>2, <2>2, <2>6
<1> QED BY <1>4, <1>5, <1>6, Datagrams, ZenonT(30)

LEMMA DecodedParts ==
    ASSUME NEW bytes
    PROVE  /\ Decoders(bytes)[1] = DecodeLas1(bytes)
           /\ Decoders(bytes)[2] = DecodeV2(bytes) /\ Decoders(bytes)[3] = DecodeV3(bytes)
           /\ DecodeLas1(bytes).header = DecodeHeader(LAS1At, bytes)
           /\ DecodeLas1(bytes).payload = SubSeq(bytes, 28, Len(bytes))
           /\ DecodeV2(bytes).header = DecodeHeader(V2At, bytes)
           /\ DecodeV2(bytes).payload = SubSeq(bytes, 34, Len(bytes))
           /\ DecodeV3(bytes).header = DecodeHeader(V3At, bytes)
           /\ DecodeV3(bytes).payload = SubSeq(bytes, 38, Len(bytes))
<1>1. /\ Decoders(bytes)[1] = DecodeLas1(bytes)
      /\ Decoders(bytes)[2] = DecodeV2(bytes) /\ Decoders(bytes)[3] = DecodeV3(bytes)
  BY DEF Decoders
<1>2. /\ DecodeLas1(bytes).header = DecodeHeader(LAS1At, bytes)
      /\ DecodeLas1(bytes).payload = SubSeq(bytes, 28, Len(bytes))
  <2>1. AUDIO_HEADER_LEN + 1 = 28
    BY HeaderLengths
  <2> QED BY <2>1 DEF DecodeLas1, Decoded
<1>3. /\ DecodeV2(bytes).header = DecodeHeader(V2At, bytes)
      /\ DecodeV2(bytes).payload = SubSeq(bytes, 34, Len(bytes))
  <2>1. UDP_AUDIO_HEADER_V2_LEN + 1 = 34
    BY HeaderLengths
  <2> QED BY <2>1 DEF DecodeV2, Decoded
<1>4. /\ DecodeV3(bytes).header = DecodeHeader(V3At, bytes)
      /\ DecodeV3(bytes).payload = SubSeq(bytes, 38, Len(bytes))
  <2>1. UDP_AUDIO_HEADER_V3_LEN + 1 = 38
    BY HeaderLengths
  <2> QED BY <2>1 DEF DecodeV3, Decoded
<1> QED BY <1>1, <1>2, <1>3, <1>4

\* What a complete LAS1 packet says.
LEMMA Las1Says ==
    ASSUME NEW p, PacketMade(p), p.codec # "pcm24"
    PROVE  LET bytes == EncodeLas1(p)
               r == DecodeLas1(bytes)
           IN /\ Accepted(bytes) = {1} /\ r.header.flags = p.flags
              /\ r.header.sequence = p.sequence /\ r.header.timestamp_ms = p.timestamp_ms
              /\ r.header.sample_rate = p.sample_rate /\ r.header.channels = p.channels
              /\ r.payload = p.payload
<1> DEFINE bytes == EncodeLas1(p)
           h == DecodeHeader(LAS1At, bytes)
<1>1. /\ Accepted(bytes) = {1} /\ h.flags = p.flags /\ h.sequence = p.sequence
      /\ h.timestamp_ms = p.timestamp_ms /\ h.sample_rate = p.sample_rate
      /\ h.channels = p.channels /\ SubSeq(bytes, 28, Len(bytes)) = p.payload
  BY Las1Whole
<1> HIDE DEF bytes
<1>2. DecodeLas1(bytes).header = h /\ DecodeLas1(bytes).payload = p.payload
  BY <1>1, DecodedParts
<1> QED BY <1>1, <1>2 DEF bytes

\* What a complete V2 packet says.
LEMMA V2Says ==
    ASSUME NEW p, PacketMade(p), p.codec # "pcm24"
    PROVE  LET bytes == EncodeV2(p)
               r == DecodeV2(bytes)
           IN /\ Accepted(bytes) = {2} /\ r.header.flags = p.v2_flags
              /\ r.header.sequence = p.sequence /\ r.header.timestamp_ms = p.timestamp_ms
              /\ r.header.sample_rate = p.sample_rate /\ r.header.channels = p.channels
              /\ r.payload = p.payload
<1> DEFINE bytes == EncodeV2(p)
           h == DecodeHeader(V2At, bytes)
<1>1. /\ Accepted(bytes) = {2} /\ h.flags = p.v2_flags /\ h.sequence = p.sequence
      /\ h.timestamp_ms = p.timestamp_ms /\ h.sample_rate = p.sample_rate
      /\ h.channels = p.channels /\ SubSeq(bytes, 34, Len(bytes)) = p.payload
  BY V2Whole
<1> HIDE DEF bytes
<1>2. DecodeV2(bytes).header = h /\ DecodeV2(bytes).payload = p.payload
  BY <1>1, DecodedParts
<1> QED BY <1>1, <1>2 DEF bytes

\* What a fragment of a packet says.
LEMMA FragmentSays ==
    ASSUME NEW p, PacketMade(p), TotalFrags(Len(p.payload)) \in 1..255,
           NEW index \in 0..(TotalFrags(Len(p.payload)) - 1)
    PROVE  LET total == TotalFrags(Len(p.payload))
               bytes == EncodeV3(p, Chunk(p.payload, index), index, total)
               r == DecodeV3(bytes)
           IN /\ Accepted(bytes) = {3} /\ PhoneParse(bytes) = <<>>
              /\ r.header.flags = p.v2_flags /\ r.header.sequence = p.sequence + index
              /\ r.header.timestamp_ms = p.timestamp_ms /\ r.header.sample_rate = p.sample_rate
              /\ r.header.channels = p.channels /\ r.header.frag_index = index
              /\ r.header.total_frags = total /\ r.header.logical_seq = p.sequence
              /\ r.payload = Chunk(p.payload, index)
<1> DEFINE total == TotalFrags(Len(p.payload))
           chunk == Chunk(p.payload, index)
           bytes == EncodeV3(p, chunk, index, total)
           h == DecodeHeader(V3At, bytes)
<1>1. chunk \in Seq(Byte) /\ Len(chunk) <= MAX_PAYLOAD
  BY FragmentFits
<1> HIDE DEF total, chunk
<1>2. total \in 1..255 /\ index \in 0..(total - 1)
  BY DEF total
<1>3. total \in Nat /\ total >= 1 /\ total <= 255 /\ index \in Nat /\ index < total
  BY <1>2
<1>4. /\ Accepted(bytes) = {3} /\ PhoneParse(bytes) = <<>>
      /\ h.flags = p.v2_flags /\ h.sequence = p.sequence + index
      /\ h.timestamp_ms = p.timestamp_ms /\ h.sample_rate = p.sample_rate
      /\ h.channels = p.channels
      /\ h.frag_index = index /\ h.total_frags = total /\ h.logical_seq = p.sequence
      /\ SubSeq(bytes, 38, Len(bytes)) = chunk
  BY <1>1, <1>3, V3Whole
<1> HIDE DEF bytes
<1>5. DecodeV3(bytes).header = h /\ DecodeV3(bytes).payload = chunk
  BY <1>4, DecodedParts
<1> QED BY <1>4, <1>5 DEF total, chunk, bytes

LEMMA RoundTripHolds == WireInv => RoundTrip
<1> SUFFICES ASSUME WireInv, NEW d \in net
             PROVE  LET k == IF d.of.plane = "LegacyLas1" THEN 1
                             ELSE IF d.of.codec = "pcm24" THEN 3 ELSE 2
                        r == Decoders(d.bytes)[k]
                    IN /\ Accepted(d.bytes) = {k}
                       /\ \A f \in {"timestamp_ms", "sample_rate", "channels"} :
                              r.header[f] = d.of[f]
                       /\ r.header.flags = FlagsSent(d.of)
                       /\ k # 3 => r.payload = d.of.payload
                                   /\ r.header.sequence = d.of.sequence
                       /\ k = 3 => r.header.logical_seq = d.of.sequence
  BY DEF RoundTrip
<1> DEFINE p == d.of
           bytes == d.bytes
           total == TotalFrags(Len(p.payload))
<1>1. PacketMade(p)
  BY Datagrams
<1>2. CASE p.codec # "pcm24" /\ p.plane = "LegacyLas1" /\ bytes = EncodeLas1(p)
  <2> HIDE DEF p, bytes
  <2> DEFINE r == DecodeLas1(bytes)
  <2>1. /\ Accepted(bytes) = {1} /\ r.header.flags = p.flags
        /\ r.header.sequence = p.sequence /\ r.header.timestamp_ms = p.timestamp_ms
        /\ r.header.sample_rate = p.sample_rate /\ r.header.channels = p.channels
        /\ r.payload = p.payload
    BY <1>1, <1>2, Las1Says
  <2>2. Decoders(bytes)[1] = r
    BY DecodedParts
  <2> HIDE DEF r
  <2> QED BY <1>2, <2>1, <2>2 DEF FlagsSent, p, bytes
<1>3. CASE p.codec # "pcm24" /\ p.plane = "V2Header" /\ bytes = EncodeV2(p)
  <2> HIDE DEF p, bytes
  <2> DEFINE r == DecodeV2(bytes)
  <2>1. /\ Accepted(bytes) = {2} /\ r.header.flags = p.v2_flags
        /\ r.header.sequence = p.sequence /\ r.header.timestamp_ms = p.timestamp_ms
        /\ r.header.sample_rate = p.sample_rate /\ r.header.channels = p.channels
        /\ r.payload = p.payload
    BY <1>1, <1>3, V2Says
  <2>2. Decoders(bytes)[2] = r
    BY DecodedParts
  <2> HIDE DEF r
  <2> QED BY <1>3, <2>1, <2>2 DEF FlagsSent, p, bytes
<1>4. ASSUME p.codec = "pcm24", p.plane = "V2Header", total \in 1..255,
             NEW index \in 0..(total - 1),
             bytes = EncodeV3(p, Chunk(p.payload, index), index, total)
      PROVE  LET r == Decoders(bytes)[3]
             IN /\ Accepted(bytes) = {3}
                /\ \A f \in {"timestamp_ms", "sample_rate", "channels"} : r.header[f] = p[f]
                /\ r.header.flags = FlagsSent(p) /\ r.header.logical_seq = p.sequence
  <2> HIDE DEF p, bytes
  <2> DEFINE r == DecodeV3(bytes)
  <2>1. /\ Accepted(bytes) = {3} /\ r.header.flags = p.v2_flags
        /\ r.header.timestamp_ms = p.timestamp_ms
        /\ r.header.sample_rate = p.sample_rate /\ r.header.channels = p.channels
        /\ r.header.logical_seq = p.sequence
    <3> DEFINE sent == EncodeV3(p, Chunk(p.payload, index), index, total)
    <3>1. /\ Accepted(sent) = {3} /\ DecodeV3(sent).header.flags = p.v2_flags
          /\ DecodeV3(sent).header.timestamp_ms = p.timestamp_ms
          /\ DecodeV3(sent).header.sample_rate = p.sample_rate
          /\ DecodeV3(sent).header.channels = p.channels
          /\ DecodeV3(sent).header.logical_seq = p.sequence
      BY <1>1, <1>4, FragmentSays, ZenonT(30)
    <3> QED BY <1>4, <3>1
  <2>2. Decoders(bytes)[3] = r
    BY DecodedParts
  <2> HIDE DEF r
  <2> QED BY <1>4, <2>1, <2>2 DEF FlagsSent, p, bytes
<1>5. CASE p.codec = "pcm24" /\ p.plane = "V2Header" /\ total \in 1..255
           /\ \E index \in 0..(total - 1) :
                  bytes = EncodeV3(p, Chunk(p.payload, index), index, total)
  BY <1>4, <1>5
<1> QED BY <1>2, <1>3, <1>5, Datagrams

\* Whole milliseconds lose nothing at the rates of the encoders.
LEMMA FramesBack ==
    ASSUME NEW p, PacketMade(p), p.codec # "pcm24"
    PROVE  (p.sample_rate * FrameDurationMs(p)) \div 1000 = p.frames_per_packet
<1>1. p.sample_rate \in EncoderRates
  BY SMT DEF PacketMade
<1>2. p.frames_per_packet = p.sample_rate \div 100 \/ p.frames_per_packet = p.sample_rate \div 50
  BY SMT DEF PacketMade
<1> DEFINE r == p.sample_rate
           n == p.frames_per_packet
<1> HIDE DEF r, n
<1>3. r \in EncoderRates /\ (n = r \div 100 \/ n = r \div 50)
  BY <1>1, <1>2 DEF r, n
<1>4. (r * ((n * 1000) \div r)) \div 1000 = n /\ r # 0
  BY <1>3, SMT DEF EncoderRates
<1> QED BY <1>4, SMT DEF FrameDurationMs, r, n

LEMMA PhoneHolds == WireInv => PhoneAgrees
<1> SUFFICES ASSUME WireInv, NEW d \in net
             PROVE  LET r == PhoneParse(d.bytes)
                    IN IF d.of.codec = "pcm24" THEN r = <<>>
                       ELSE /\ r # <<>>
                            /\ \A f \in {"sequence", "sample_rate", "channels",
                                         "frames_per_packet", "payload"} : r[1][f] = d.of[f]
                            /\ r[1].flags = FlagsSent(d.of)
                            /\ r[1].codec = Codecs[d.of.codec]
  BY DEF PhoneAgrees
<1> DEFINE p == d.of
           bytes == d.bytes
           total == TotalFrags(Len(p.payload))
<1>1. PacketMade(p)
  BY Datagrams
<1>2. /\ <<p.plane, p.codec>> \in Kinds /\ p.codec \in {"pcm16", "opus", "pcm24"}
      /\ Len(p.payload) \in Nat
  BY <1>1, PacketNumbers DEF PacketMade, Packet
<1>3. CASE p.codec # "pcm24" /\ p.plane = "LegacyLas1" /\ bytes = EncodeLas1(p)
  <2> HIDE DEF p, bytes
  <2> DEFINE h == DecodeHeader(LAS1At, bytes)
             body == SubSeq(bytes, 28, Len(bytes))
  <2>1. /\ FromLeBytes(bytes, 0, 4) = MAGIC_LAS1 /\ Len(bytes) = 27 + Len(p.payload)
        /\ h.flags = p.flags /\ h.sequence = p.sequence /\ h.sample_rate = p.sample_rate
        /\ h.channels = p.channels /\ h.frames_per_packet = p.frames_per_packet
        /\ h.payload_size = Len(p.payload) /\ body = p.payload
    BY <1>1, <1>3, Las1Whole
  <2>2. bytes \in Seq(Byte)
    BY <1>1, <1>3, Las1Length
  <2>3. PhoneParse(bytes) = ParseLegacy(bytes)
    BY <1>2, <2>1, <2>2, PhoneSees
  <2>4. ParseLegacy(bytes) = PhonePacket(h, Codecs.pcm16, h.frames_per_packet, body)
    BY <1>2, <2>1 DEF ParseLegacy
  <2>5. p.codec = "pcm16"
    BY <1>2, <1>3 DEF Kinds
  <2>6. Codecs.pcm16 = Codecs[p.codec]
    BY <2>5
  <2> HIDE DEF h, body
  <2> QED BY <1>3, <2>1, <2>3, <2>4, <2>6 DEF PhonePacket, FlagsSent, p, bytes
<1>4. CASE p.codec # "pcm24" /\ p.plane = "V2Header" /\ bytes = EncodeV2(p)
  <2> HIDE DEF p, bytes
  <2> DEFINE h == DecodeHeader(V2At, bytes)
             frames == (h.sample_rate * h.frame_duration_ms) \div 1000
  <2>1. /\ FromLeBytes(bytes, 0, 4) = MAGIC_LAV2 /\ Len(bytes) = 33 + Len(p.payload)
        /\ h.version = 2 /\ h.header_size = 33 /\ h.codec = Codecs[p.codec]
        /\ h.flags = p.v2_flags /\ h.sequence = p.sequence /\ h.sample_rate = p.sample_rate
        /\ h.channels = p.channels /\ h.frame_duration_ms = FrameDurationMs(p)
        /\ h.payload_size = Len(p.payload) /\ SubSeq(bytes, 34, Len(bytes)) = p.payload
    BY <1>1, <1>4, V2Whole
  <2>2. bytes \in Seq(Byte)
    BY <1>1, <1>4, V2Length
  <2>3. PhoneParse(bytes) = ParseV2(bytes)
    BY <1>2, <2>1, <2>2, PhoneSees
  <2>4. Codecs[p.codec] \in {Codecs.pcm16, Codecs.opus}
    BY <1>2, <1>4
  <2>5. frames = p.frames_per_packet
    BY <1>1, <1>4, <2>1, FramesBack
  <2>6. SubSeq(bytes, h.header_size + 1, Len(bytes)) = p.payload
    BY <2>1
  <2>7. /\ ~(Len(bytes) < 33) /\ ~(h.header_size < 33) /\ ~(Len(bytes) < h.header_size)
        /\ Len(bytes) = h.header_size + h.payload_size
    BY <1>2, <2>1
  <2>8. ParseV2(bytes) = PhonePacket(h, h.codec, frames, p.payload)
    BY <2>1, <2>4, <2>6, <2>7, ZenonT(40) DEF ParseV2
  <2> HIDE DEF h, frames
  <2> QED BY <1>4, <2>1, <2>3, <2>5, <2>8 DEF PhonePacket, FlagsSent, p, bytes
<1>5. ASSUME p.codec = "pcm24", total \in 1..255, NEW index \in 0..(total - 1),
             bytes = EncodeV3(p, Chunk(p.payload, index), index, total)
      PROVE  PhoneParse(bytes) = <<>>
  <2> HIDE DEF p, bytes
  <2>1. PhoneParse(EncodeV3(p, Chunk(p.payload, index), index, total)) = <<>>
    BY <1>1, <1>5, FragmentSays
  <2> QED BY <1>5, <2>1
<1>6. CASE p.codec = "pcm24" /\ p.plane = "V2Header" /\ total \in 1..255
           /\ \E index \in 0..(total - 1) :
                  bytes = EncodeV3(p, Chunk(p.payload, index), index, total)
  BY <1>5, <1>6
<1> QED BY <1>3, <1>4, <1>6, Datagrams

\* The fragments of a payload, one behind the other, are the payload.
LEMMA ChunksConcatenate ==
    ASSUME NEW payload \in Seq(Byte), NEW parts,
           \A i \in 1..TotalFrags(Len(payload)) : parts[i] = Chunk(payload, i - 1)
    PROVE  IsConcatenation(payload, TotalFrags(Len(payload)), parts)
<1> DEFINE n == Len(payload)
           total == TotalFrags(n)
           cap(i) == IF i * MAX_FRAG < n THEN i * MAX_FRAG ELSE n
           at == [i \in 0..total |-> cap(i)]
<1>0. MAX_FRAG \in Nat /\ MAX_FRAG > 0 /\ n \in Nat
  BY WireSizes
<1>1. /\ total \in Nat /\ total >= 1 /\ total * MAX_FRAG \in Nat /\ n <= total * MAX_FRAG
      /\ \A index \in 0..(total - 1) : index * MAX_FRAG \in Nat /\ index * MAX_FRAG <= n
  BY <1>0, Fragmenting
<1>2. \A i \in 1..total :
          /\ parts[i] = Chunk(payload, i - 1)
          /\ (i - 1) * MAX_FRAG \in Nat /\ EndOf(n, i - 1) \in Nat
          /\ (i - 1) * MAX_FRAG <= EndOf(n, i - 1) /\ EndOf(n, i - 1) <= n
          /\ Len(parts[i]) = EndOf(n, i - 1) - (i - 1) * MAX_FRAG
          /\ \A k \in 1..Len(parts[i]) : payload[(i - 1) * MAX_FRAG + k] = parts[i][k]
  <2> SUFFICES ASSUME NEW i \in 1..total
               PROVE  /\ parts[i] = Chunk(payload, i - 1)
                      /\ (i - 1) * MAX_FRAG \in Nat /\ EndOf(n, i - 1) \in Nat
                      /\ (i - 1) * MAX_FRAG <= EndOf(n, i - 1) /\ EndOf(n, i - 1) <= n
                      /\ Len(parts[i]) = EndOf(n, i - 1) - (i - 1) * MAX_FRAG
                      /\ \A k \in 1..Len(parts[i]) :
                             payload[(i - 1) * MAX_FRAG + k] = parts[i][k]
    OBVIOUS
  <2> DEFINE index == i - 1
  <2>1. index \in 0..(total - 1)
    BY <1>1
  <2>2. parts[i] = Chunk(payload, index)
    OBVIOUS
  <2> HIDE DEF index
  <2>3. /\ index * MAX_FRAG \in Nat /\ EndOf(n, index) \in Nat
        /\ index * MAX_FRAG <= EndOf(n, index) /\ EndOf(n, index) <= n
        /\ Len(Chunk(payload, index)) = EndOf(n, index) - index * MAX_FRAG
        /\ \A k \in 1..(EndOf(n, index) - index * MAX_FRAG) :
               Chunk(payload, index)[k] = payload[index * MAX_FRAG + k]
    BY <2>1, Chunks
  <2> QED BY <2>2, <2>3 DEF index
<1> HIDE DEF n, total
<1>3. \A i \in 1..total : cap(i - 1) = (i - 1) * MAX_FRAG /\ cap(i) = EndOf(n, i - 1)
  <2> SUFFICES ASSUME NEW i \in 1..total
               PROVE  cap(i - 1) = (i - 1) * MAX_FRAG /\ cap(i) = EndOf(n, i - 1)
    OBVIOUS
  <2>1. (i - 1) * MAX_FRAG \in Nat /\ (i - 1) * MAX_FRAG <= n
    BY <1>1
  <2>2. cap(i - 1) = (i - 1) * MAX_FRAG
    BY <1>0, <2>1
  <2>3. (i - 1) + 1 = i
    BY <1>1
  <2> QED BY <2>2, <2>3 DEF EndOf
<1>4. \A i \in 0..total : cap(i) \in 0..n
  <2> SUFFICES ASSUME NEW i \in 0..total
               PROVE  cap(i) \in 0..n
    OBVIOUS
  <2>1. i * MAX_FRAG \in Nat
    BY <1>0, <1>1
  <2> QED BY <1>0, <2>1
<1>5. cap(0) = 0 /\ cap(total) = n
  <2>1. 0 * MAX_FRAG = 0
    BY <1>0
  <2> QED BY <1>0, <1>1, <2>1
<1> HIDE DEF cap
<1>6. at \in [0..total -> 0..n]
  BY <1>4
<1>7. at[0] = 0 /\ at[total] = n
  BY <1>1, <1>5
<1>8. ASSUME NEW i \in 1..total
      PROVE  /\ at[i] = at[i - 1] + Len(parts[i])
             /\ \A k \in 1..Len(parts[i]) : payload[at[i - 1] + k] = parts[i][k]
  <2>1. at[i] = EndOf(n, i - 1) /\ at[i - 1] = (i - 1) * MAX_FRAG
    BY <1>1, <1>3
  <2> HIDE DEF at
  <2> DEFINE start == (i - 1) * MAX_FRAG
             end == EndOf(n, i - 1)
  <2>2. /\ start \in Nat /\ end \in Nat /\ Len(parts[i]) = end - start
        /\ \A k \in 1..Len(parts[i]) : payload[start + k] = parts[i][k]
    BY <1>2
  <2>3. at[i] = end /\ at[i - 1] = start
    BY <2>1
  <2> HIDE DEF start, end
  <2> QED BY <2>2, <2>3
<1> HIDE DEF at
<1>9. IsConcatenation(payload, total, parts)
  BY <1>6, <1>7, <1>8 DEF IsConcatenation, n
<1> QED BY <1>9 DEF total, n

\* What is collected under the sequence number of a packet are its fragments.
LEMMA CollectedOf ==
    ASSUME WireInv, NEW p \in packets, NEW r \in Collected(p.sequence)
    PROVE  /\ r.header.total_frags = TotalFrags(Len(p.payload))
           /\ r.header.sequence = p.sequence + r.header.frag_index
           /\ r.payload = Chunk(p.payload, r.header.frag_index)
<1>1. PICK d \in heard : r = DecodeV3(d.bytes)
  BY DEF Collected
<1>2. d \in net /\ d.of.codec = "pcm24" /\ r.header.logical_seq = p.sequence
  BY DEF WireInv, Collected
<1> DEFINE q == d.of
           total == TotalFrags(Len(q.payload))
<1>3. q \in packets /\ PacketMade(q)
  BY <1>2, Datagrams
<1>4. total \in 1..255
  BY <1>2, Datagrams
<1>5. PICK index \in 0..(total - 1) :
          d.bytes = EncodeV3(q, Chunk(q.payload, index), index, total)
  BY <1>2, Datagrams
<1> HIDE DEF q
<1> DEFINE sent == EncodeV3(q, Chunk(q.payload, index), index, total)
<1>6. /\ DecodeV3(sent).header.sequence = q.sequence + index
      /\ DecodeV3(sent).header.frag_index = index /\ DecodeV3(sent).header.total_frags = total
      /\ DecodeV3(sent).header.logical_seq = q.sequence
      /\ DecodeV3(sent).payload = Chunk(q.payload, index)
  BY <1>3, <1>4, <1>5, FragmentSays
<1>7. r = DecodeV3(sent)
  BY <1>1, <1>5
<1>8. q = p
  BY <1>2, <1>3, <1>6, <1>7 DEF WireInv
<1> QED BY <1>6, <1>7, <1>8

LEMMA FragmentsHold == WireInv => FragmentsReassemble
<1> SUFFICES ASSUME WireInv, NEW p \in packets, p.codec = "pcm24"
             PROVE  LET got == Collected(p.sequence)
                        part(i) == CHOOSE r \in got : r.header.frag_index = i
                        total == TotalFrags(Len(p.payload))
                    IN {r.header.frag_index : r \in got} = 0..(total - 1) =>
                           /\ IsConcatenation(p.payload, total,
                                              [i \in 1..total |-> part(i - 1).payload])
                           /\ \A r \in got :
                                  /\ r.header.total_frags = total
                                  /\ r.header.sequence = p.sequence + r.header.frag_index
  BY DEF FragmentsReassemble
<1> DEFINE got == Collected(p.sequence)
           part(i) == CHOOSE r \in got : r.header.frag_index = i
           total == TotalFrags(Len(p.payload))
           parts == [i \in 1..total |-> part(i - 1).payload]
<1>1. PacketMade(p) /\ p.payload \in Seq(Byte) /\ Len(p.payload) \in Nat
  BY PacketNumbers DEF WireInv
<1>2. total \in Nat
  BY <1>1, Fragmenting
<1>3. \A r \in got : /\ r.header.total_frags = total
                     /\ r.header.sequence = p.sequence + r.header.frag_index
                     /\ r.payload = Chunk(p.payload, r.header.frag_index)
  BY CollectedOf
<1>4. ASSUME {r.header.frag_index : r \in got} = 0..(total - 1)
      PROVE  IsConcatenation(p.payload, total, parts)
  <2>1. ASSUME NEW i \in 1..total
        PROVE  parts[i] = Chunk(p.payload, i - 1)
    <3> HIDE DEF got, total
    <3>1. i - 1 \in 0..(total - 1)
      BY <1>2
    <3>2. \E r \in got : r.header.frag_index = i - 1
      BY <1>4, <3>1
    <3>3. part(i - 1) \in got /\ part(i - 1).header.frag_index = i - 1
      BY <3>2
    <3>4. part(i - 1).payload = Chunk(p.payload, i - 1)
      BY <1>3, <3>3
    <3> QED BY <3>4
  <2> HIDE DEF parts
  <2> QED BY <1>1, <2>1, ChunksConcatenate
<1> QED BY <1>3, <1>4

(***************************************************************************)
(* The theorems.                                                           *)
(***************************************************************************)

\* Whatever is encoded and in whatever order, every datagram is accepted by the
\* decoder of its own format and by no other, and gives back what was sent
\* (encode and decode of UdpAudioPacket, UdpAudioPacketV2 and UdpAudioPacketV3).
THEOREM RoundTrips == Spec => []RoundTrip
BY WireInvariant, RoundTripHolds, PTL

\* No part of a datagram passes for a datagram: what is left of one that was cut
\* off at any byte is refused by the three decoders and by LasPacketParser.
THEOREM TruncationsRejected == Spec => []TruncatedRejected
BY WireInvariant, TruncatedHolds, PTL

\* LasPacketParser reads from every LAS1 and V2 packet what the server put in,
\* the number of frames included, and takes no PCM24 fragment for a packet.
THEOREM PhoneReadsWhatIsSent == Spec => []PhoneAgrees
BY WireInvariant, PhoneHolds, PTL

\* For every length of a payload and every size of a fragment: the fragments
\* encode_packets_by_data_plane makes, all of them in whatever order, put
\* together by frag_index under one logical_seq, are the payload.
THEOREM FragmentsGiveThePayload == Spec => []FragmentsReassemble
BY WireInvariant, FragmentsHold, PTL
=============================================================================
