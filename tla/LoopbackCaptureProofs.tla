------------------------ MODULE LoopbackCaptureProofs ------------------------
(***************************************************************************)
(* Theorems about LoopbackCapture for every size of frame, packet, channel *)
(* and debug wav, and every number of captured samples.                    *)
(***************************************************************************)
EXTENDS LoopbackCapture, SequenceTheorems, TLAPS

(***************************************************************************)
(* The accumulator.                                                        *)
(***************************************************************************)

\* The samples of a packet.
Samples(p) == [i \in 1..p.n |-> p.silent]

\* They are as many as the packet says, all with its flag.
LEMMA SamplesOf ==
    ASSUME NEW p \in Packet
    PROVE  /\ Samples(p) \in Seq(BOOLEAN) /\ Len(Samples(p)) = p.n /\ p.n \in Nat
           /\ p.n >= 1 /\ \A i \in 1..p.n : Samples(p)[i] = p.silent
<1>1. p.n \in 1..MAX_PACKET /\ p.silent \in BOOLEAN
  BY DEF Packet
<1>2. p.n \in Nat /\ p.n >= 1
  BY <1>1, CaptureSizes
<1>3. Samples(p) \in [1..p.n -> BOOLEAN]
  BY <1>1 DEF Samples
<1>4. Samples(p) \in Seq(BOOLEAN)
  BY <1>2, <1>3, SeqDef
<1>5. \A i \in 1..p.n : Samples(p)[i] = p.silent
  BY DEF Samples
<1>6. PICK m \in Seq(BOOLEAN) : m = Samples(p)
  BY <1>4
<1>7. Len(m) \in Nat /\ DOMAIN m = 1..Len(m) /\ DOMAIN m = 1..p.n
  BY <1>3, <1>6, LenProperties
<1> QED BY <1>2, <1>4, <1>5, <1>6, <1>7

\* After a packet was pushed and pop_frame took its frame, either less than a
\* frame is left, or the accumulator grew by what the packet has more than one.
LEMMA RestGrowth ==
    ASSUME NEW a \in Seq(BOOLEAN), NEW p \in Packet
    PROVE  LET all == a \o Samples(p)
           IN  /\ Rest(all) \in Seq(BOOLEAN)
               /\ Len(Rest(all)) >= FRAME => Len(Rest(all)) - Len(a) <= MAX_PACKET - FRAME
<1> DEFINE all == a \o Samples(p)
<1>1. p.n \in 1..MAX_PACKET /\ p.n \in Nat /\ MAX_PACKET \in Nat /\ FRAME \in Nat
      /\ FRAME >= 1
  BY CaptureSizes DEF Packet
<1>2. Samples(p) \in Seq(BOOLEAN) /\ Len(Samples(p)) = p.n
  BY SamplesOf
<1>3. all \in Seq(BOOLEAN) /\ Len(all) = Len(a) + p.n /\ Len(a) \in Nat
  BY <1>2, ConcatProperties, LenProperties
<1> HIDE DEF all
<1> SUFFICES /\ Rest(all) \in Seq(BOOLEAN)
             /\ Len(Rest(all)) >= FRAME => Len(Rest(all)) - Len(a) <= MAX_PACKET - FRAME
  BY DEF all
<1>4. CASE Len(all) < FRAME
  BY <1>1, <1>3, <1>4 DEF Rest
<1>5. CASE ~(Len(all) < FRAME)
  <2>1. Rest(all) = SubSeq(all, FRAME + 1, Len(all))
    BY <1>5 DEF Rest
  <2>2. Rest(all) \in Seq(BOOLEAN) /\ Len(Rest(all)) = Len(all) - FRAME
    BY <1>1, <1>3, <1>5, <2>1, SMTT(30)
  <2> QED BY <1>1, <1>3, <2>2
<1> QED BY <1>4, <1>5

\* The part of the state the growth depends on.
AccInv == /\ endpoint \in Seq(Packet)
          /\ acc \in Seq(BOOLEAN)

\* What a step does to them.
LEMMA AccStep ==
    ASSUME AccInv, [Next]_vars
    PROVE  /\ AccInv'
           /\ state' = "Started" /\ Len(acc') >= FRAME /\ acc' # acc
                => Len(acc') - Len(acc) <= MAX_PACKET - FRAME
<1>0. endpoint \in Seq(Packet) /\ acc \in Seq(BOOLEAN)
  BY DEF AccInv
<1>1. CASE StartStep
  <2>1. /\ endpoint' \in {endpoint, <<>>}
        /\ acc' \in {acc, <<>>}
    BY <1>1 DEF StartStep, BuildSource, ResolveDevice, InitAudioClients, DoStart,
       DoStartFails, RunFails, DoStop, readVars
  <2>2. <<>> \in Seq(Packet) /\ <<>> \in Seq(BOOLEAN) /\ ~(Len(<<>>) >= FRAME)
    BY CaptureSizes, EmptySeq
  <2> QED BY <1>0, <2>1, <2>2 DEF AccInv
<1>2. CASE FillPacket
  <2>1. /\ endpoint # <<>> /\ endpoint' = Tail(endpoint)
        /\ acc' = Rest(acc \o Samples(Head(endpoint)))
    BY <1>2 DEF FillPacket, Samples
  <2>2. Head(endpoint) \in Packet /\ Tail(endpoint) \in Seq(Packet)
    BY <1>0, <2>1
  <2> QED BY <1>0, <2>1, <2>2, RestGrowth DEF AccInv
<1>3. CASE FillFails \/ NullBuffer
  <2>1. acc' = acc /\ endpoint' \in {endpoint, Tail(endpoint)}
        /\ (endpoint' # endpoint => endpoint # <<>>)
    BY <1>3 DEF FillFails, NullBuffer
  <2> QED BY <1>0, <2>1 DEF AccInv
<1>4. CASE ReleaseFails
  <2>1. /\ endpoint # <<>> /\ endpoint' = endpoint /\ state' = "Failed"
        /\ acc' = acc \o Samples(Head(endpoint))
    BY <1>4 DEF ReleaseFails, SetFailed, Samples
  <2>2. Samples(Head(endpoint)) \in Seq(BOOLEAN)
    BY <1>0, <2>1, SamplesOf
  <2>3. acc' \in Seq(BOOLEAN)
    BY <1>0, <2>1, <2>2, ConcatProperties
  <2> QED BY <1>0, <2>1, <2>3 DEF AccInv
<1>5. CASE BeginRead \/ ReadNotStarted \/ SyntheticRead \/ FillEmpty \/ PollAgain \/ SleepEnds
  BY <1>0, <1>5 DEF AccInv, BeginRead, ReadNotStarted, SyntheticRead, FillEmpty, PollAgain,
     SleepEnds, deviceVars, readVars
<1>6. CASE SendFrame \/ DeadlinePasses \/ Broadcast \/ BroadcastEnds \/ Shutdown
  BY <1>0, <1>6 DEF AccInv, SendFrame, DeadlinePasses, Broadcast, BroadcastEnds, Shutdown,
     deviceVars, readVars
<1>7. CASE HearShutdown \/ Abort \/ SendFails
  <2>1. endpoint' = <<>> /\ acc' = acc
    BY <1>7 DEF HearShutdown, Abort, SendFails, TaskEnds, DoStop, readVars
  <2> QED BY <1>0, <2>1, EmptySeq DEF AccInv
<1>8. CASE \E p \in Packet : DeviceDelivers(p)
  BY <1>0, <1>8 DEF AccInv, DeviceDelivers
<1>9. CASE UNCHANGED vars
  BY <1>0, <1>9 DEF AccInv, vars, deviceVars, readVars
<1> QED BY <1>1, <1>2, <1>3, <1>4, <1>5, <1>6, <1>7, <1>8, <1>9 DEF Next, ReadStep

\* However large the packets and the frames are, and however the reads are
\* polled, cancelled or late, the backlog of a running source grows by no more
\* than what a packet has over a frame (fill_accumulator_from_packets,
\* pop_frame); with packets of at most a frame it does not grow at all.
THEOREM BacklogSafe == Spec => BacklogGrowth
<1>1. Init => AccInv
  BY EmptySeq DEF Init, AccInv
<1>2. AccInv /\ [Next]_vars => AccInv'
  BY AccStep
<1>3. AccInv /\ [Next]_vars
        => [state' = "Started" /\ Len(acc') >= FRAME /\ acc' # acc
              => Len(acc') - Len(acc) <= MAX_PACKET - FRAME]_vars
  BY AccStep
<1> QED BY <1>1, <1>2, <1>3, PTL DEF Spec, BacklogGrowth

(***************************************************************************)
(* The debug wav.                                                          *)
(***************************************************************************)
Wav == [on : BOOLEAN, written : Nat, file : Nat, header : Nat, finalized : BOOLEAN]

\* A finished file is never written again: it is full, or its task has ended.
WavInv == /\ wav \in Wav
          /\ wav.written <= wav.file
          /\ wav.finalized => /\ wav.header = wav.written
                              /\ wav.written >= WAV_MAX \/ task = "ended"

\* Finalizing and writing keep a wav well formed.
LEMMA FinalizedWav ==
    ASSUME NEW w \in Wav, w.written <= w.file, w.finalized => w.header = w.written,
           NEW v \in Finalized(w)
    PROVE  /\ v \in Wav /\ v.written <= v.file /\ v.written = w.written
           /\ v.finalized => v.header = v.written
BY DEF Finalized, Wav

LEMMA WrittenWav ==
    ASSUME NEW w \in Wav, w.written <= w.file,
           w.finalized => w.header = w.written /\ w.written >= WAV_MAX,
           NEW v \in WavWrite(w, FRAME)
    PROVE  /\ v \in Wav /\ v.written <= v.file
           /\ v.finalized => v.header = v.written /\ v.written >= WAV_MAX
<1>1. CASE ~w.on \/ w.written >= WAV_MAX
  BY <1>1 DEF WavWrite
<1>2. CASE w.on /\ w.written < WAV_MAX
  <2> DEFINE take == MinOf(WAV_MAX - w.written, FRAME)
             done == [w EXCEPT !.written = @ + take, !.file = @ + take]
  <2>0. w.written \in Nat /\ ~w.finalized /\ w.file \in Nat
    BY <1>2, CaptureSizes DEF Wav
  <2>1. take \in Nat
    BY <1>2, <2>0, CaptureSizes DEF MinOf
  <2>2. done \in Wav /\ done.written <= done.file /\ ~done.finalized
    <3>1. /\ done.written = w.written + take /\ done.file = w.file + take
          /\ done.finalized = w.finalized
      BY DEF Wav
    <3>2. done.written \in Nat /\ done.file \in Nat /\ done.written <= done.file
      BY <2>0, <2>1, <3>1
    <3>3. done \in Wav
      BY <2>0, <3>1, <3>2, Zenon DEF Wav
    <3> QED BY <2>0, <3>1, <3>2, <3>3
  <2>3. (v \in Finalized(done) /\ done.written >= WAV_MAX)
        \/ v = done \/ \E k \in 0..(take - 1) : v = [w EXCEPT !.file = @ + k]
    <3>1. WavWrite(w, FRAME) = (IF done.written >= WAV_MAX THEN Finalized(done) ELSE {done})
                                 \cup {[w EXCEPT !.file = @ + k] : k \in 0..(take - 1)}
      <4>1. w.on /\ ~(w.written >= WAV_MAX)
        BY <1>2, <2>0, CaptureSizes
      <4> QED BY <4>1 DEF WavWrite
    <3> HIDE DEF done, take
    <3> QED BY <3>1
  <2> HIDE DEF done, take
  <2>4. CASE v \in Finalized(done) /\ done.written >= WAV_MAX
    BY <2>2, <2>4, FinalizedWav
  <2>5. CASE v = done
    BY <2>2, <2>5
  <2>6. CASE \E k \in 0..(take - 1) : v = [w EXCEPT !.file = @ + k]
    <3>1. PICK k \in 0..(take - 1) : v = [w EXCEPT !.file = @ + k]
      BY <2>6
    <3>2. k \in Nat
      BY <2>1, <3>1
    <3> QED BY <2>0, <3>1, <3>2 DEF Wav
  <2> QED BY <2>3, <2>4, <2>5, <2>6
<1> QED BY <1>1, <1>2, CaptureSizes DEF Wav

\* The header of a finished debug wav counts exactly the samples that were
\* written, whichever of the cap, stop and drop finished it and whatever the
\* disk refused on the way (DebugWavWriter::write_samples, finalize).
THEOREM WavSafe == Spec => []WavHeaderTrue
<1>1. Init => WavInv
  BY DEF Init, NoWav, WavInv, Wav
<1>2. ASSUME WavInv, [Next]_vars
      PROVE  WavInv'
  <2>0. /\ wav \in Wav /\ wav.written <= wav.file
        /\ wav.finalized => wav.header = wav.written
    BY <1>2 DEF WavInv
  <2>a. ASSUME DoStop, task' = "ended"
        PROVE  WavInv'
    BY <2>0, <2>a, FinalizedWav DEF DoStop, WavInv
  <2>b. ASSUME wav' = wav, task # "ended" \/ task' = "ended"
        PROVE  WavInv'
    BY <1>2, <2>b DEF WavInv
  <2>1. CASE StartStep
    <3>1. \/ DoStop /\ task' = "ended"
          \/ wav' = wav /\ task # "ended"
          \/ BuildSource /\ wav' \in {NoWav, [NoWav EXCEPT !.on = TRUE]}
      BY <2>1 DEF StartStep, BuildSource, ResolveDevice, InitAudioClients, DoStart,
         DoStartFails, RunFails
    <3>2. ASSUME wav' \in {NoWav, [NoWav EXCEPT !.on = TRUE]}
          PROVE  WavInv'
      <4>1. wav' \in {[on |-> b, written |-> 0, file |-> 0, header |-> 0,
                       finalized |-> FALSE] : b \in BOOLEAN}
        BY <3>2 DEF NoWav
      <4>2. PICK b \in BOOLEAN : wav' = [on |-> b, written |-> 0, file |-> 0,
                                          header |-> 0, finalized |-> FALSE]
        BY <4>1
      <4>3. wav' \in Wav
        BY <4>2, Zenon DEF Wav
      <4>4. wav'.written = 0 /\ wav'.file = 0 /\ ~wav'.finalized
        BY <4>2
      <4> QED BY <4>3, <4>4 DEF WavInv
    <3> QED BY <2>a, <2>b, <3>1, <3>2
  <2>2. CASE FillPacket
    <3>1. task # "ended" /\ (wav' = wav \/ wav' \in WavWrite(wav, FRAME))
      BY <2>2 DEF FillPacket
    <3>2. CASE wav' = wav
      BY <2>b, <3>1, <3>2
    <3>3. CASE wav' \in WavWrite(wav, FRAME)
      BY <1>2, <3>1, <3>3, WrittenWav DEF WavInv
    <3> QED BY <3>1, <3>2, <3>3
  <2>3. CASE ReadStep /\ ~FillPacket
    <3>1. wav' = wav /\ task # "ended"
      BY <2>3 DEF ReadStep, BeginRead, ReadNotStarted, SyntheticRead, FillEmpty, SetFailed,
         FillFails, NullBuffer, ReleaseFails, PollAgain, SleepEnds, deviceVars
    <3> QED BY <2>b, <3>1
  <2>4. CASE SendFrame \/ DeadlinePasses \/ Broadcast \/ BroadcastEnds \/ Shutdown
             \/ \E p \in Packet : DeviceDelivers(p)
    <3>1. wav' = wav /\ (task # "ended" \/ task' = task)
      BY <2>4 DEF SendFrame, DeadlinePasses, Broadcast, BroadcastEnds, Shutdown,
         DeviceDelivers, deviceVars
    <3> QED BY <2>b, <3>1
  <2>5. CASE HearShutdown \/ Abort \/ SendFails
    BY <2>5, <2>a DEF HearShutdown, Abort, SendFails, TaskEnds
  <2>6. CASE UNCHANGED vars
    BY <2>6, <2>b DEF vars, deviceVars
  <2> QED BY <1>2, <2>1, <2>2, <2>3, <2>4, <2>5, <2>6 DEF Next
<1>3. WavInv => WavHeaderTrue
  BY DEF WavInv, WavHeaderTrue, Wav
<1> QED BY <1>1, <1>2, <1>3, PTL DEF Spec
(***************************************************************************)
(* The samples.                                                            *)
(***************************************************************************)

\* pop_frame cuts the accumulator in two.
LEMMA PopSplits ==
    ASSUME NEW a \in Seq(BOOLEAN)
    PROVE  /\ Popped(a) \in Seq(BOOLEAN) /\ Rest(a) \in Seq(BOOLEAN)
           /\ Popped(a) \o Rest(a) = a
<1>0. Len(a) \in Nat /\ FRAME \in Nat /\ FRAME >= 1
  BY CaptureSizes
<1>1. CASE Len(a) < FRAME
  BY <1>1, ConcatEmptySeq, EmptySeq DEF Popped, Rest
<1>2. CASE ~(Len(a) < FRAME)
  <2>1. Popped(a) = SubSeq(a, 1, FRAME) /\ Rest(a) = SubSeq(a, FRAME + 1, Len(a))
    BY <1>2 DEF Popped, Rest
  <2>2. 1 \in 1..(Len(a) + 1) /\ FRAME \in (1 - 1)..Len(a) /\ Len(a) \in FRAME..Len(a)
    BY <1>0, <1>2
  <2>3. SubSeq(a, 1, FRAME) \o SubSeq(a, FRAME + 1, Len(a)) = SubSeq(a, 1, Len(a))
    BY <2>2, ConcatAdjacentSubSeq
  <2>4. SubSeq(a, 1, Len(a)) = a
    BY SubSeqFull
  <2>5. SubSeq(a, 1, FRAME) \in Seq(BOOLEAN) /\ SubSeq(a, FRAME + 1, Len(a)) \in Seq(BOOLEAN)
    BY <1>0, <1>2
  <2> QED BY <2>1, <2>3, <2>4, <2>5
<1> QED BY <1>1, <1>2

\* NoSampleLost for samples t taken out of the device, the packets e in it and
\* the samples c that were captured.
Continues(t, c) ==
    /\ Len(t) <= Len(c)
    /\ \A k \in 1..Len(t) : t[k] = c[k]

InPlace(at, t, e, c) ==
    /\ at[1] = Len(t)
    /\ at[Len(e) + 1] = Len(c)
    /\ \A i \in 1..Len(e) :
           /\ at[i + 1] = at[i] + e[i].n
           /\ \A k \in 1..e[i].n : c[at[i] + k] = e[i].silent

Accounted(t, e, c) ==
    /\ Continues(t, c)
    /\ \E at \in [1..(Len(e) + 1) -> 0..Len(c)] : InPlace(at, t, e, c)

\* Sequences of samples put together.
LEMMA SamplesJoined ==
    ASSUME NEW x \in Seq(BOOLEAN), NEW y \in Seq(BOOLEAN)
    PROVE  /\ Len(x \o y) = Len(x) + Len(y)
           /\ \A i \in 1..(Len(x) + Len(y)) :
                 (x \o y)[i] = IF i <= Len(x) THEN x[i] ELSE y[i - Len(x)]
BY ConcatProperties

LEMMA SamplesAssociate ==
    ASSUME NEW x \in Seq(BOOLEAN), NEW y \in Seq(BOOLEAN), NEW z \in Seq(BOOLEAN)
    PROVE  (x \o y) \o z = x \o (y \o z)
BY ConcatAssociative

\* A packet of w samples that starts behind x and ends before z.
LEMMA PlaceInRange ==
    ASSUME NEW x \in Nat, NEW w \in Nat, NEW z \in Nat, x + w <= z, NEW k \in 1..w
    PROVE  x + k \in 1..z
OBVIOUS

\* The device captures another packet.
LEMMA CaptureAccounted ==
    ASSUME NEW t \in Seq(BOOLEAN), NEW e \in Seq(Packet), NEW c \in Seq(BOOLEAN),
           Accounted(t, e, c), NEW p \in Packet
    PROVE  Accounted(t, Append(e, p), c \o Samples(p))
<1> DEFINE f == Append(e, p)
           d == c \o Samples(p)
<1>1. /\ Len(t) \in Nat /\ Len(e) \in Nat /\ Len(c) \in Nat
      /\ \A i \in 1..Len(e) : e[i] \in Packet
  OBVIOUS
<1>2. /\ Len(f) = Len(e) + 1 /\ f[Len(e) + 1] = p
      /\ \A i \in 1..Len(e) : f[i] = e[i]
  BY AppendProperties
<1>3. /\ Len(d) = Len(c) + p.n /\ p.n \in Nat
      /\ \A k \in 1..Len(c) : d[k] = c[k]
      /\ \A k \in 1..p.n : d[Len(c) + k] = p.silent
  <2>1. /\ Samples(p) \in Seq(BOOLEAN) /\ Len(Samples(p)) = p.n /\ p.n \in Nat
        /\ \A i \in 1..p.n : Samples(p)[i] = p.silent
    BY SamplesOf
  <2>2. /\ Len(d) = Len(c) + p.n
        /\ \A i \in 1..(Len(c) + p.n) :
              d[i] = IF i <= Len(c) THEN c[i] ELSE Samples(p)[i - Len(c)]
    <3>1. /\ Len(d) = Len(c) + Len(Samples(p))
          /\ \A i \in 1..(Len(c) + Len(Samples(p))) :
                d[i] = IF i <= Len(c) THEN c[i] ELSE Samples(p)[i - Len(c)]
      BY <2>1, SamplesJoined
    <3> HIDE DEF d
    <3> QED BY <2>1, <3>1
  <2> HIDE DEF d
  <2>3. ASSUME NEW k \in 1..p.n PROVE d[Len(c) + k] = p.silent
    <3>1. /\ Len(c) + k \in 1..(Len(c) + p.n) /\ ~(Len(c) + k <= Len(c))
          /\ (Len(c) + k) - Len(c) = k
      BY <1>1, <2>1
    <3> QED BY <2>1, <2>2, <3>1
  <2>4. ASSUME NEW k \in 1..Len(c) PROVE d[k] = c[k]
    <3>1. k \in 1..(Len(c) + p.n) /\ k <= Len(c)
      BY <1>1, <2>1
    <3> QED BY <2>2, <3>1
  <2> QED BY <2>1, <2>2, <2>3, <2>4
<1> HIDE DEF f, d
<1>4. Continues(t, d)
  <2>1. Len(t) <= Len(c) /\ \A k \in 1..Len(t) : t[k] = c[k] /\ k \in 1..Len(c)
    BY <1>1 DEF Accounted, Continues
  <2> QED BY <1>1, <1>3, <2>1 DEF Continues
<1>5. PICK at \in [1..(Len(e) + 1) -> 0..Len(c)] : InPlace(at, t, e, c)
  BY DEF Accounted
<1> DEFINE au == [i \in 1..(Len(f) + 1) |-> IF i <= Len(e) + 1 THEN at[i] ELSE Len(d)]
<1>6. au \in [1..(Len(f) + 1) -> 0..Len(d)]
  <2> SUFFICES ASSUME NEW i \in 1..(Len(f) + 1)
               PROVE  (IF i <= Len(e) + 1 THEN at[i] ELSE Len(d)) \in 0..Len(d)
    OBVIOUS
  <2>1. CASE i <= Len(e) + 1
    <3>1. i \in 1..(Len(e) + 1)
      BY <1>1, <1>2, <2>1
    <3>2. at[i] \in 0..Len(c)
      BY <3>1
    <3> QED BY <1>1, <1>3, <2>1, <3>2
  <2>2. CASE ~(i <= Len(e) + 1)
    BY <1>1, <1>3, <2>2
  <2> QED BY <2>1, <2>2
<1>7. /\ \A i \in 1..(Len(e) + 1) : au[i] = at[i]
      /\ au[Len(f) + 1] = Len(d)
  BY <1>1, <1>2
<1> HIDE DEF au
<1>8. InPlace(au, t, f, d)
  <2>1. au[1] = Len(t)
    <3>1. 1 \in 1..(Len(e) + 1)
      BY <1>1
    <3> QED BY <1>5, <1>7, <3>1 DEF InPlace
  <2>2. ASSUME NEW i \in 1..Len(f)
        PROVE  /\ au[i + 1] = au[i] + f[i].n
               /\ \A k \in 1..f[i].n : d[au[i] + k] = f[i].silent
    <3>1. CASE i <= Len(e)
      <4>1. i \in 1..Len(e) /\ i \in 1..(Len(e) + 1) /\ i + 1 \in 1..(Len(e) + 1)
        BY <1>1, <1>2, <3>1
      <4>2. f[i] = e[i] /\ au[i] = at[i] /\ au[i + 1] = at[i + 1]
        BY <1>2, <1>7, <4>1
      <4>3. /\ at[i + 1] = at[i] + e[i].n
            /\ \A k \in 1..e[i].n : c[at[i] + k] = e[i].silent
        BY <1>5, <4>1 DEF InPlace
      <4>4. at[i] \in 0..Len(c) /\ at[i + 1] \in 0..Len(c) /\ e[i].n \in Nat
        BY <1>1, <4>1, SamplesOf
      <4>5. ASSUME NEW k \in 1..e[i].n PROVE at[i] + k \in 1..Len(c)
        <5>1. at[i] \in Nat /\ at[i] + e[i].n <= Len(c)
          BY <1>1, <4>3, <4>4
        <5> QED BY <1>1, <4>4, <5>1, PlaceInRange
      <4> QED BY <1>3, <4>2, <4>3, <4>5
    <3>2. CASE ~(i <= Len(e))
      <4>1. i = Len(e) + 1 /\ i + 1 = Len(f) + 1 /\ i \in 1..(Len(e) + 1)
        BY <1>1, <1>2, <3>2
      <4>2. f[i] = p /\ au[i] = Len(c) /\ au[i + 1] = Len(d)
        BY <1>2, <1>5, <1>7, <4>1 DEF InPlace
      <4> QED BY <1>3, <4>2
    <3> QED BY <3>1, <3>2
  <2> QED BY <1>7, <2>1, <2>2 DEF InPlace
<1>9. Accounted(t, f, d)
  BY <1>4, <1>6, <1>8 DEF Accounted
<1> QED BY <1>9 DEF f, d

\* The oldest packet is taken out of the device.
LEMMA TakeAccounted ==
    ASSUME NEW t \in Seq(BOOLEAN), NEW e \in Seq(Packet), NEW c \in Seq(BOOLEAN),
           Accounted(t, e, c), e # <<>>
    PROVE  Accounted(t \o Samples(Head(e)), Tail(e), c)
<1> DEFINE p == Head(e)
           u == t \o Samples(p)
           f == Tail(e)
<1>1. /\ Len(t) \in Nat /\ Len(e) \in Nat /\ Len(e) >= 1 /\ Len(c) \in Nat
      /\ \A i \in 1..Len(e) : e[i] \in Packet
  BY EmptySeq
<1>2. p = e[1] /\ p \in Packet
  <2>1. p = e[1]
    BY <1>1
  <2>2. 1 \in 1..Len(e)
    BY <1>1
  <2> QED BY <1>1, <2>1, <2>2
<1>3. Len(f) = Len(e) - 1 /\ \A i \in 1..(Len(e) - 1) : f[i] = e[i + 1]
  BY HeadTailProperties
<1>4. /\ Samples(p) \in Seq(BOOLEAN) /\ Len(Samples(p)) = p.n /\ p.n \in Nat
      /\ \A i \in 1..p.n : Samples(p)[i] = p.silent
  BY <1>2, SamplesOf
<1> HIDE DEF p
<1>5. /\ Len(u) = Len(t) + p.n
      /\ \A i \in 1..(Len(t) + p.n) :
            u[i] = IF i <= Len(t) THEN t[i] ELSE Samples(p)[i - Len(t)]
  <2>1. PICK m \in Seq(BOOLEAN) : m = Samples(p) /\ Len(m) = p.n
    BY <1>4
  <2>2. /\ Len(t \o m) = Len(t) + Len(m)
        /\ \A i \in 1..(Len(t) + Len(m)) :
              (t \o m)[i] = IF i <= Len(t) THEN t[i] ELSE m[i - Len(t)]
    BY ConcatProperties
  <2> QED BY <2>1, <2>2
<1> HIDE DEF u, f
<1>6. PICK at \in [1..(Len(e) + 1) -> 0..Len(c)] : InPlace(at, t, e, c)
  BY DEF Accounted
<1>7. /\ at[1] = Len(t) /\ at[2] = Len(t) + p.n
      /\ \A k \in 1..p.n : c[Len(t) + k] = p.silent
      /\ at[2] \in 0..Len(c)
  <2>1. 1 \in 1..Len(e) /\ 1 + 1 \in 1..(Len(e) + 1) /\ 1 + 1 = 2
    BY <1>1
  <2> QED BY <1>2, <1>6, <2>1 DEF InPlace
<1>8. Continues(u, c)
  <2>1. Len(u) <= Len(c)
    BY <1>1, <1>4, <1>5, <1>7
  <2>2. ASSUME NEW k \in 1..Len(u) PROVE u[k] = c[k]
    <3>1. CASE k <= Len(t)
      <4>1. k \in 1..Len(t) /\ k \in 1..(Len(t) + p.n)
        BY <1>1, <1>4, <1>5, <3>1
      <4> QED BY <1>5, <3>1, <4>1 DEF Accounted, Continues
    <3>2. CASE ~(k <= Len(t))
      <4>1. /\ k - Len(t) \in 1..p.n /\ Len(t) + (k - Len(t)) = k
            /\ k \in 1..(Len(t) + p.n)
        BY <1>1, <1>4, <1>5, <3>2
      <4>2. u[k] = p.silent
        BY <1>4, <1>5, <3>2, <4>1
      <4>3. c[Len(t) + (k - Len(t))] = p.silent
        BY <1>7, <4>1
      <4> QED BY <4>1, <4>2, <4>3
    <3> QED BY <3>1, <3>2
  <2> QED BY <2>1, <2>2 DEF Continues
<1> DEFINE au == [i \in 1..(Len(f) + 1) |-> at[i + 1]]
<1>9. /\ au \in [1..(Len(f) + 1) -> 0..Len(c)]
      /\ \A i \in 1..(Len(f) + 1) : au[i] = at[i + 1] /\ i + 1 \in 1..(Len(e) + 1)
  <2>1. \A i \in 1..(Len(f) + 1) : i + 1 \in 1..(Len(e) + 1)
    BY <1>1, <1>3
  <2> QED BY <2>1
<1> HIDE DEF au
<1>10. InPlace(au, u, f, c)
  <2>1. au[1] = Len(u)
    <3>1. 1 \in 1..(Len(f) + 1) /\ 1 + 1 = 2
      BY <1>1, <1>3
    <3> QED BY <1>5, <1>7, <1>9, <3>1
  <2>2. au[Len(f) + 1] = Len(c)
    <3>1. Len(f) + 1 \in 1..(Len(f) + 1) /\ (Len(f) + 1) + 1 = Len(e) + 1
      BY <1>1, <1>3
    <3>2. au[Len(f) + 1] = at[Len(e) + 1]
      BY <1>9, <3>1
    <3> QED BY <1>6, <3>2 DEF InPlace
  <2>3. ASSUME NEW i \in 1..Len(f)
        PROVE  /\ au[i + 1] = au[i] + f[i].n
               /\ \A k \in 1..f[i].n : c[au[i] + k] = f[i].silent
    <3>1. /\ i \in 1..(Len(f) + 1) /\ i + 1 \in 1..(Len(f) + 1) /\ i + 1 \in 1..Len(e)
          /\ i \in 1..(Len(e) - 1)
      BY <1>1, <1>3
    <3>2. f[i] = e[i + 1] /\ au[i] = at[i + 1] /\ au[i + 1] = at[(i + 1) + 1]
      BY <1>3, <1>9, <3>1
    <3> QED BY <1>6, <3>1, <3>2 DEF InPlace
  <2> QED BY <2>1, <2>2, <2>3 DEF InPlace
<1>11. Accounted(u, f, c)
  BY <1>8, <1>9, <1>10 DEF Accounted
<1> QED BY <1>11 DEF u, f, p

\* pop_frame takes a whole frame or nothing, so that into_audio_frame, which
\* compares the length with the same format, never refuses one.
LEMMA PoppedWhole ==
    ASSUME NEW a \in Seq(BOOLEAN)
    PROVE  Popped(a) = <<>> \/ Len(Popped(a)) = FRAME
<1>1. Len(a) \in Nat /\ FRAME \in Nat /\ FRAME >= 1
  BY CaptureSizes
<1>2. CASE ~(Len(a) < FRAME)
  <2>1. Popped(a) = SubSeq(a, 1, FRAME)
    BY <1>2 DEF Popped
  <2> QED BY <1>1, <1>2, <2>1
<1> QED BY <1>2 DEF Popped

\* What was taken continues what was captured; so does what was sent of it.
LEMMA SentContinues ==
    ASSUME NEW s \in Seq(BOOLEAN), NEW a \in Seq(BOOLEAN), NEW c \in Seq(BOOLEAN),
           Continues(s \o a, c)
    PROVE  Continues(s, c)
<1>1. /\ Len(s) \in Nat /\ Len(a) \in Nat /\ Len(c) \in Nat
      /\ Len(s \o a) = Len(s) + Len(a)
      /\ \A i \in 1..(Len(s) + Len(a)) :
            (s \o a)[i] = IF i <= Len(s) THEN s[i] ELSE a[i - Len(s)]
  BY SamplesJoined, LenProperties
<1>2. ASSUME NEW k \in 1..Len(s) PROVE s[k] = c[k]
  <2>1. k \in 1..(Len(s) + Len(a)) /\ k <= Len(s)
    BY <1>1
  <2>2. (s \o a)[k] = s[k] /\ k \in 1..Len(s \o a)
    BY <1>1, <2>1
  <2> QED BY <2>2 DEF Continues
<1>3. Len(s) <= Len(c)
  BY <1>1 DEF Continues
<1> QED BY <1>2, <1>3 DEF Continues

\* The samples captured later do not disturb what was sent.
LEMMA MoreCaptured ==
    ASSUME NEW s \in Seq(BOOLEAN), NEW c \in Seq(BOOLEAN), NEW d \in Seq(BOOLEAN),
           Continues(s, c)
    PROVE  Continues(s, c \o d)
<1>1. /\ Len(s) \in Nat /\ Len(c) \in Nat /\ Len(d) \in Nat /\ Len(s) <= Len(c)
      /\ Len(c \o d) = Len(c) + Len(d)
      /\ \A i \in 1..(Len(c) + Len(d)) :
            (c \o d)[i] = IF i <= Len(c) THEN c[i] ELSE d[i - Len(c)]
  BY SamplesJoined, LenProperties DEF Continues
<1>2. ASSUME NEW k \in 1..Len(s) PROVE s[k] = (c \o d)[k]
  <2>1. k \in 1..(Len(c) + Len(d)) /\ k <= Len(c)
    BY <1>1
  <2>2. (c \o d)[k] = c[k]
    BY <1>1, <2>1
  <2> QED BY <2>2 DEF Continues
<1> QED BY <1>1, <1>2 DEF Continues

\* The inductive invariant: a frame is only held between its read and its send,
\* the accumulator is empty until the device runs, and only a started source is
\* read.  Once the source has failed or stopped, the account of the accumulator
\* and the device is given up, and no step can send from them.
Lost == {"Failed", "Stopped"}

SampleInv ==
    /\ endpoint \in Seq(Packet)
    /\ acc \in Seq(BOOLEAN) /\ frame \in Seq(BOOLEAN)
    /\ captured \in Seq(BOOLEAN) /\ delivered \in Seq(BOOLEAN)
    /\ task = "start" => acc = <<>> /\ state \notin Lost
    /\ task \in {"fill", "yield", "send"} => state = "Started"
    /\ task \notin {"send", "ended"} => frame = <<>>
    /\ Continues(delivered \o frame, captured)
    /\ state \notin Lost => Accounted(Taken, endpoint, captured)

\* What was taken is a sequence of samples, and a frame that was sent counts as
\* delivered.
LEMMA TakenSeq ==
    ASSUME NEW d \in Seq(BOOLEAN), NEW f \in Seq(BOOLEAN), NEW a \in Seq(BOOLEAN)
    PROVE  /\ d \o f \o a \in Seq(BOOLEAN)
           /\ (d \o f) \o <<>> \o a = d \o f \o a
           /\ f = <<>> => d \o f \o a = d \o a
<1>1. d \o f \in Seq(BOOLEAN)
  BY ConcatProperties
<1>2. (d \o f) \o <<>> = d \o f /\ d \o <<>> = d
  BY <1>1, ConcatEmptySeq
<1>3. (d \o f) \o a \in Seq(BOOLEAN)
  BY <1>1, ConcatProperties
<1> QED BY <1>2, <1>3

\* Every step of the capture path keeps the account of the samples.
LEMMA SampleStep == SampleInv /\ [Next]_vars => SampleInv'
<1> SUFFICES ASSUME SampleInv, [Next]_vars PROVE SampleInv'
  OBVIOUS
<1>0. /\ endpoint \in Seq(Packet) /\ acc \in Seq(BOOLEAN) /\ frame \in Seq(BOOLEAN)
      /\ captured \in Seq(BOOLEAN) /\ delivered \in Seq(BOOLEAN)
      /\ Continues(delivered \o frame, captured)
  BY DEF SampleInv
\* The run or its task ends: what was sent stays.
<1>a. ASSUME DoStop, task' = "ended", UNCHANGED readVars
      PROVE  SampleInv'
  BY <1>0, <1>a, EmptySeq DEF DoStop, readVars, SampleInv, Lost
\* A step that touches no sample.
<1>b. ASSUME UNCHANGED <<endpoint, acc, frame, captured, delivered>>,
             state' \notin Lost => state \notin Lost,
             task' = "start" => task = "start" /\ state' \notin Lost,
             task' \in {"fill", "yield", "send"} => state' = "Started",
             task' \notin {"send", "ended"} => frame = <<>>
      PROVE  SampleInv'
  <2>1. Taken' = Taken
    BY <1>b DEF Taken
  <2> QED BY <1>0, <1>b, <2>1 DEF SampleInv
<1>1. CASE StartStep
  <2>1. \/ DoStop /\ task' = "ended" /\ UNCHANGED readVars
        \/ /\ UNCHANGED <<endpoint, frame, captured, delivered>> /\ task = "start"
           /\ acc' \in {acc, <<>>} /\ task' \in {"start", "loop"}
           /\ state' = state \/ state' \notin Lost
    BY <1>1 DEF StartStep, BuildSource, ResolveDevice, InitAudioClients, DoStart,
       DoStartFails, RunFails, readVars, Lost
  <2>2. CASE UNCHANGED <<endpoint, frame, captured, delivered>> /\ task = "start"
             /\ acc' \in {acc, <<>>} /\ task' \in {"start", "loop"}
             /\ (state' = state \/ state' \notin Lost)
    <3>1. acc' = acc /\ frame = <<>> /\ state \notin Lost /\ state' \notin Lost
      BY <2>2 DEF SampleInv
    <3> QED BY <1>b, <2>2, <3>1
  <2> QED BY <1>a, <2>1, <2>2
<1>2. CASE FillPacket
  <2> DEFINE p == Head(endpoint)
             all == acc \o Samples(p)
  <2>1. /\ task = "fill" /\ endpoint # <<>> /\ task' \in {"fill", "send"}
        /\ acc' = Rest(all) /\ frame' = Popped(all)
        /\ endpoint' = Tail(endpoint) /\ UNCHANGED <<captured, delivered, state>>
    BY <1>2 DEF FillPacket, Samples
  <2>2. p \in Packet /\ Tail(endpoint) \in Seq(Packet)
    BY <1>0, <2>1
  <2>3. Samples(p) \in Seq(BOOLEAN)
    BY <2>2, SamplesOf
  <2>4. all \in Seq(BOOLEAN)
    BY <1>0, <2>3, ConcatProperties
  <2>5. /\ Popped(all) \in Seq(BOOLEAN) /\ Rest(all) \in Seq(BOOLEAN)
        /\ Popped(all) \o Rest(all) = all
    BY <2>4, PopSplits
  <2>6. Taken = delivered \o acc
    BY <1>0, <2>1, TakenSeq DEF SampleInv, Taken
  <2>7. Taken' = Taken \o Samples(p)
    <3>1. Taken' = (delivered \o Popped(all)) \o Rest(all)
      BY <2>1 DEF Taken
    <3>2. (delivered \o Popped(all)) \o Rest(all) = delivered \o (Popped(all) \o Rest(all))
      BY <1>0, <2>5, SamplesAssociate
    <3>3. delivered \o (acc \o Samples(p)) = (delivered \o acc) \o Samples(p)
      BY <1>0, <2>3, SamplesAssociate
    <3> QED BY <2>5, <2>6, <3>1, <3>2, <3>3
  <2>8. Accounted(Taken \o Samples(p), Tail(endpoint), captured)
    <3>1. Accounted(Taken, endpoint, captured)
      BY <2>1 DEF SampleInv, Lost
    <3>2. Taken \in Seq(BOOLEAN)
      BY <1>0, TakenSeq DEF Taken
    <3> QED BY <1>0, <2>1, <3>1, <3>2, TakeAccounted
  <2>9. task' \notin {"send", "ended"} => frame' = <<>>
    <3> SUFFICES ASSUME task' # "send" PROVE frame' = <<>>
      BY <2>1
    <3>1. ~(Len(all) >= FRAME)
      <4>1. task' = IF Len(all) >= FRAME THEN "send" ELSE "fill"
        BY <1>2 DEF FillPacket, Samples
      <4> HIDE DEF all
      <4> QED BY <4>1
    <3>2. Len(all) \in Nat /\ FRAME \in Nat
      <4> HIDE DEF all
      <4> QED BY <2>4, CaptureSizes
    <3>3. Len(all) < FRAME
      <4> HIDE DEF all
      <4> QED BY <3>1, <3>2
    <3> QED BY <2>1, <3>3 DEF Popped
  <2>10. acc' \in Seq(BOOLEAN) /\ frame' \in Seq(BOOLEAN) /\ endpoint' \in Seq(Packet)
    BY <2>1, <2>2, <2>5
  <2>11. task' # "start"
    BY <2>1
  <2>12. Accounted(Taken, endpoint, captured)'
    BY <2>1, <2>7, <2>8
  <2>13. captured' \in Seq(BOOLEAN) /\ delivered' \in Seq(BOOLEAN)
    BY <1>0, <2>1
  <2> HIDE DEF p, all
  <2>14. state' = "Started"
    BY <2>1 DEF SampleInv
  <2>15. Continues(delivered \o frame, captured)'
    <3>1. (delivered \o frame)' \in Seq(BOOLEAN)
      BY <2>10, <2>13, ConcatProperties
    <3>2. Continues(((delivered \o frame) \o acc)', captured')
      BY <2>12 DEF Accounted, Taken
    <3> QED BY <2>10, <2>13, <3>1, <3>2, SentContinues
  <2> QED BY <2>9, <2>10, <2>11, <2>12, <2>13, <2>14, <2>15 DEF SampleInv
<1>3. CASE BeginRead \/ ReadNotStarted \/ SyntheticRead \/ FillEmpty \/ PollAgain \/ SleepEnds
  <2>1. /\ UNCHANGED <<endpoint, acc, captured, delivered, state>>
        /\ task \in {"loop", "fill", "yield", "sleep"}
        /\ task' \in {"loop", "fill", "yield", "sleep", "send"}
        /\ frame' \in {frame, <<>>}
        /\ task' \in {"fill", "yield", "send"} => state = "Started" \/ task \in {"fill", "yield"}
    BY <1>3 DEF BeginRead, ReadNotStarted, SyntheticRead, FillEmpty,
       PollAgain, SleepEnds, deviceVars, readVars
  <2>2. frame = <<>> /\ frame' = frame
    BY <2>1 DEF SampleInv
  <2>3. task' \in {"fill", "yield", "send"} => state = "Started"
    BY <2>1 DEF SampleInv
  <2> QED BY <1>b, <2>1, <2>2, <2>3
\* A device error: packets and accumulator no longer count, what was sent does.
<1>9. CASE FillFails \/ NullBuffer \/ ReleaseFails
  <2>1. /\ task = "fill" /\ task' = "sleep" /\ state' = "Failed"
        /\ UNCHANGED <<frame, captured, delivered>>
    BY <1>9 DEF FillFails, NullBuffer, ReleaseFails, SetFailed
  <2>2. endpoint' \in Seq(Packet) /\ acc' \in Seq(BOOLEAN)
    BY <1>0, <1>9, AccStep DEF AccInv, Next, ReadStep
  <2>3. frame = <<>>
    BY <2>1 DEF SampleInv
  <2> QED BY <1>0, <2>1, <2>2, <2>3 DEF SampleInv, Lost
<1>4. CASE SendFrame
  <2>1. /\ task = "send" /\ task' = "loop" /\ UNCHANGED <<endpoint, acc, captured, state>>
        /\ delivered' = delivered \o frame /\ frame' = <<>>
    BY <1>4 DEF SendFrame, deviceVars
  <2>2. Taken' = Taken /\ delivered' \in Seq(BOOLEAN)
    <3>1. Taken' = (delivered \o frame) \o <<>> \o acc
      BY <2>1 DEF Taken
    <3>2. delivered \o frame \in Seq(BOOLEAN)
      BY <1>0, ConcatProperties
    <3> QED BY <1>0, <2>1, <3>1, <3>2, TakenSeq DEF Taken
  <2>3. frame' \in Seq(BOOLEAN)
    BY <2>1, EmptySeq
  <2>4. (delivered \o frame)' = delivered \o frame
    BY <2>1, <2>2, ConcatEmptySeq
  <2> QED BY <1>0, <2>1, <2>2, <2>3, <2>4 DEF SampleInv
<1>5. CASE DeadlinePasses \/ Broadcast \/ BroadcastEnds \/ Shutdown
  <2>1. UNCHANGED <<endpoint, acc, frame, captured, delivered, task, state>>
    BY <1>5 DEF DeadlinePasses, Broadcast, BroadcastEnds, Shutdown, deviceVars, readVars
  <2> QED BY <1>b, <2>1 DEF SampleInv
<1>6. CASE HearShutdown \/ Abort \/ SendFails
  BY <1>6, <1>a DEF HearShutdown, Abort, SendFails, TaskEnds
<1>7. CASE \E p \in Packet : DeviceDelivers(p)
  <2>1. PICK p \in Packet : DeviceDelivers(p)
    BY <1>7
  <2>2. /\ endpoint' = Append(endpoint, p) /\ captured' = captured \o Samples(p)
        /\ UNCHANGED <<acc, frame, delivered, task, state>>
    BY <2>1 DEF DeviceDelivers, Samples
  <2>3. Taken' = Taken /\ Taken \in Seq(BOOLEAN)
    BY <1>0, <2>2, TakenSeq DEF Taken
  <2>4. Samples(p) \in Seq(BOOLEAN)
    BY SamplesOf
  <2>5. endpoint' \in Seq(Packet) /\ captured' \in Seq(BOOLEAN)
    BY <1>0, <2>2, <2>4, AppendProperties, ConcatProperties
  <2>6. state \notin Lost => Accounted(Taken, Append(endpoint, p), captured \o Samples(p))
    BY <1>0, <2>3, CaptureAccounted DEF SampleInv
  <2>7. Continues(delivered \o frame, captured \o Samples(p))
    <3>1. delivered \o frame \in Seq(BOOLEAN)
      BY <1>0, ConcatProperties
    <3> QED BY <1>0, <2>4, <3>1, MoreCaptured
  <2>8. Continues(delivered \o frame, captured)'
    BY <2>2, <2>7
  <2> QED BY <1>0, <2>2, <2>3, <2>5, <2>6, <2>8 DEF SampleInv
<1>8. CASE UNCHANGED vars
  <2>1. UNCHANGED <<endpoint, acc, frame, captured, delivered, task, state>>
    BY <1>8 DEF vars, deviceVars, readVars
  <2> QED BY <1>b, <2>1 DEF SampleInv
<1> QED BY <1>1, <1>2, <1>3, <1>4, <1>5, <1>6, <1>7, <1>8, <1>9 DEF Next, ReadStep

\* For every size of frame and packet and every way the reads are polled,
\* cancelled, padded, late or broken by the device: while the source runs every
\* captured sample is, in order and once, sent on, about to be sent, in the
\* accumulator or still in the device; and what was sent is always a beginning of
\* what was captured, also after an error that lost or kept a packet.
THEOREM SamplesKept == Spec => []NoSampleLost
<1>1. Init => SampleInv
  <2> SUFFICES ASSUME Init PROVE SampleInv
    OBVIOUS
  <2>1. /\ endpoint = <<>> /\ captured = <<>> /\ acc = <<>> /\ frame = <<>>
        /\ delivered = <<>> /\ task = "start" /\ state = "Created"
    BY DEF Init
  <2>2. Taken = <<>>
    BY <2>1 DEF Taken
  <2>3. Accounted(<<>>, <<>>, <<>>)
    <3> DEFINE at == [i \in 1..1 |-> 0]
    <3>1. Len(<<>>) = 0 /\ 1 \in 1..1 /\ 0 \in 0..0
      BY EmptySeq
    <3>2. at \in [1..1 -> 0..0] /\ at[1] = 0
      BY <3>1
    <3> HIDE DEF at
    <3>3. InPlace(at, <<>>, <<>>, <<>>)
      BY <3>1, <3>2 DEF InPlace
    <3> QED BY <3>1, <3>2, <3>3 DEF Accounted, Continues
  <2>4. delivered \o frame = <<>>
    BY <2>1
  <2> QED BY <2>1, <2>2, <2>3, <2>4, EmptySeq DEF SampleInv, Lost, Accounted
<1>2. SampleInv => NoSampleLost
  BY DEF SampleInv, Accounted, Continues, InPlace, NoSampleLost, Placed, Lost
<1> QED BY <1>1, <1>2, SampleStep, PTL DEF Spec
=============================================================================
