----------------------- MODULE BroadcastPipelineProofs -----------------------
(***************************************************************************)
(* Theorems about BroadcastPipeline for every set of sessions and streams, *)
(* every configuration, every number of frames and of PCM24 fragments.     *)
(***************************************************************************)
EXTENDS BroadcastPipeline, ClientRegistryProofs

(***************************************************************************)
(* The invariant.                                                          *)
(***************************************************************************)

Job == [frame : Nat, tier : Tiers, clients : SUBSET BroadcastClient]

PipeTypes ==
    /\ frames \in Nat
    /\ tier \in Tiers
    /\ jobs \in Seq(Job)
    /\ work \in Work \cup {None}
    /\ opus_buffer \in [AudioModes -> Nat]
    /\ sequence \in Nat
    /\ results \in Seq(Seq(WireFrameOut))
    /\ batch \in Seq(WireFrameOut)
    /\ failed \subseteq Sessions
    /\ stream \in [Streams -> {"open", "torn", "garbled", "broken"}]
    /\ offered \in [Sessions -> WireFrameOut \cup {None}]

\* A job names a session once.
OncePerSession(B) == \A b, d \in B : b.id = d.id => b = d

JobsWellFormed ==
    /\ \A i \in 1..Len(jobs) : OncePerSession(jobs[i].clients)
    /\ work # None => OncePerSession(work.todo) /\ OncePerSession(work.to)

\* The packets in flight, in the order they will be sent: the rest of the batch,
\* the results that wait, and what the worker has made of its job so far.
Last == Len(results) + 1
Made == IF work = None THEN <<>> ELSE work.out
Rows == [k \in 0..Last |-> IF k = 0 THEN batch
                           ELSE IF k = Last THEN Made ELSE results[k]]

\* The number from which on everything that is still to be made for session s
\* is numbered: that of the packet the worker is handing out, if s is still to
\* get it, else the counter.
NextNumber == [s \in Sessions |->
                  IF work # None /\ \E b \in work.to : b.id = s
                  THEN work.seq ELSE sequence]

\* In rows r, with the packets handed out last and the next numbers low: what a
\* session gets is numbered upwards.
Earlier(k, i, l, j) == k < l \/ (k = l /\ i < j)
Upwards(n, r, last, low) ==
    /\ \A k, l \in 0..n : \A i \in 1..Len(r[k]), j \in 1..Len(r[l]) :
           r[k][i].to = r[l][j].to /\ Earlier(k, i, l, j) => r[k][i].seq < r[l][j].seq
    /\ \A k \in 0..n : \A i \in 1..Len(r[k]) :
           /\ r[k][i].seq < low[r[k][i].to]
           /\ last[r[k][i].to] # None => last[r[k][i].to].seq < r[k][i].seq
    /\ \A s \in Sessions : last[s] # None => last[s].seq < low[s]

Numbering ==
    /\ work # None /\ work.to # {} => work.seq < sequence
    /\ Upwards(Last, Rows, offered, NextNumber)

\* Who is meant by recipients B and by packets q: sessions and transports.
MeantBy(B) == {<<b.id, b.transport>> : b \in B}
SentTo(q) == {<<q[i].to, q[i].transport>> : i \in 1..Len(q)}

MeantByJobs(js) == UNION {MeantBy(js[i].clients) : i \in 1..Len(js)}
MeantByWork(w) == IF w = None THEN {}
                  ELSE MeantBy(w.todo) \cup MeantBy(w.to) \cup SentTo(w.out)
SentByResults(rs) == UNION {SentTo(rs[i]) : i \in 1..Len(rs)}

\* The sessions and transports of everything in flight.
InFlight == MeantByJobs(jobs) \cup MeantByWork(work) \cup SentByResults(results)
            \cup SentTo(batch)

\* A stream that has left the queue for good.
GivenOut(st) == st \in accepted_streams /\ st \notin Elements(pending_usb_streams)

\* A stream for which something is in flight belongs to the session it is for,
\* or to nobody any more.
StreamsKeepOwner ==
    \A p \in InFlight : p[2] \in Streams =>
        GivenOut(p[2]) /\ \A s \in Sessions : Transports[s] = p[2] => s = p[1]

\* A stream on which a write failed has no owner but one that is known to have
\* failed.
FailuresNoted ==
    \A st \in Streams : stream[st] # "open" =>
        GivenOut(st) /\ \A s \in Sessions : Transports[s] = st => s \in failed

PipeInv ==
    /\ RegistryInv
    /\ UsbInv
    /\ PipeTypes
    /\ JobsWellFormed
    /\ Numbering
    /\ StreamsKeepOwner
    /\ FailuresNoted

(***************************************************************************)
(* The registry below the pipeline.                                        *)
(***************************************************************************)

\* What the transport task does to the registry, the registry allows.
LEMMA PipeStepIsStep == [PipeNext]_vars => [Next]_regVars
<1>1. ASSUME NEW c \in Sessions, SettleFailure(c) PROVE Next
  <2>1. WifiSendFails(c) \/ UsbSendFails(c)
    BY <1>1 DEF SettleFailure, WifiSendFails, UsbSendFails, sessionVars
  <2> QED BY <2>1 DEF Next, TransportStep
<1>2. CaptureFrame => Next
  BY DEF CaptureFrame, Next, TransportStep
<1>3. ControlStep => Next
  BY DEF ControlStep, Next
<1>4. TierChanges \/ TakeResult \/ WorkerTakesJob \/ WorkerEncodes \/ WorkerFansOut
        \/ WorkerSendsResult \/ SendFrame => UNCHANGED regVars
  BY DEF TierChanges, TakeResult, WorkerTakesJob, WorkerEncodes, EncodeGroup,
     WorkerFansOut, FanOut, WorkerSendsResult, SendFrame
<1> QED BY <1>1, <1>2, <1>3, <1>4 DEF PipeNext, vars

\* Where a session's transport comes from in one step: it had it, or it is a
\* stream that was queued or has only just been accepted.
Fresh(st) == st \in Elements(pending_usb_streams) \/ st \notin accepted_streams

LEMMA TransportsComeFrom ==
    ASSUME RegistryInv, UsbInv, [Next]_regVars
    PROVE  /\ \A s \in Sessions : handle'[s].transport \in Streams =>
                  handle'[s].transport = handle[s].transport \/ Fresh(handle'[s].transport)
           /\ \A st \in Elements(pending_usb_streams') : Fresh(st)
           /\ accepted_streams \subseteq accepted_streams'
<1> DEFINE G == /\ \A s \in Sessions : handle'[s].transport \in Streams =>
                  handle'[s].transport = handle[s].transport \/ Fresh(handle'[s].transport)
                /\ \A st \in Elements(pending_usb_streams') : Fresh(st)
                /\ accepted_streams \subseteq accepted_streams'
<1> SUFFICES G
  OBVIOUS
<1>0. TypeOK /\ handle \in [Sessions -> ClientHandle] /\ clients \subseteq Sessions
  BY DEF RegistryInv, TypeOK
<1>a. ASSUME UNCHANGED <<handle, pending_usb_streams, accepted_streams>> PROVE G
  BY <1>a DEF Fresh
<1>b. ASSUME NEW R, handle' = RemovedHandles(R),
             UNCHANGED <<pending_usb_streams, accepted_streams>>
      PROVE  G
  <2>1. ASSUME NEW h \in ClientHandle PROVE [h EXCEPT !.transport = None].transport = None
    BY DEF ClientHandle
  <2>2. \A s \in Sessions : handle'[s].transport \in {None, handle[s].transport}
    BY <1>0, <1>b, <2>1 DEF RemovedHandles
  <2> QED BY <1>b, <2>2, MarkersDistinct DEF Fresh
<1>c. ASSUME NEW hs \in [Sessions -> ClientHandle], NEW c \in Sessions, NEW tr,
             handle' = WithTransport(hs, c, tr)
      PROVE  \A s \in Sessions : handle'[s].transport = IF s = c THEN tr ELSE hs[s].transport
  <2>1. ASSUME NEW h \in ClientHandle PROVE [h EXCEPT !.transport = tr].transport = tr
    BY DEF ClientHandle
  <2> QED BY <1>c, <2>1 DEF WithTransport
<1>1. ASSUME NEW s \in Sessions, SessionStep(s) PROVE G
  <2>1. CASE HandshakeFails(s) \/ SendCollected(s) \/ SessionReadError(s)
             \/ \E r \in Requests : SetAudioMode(s, r)
    <3>1. UNCHANGED <<handle, pending_usb_streams, accepted_streams>>
      BY <2>1 DEF HandshakeFails, SendCollected, SessionReadError, SetAudioMode, usbVars
    <3> QED BY <3>1, <1>a
  <2>2. CASE \E h \in Hellos : ReceiveHello(s, h)
    <3>1. /\ UNCHANGED <<pending_usb_streams, accepted_streams>>
          /\ \A u \in Sessions : handle'[u] = handle[u] \/ handle'[u].transport = None
      BY <1>0, <2>2 DEF ReceiveHello, usbVars
    <3> QED BY <3>1, MarkersDistinct DEF Fresh
  <2>3. CASE \E R \in SUBSET clients : RegisterClient(s, R)
    <3>1. PICK R \in SUBSET clients : RegisterClient(s, R)
      BY <2>3
    <3> DEFINE q == Without(pending_usb_clients, OneOf(R))
    <3>2. accepted_streams' = accepted_streams
      BY <3>1 DEF RegisterClient
    <3>3. \/ handle' = RemovedHandles(R) /\ UNCHANGED pending_usb_streams
          \/ GetTransport(s, R, q)
      BY <3>1 DEF RegisterClient
    <3> HIDE DEF q
    <3>4. RemovedHandles(R) \in [Sessions -> ClientHandle]
      BY <1>0, RemovedHandlesType
    <3>5. \A u \in Sessions : RemovedHandles(R)[u].transport \in {None, handle[u].transport}
      <4>1. ASSUME NEW h \in ClientHandle PROVE [h EXCEPT !.transport = None].transport = None
        BY DEF ClientHandle
      <4> QED BY <1>0, <4>1 DEF RemovedHandles
    <3>6. CASE handle' = RemovedHandles(R) /\ UNCHANGED pending_usb_streams
      BY <1>b, <3>2, <3>6
    <3>7. CASE handle' = WithTransport(RemovedHandles(R), s, Wifi)
               /\ UNCHANGED pending_usb_streams
      BY <1>c, <3>2, <3>4, <3>5, <3>7, MarkersDistinct DEF Fresh
    <3>8. CASE /\ pending_usb_streams # <<>>
               /\ handle' = WithTransport(RemovedHandles(R), s, Head(pending_usb_streams))
               /\ pending_usb_streams' = Tail(pending_usb_streams)
      <4>1. /\ Head(pending_usb_streams) \in Elements(pending_usb_streams)
            /\ Elements(pending_usb_streams') \subseteq Elements(pending_usb_streams)
        BY <1>0, <3>8, TailElements DEF UsbInv, UsbGood, TypeOK
      <4> QED BY <1>c, <3>2, <3>4, <3>5, <3>8, <4>1, MarkersDistinct DEF Fresh
    <3> QED BY <3>3, <3>6, <3>7, <3>8 DEF GetTransport
  <2>4. CASE SetClientMode(s)
    <3>1. ASSUME NEW h \in ClientHandle, NEW r PROVE WithMode(h, r).transport = h.transport
      BY DEF WithMode, ClientHandle
    <3>2. \/ handle' = handle
          \/ handle' = [handle EXCEPT ![s] = WithMode(handle[s], request[s])]
      BY <2>4 DEF SetClientMode
    <3>3. \A u \in Sessions : handle'[u].transport = handle[u].transport
      BY <1>0, <3>1, <3>2
    <3> QED BY <2>4, <3>3 DEF SetClientMode, usbVars, Fresh
  <2>5. CASE SessionEnds(s)
    <3>1. /\ UNCHANGED <<pending_usb_streams, accepted_streams>>
          /\ handle' = handle \/ handle' = RemovedHandles({s})
      BY <2>5 DEF SessionEnds, RemoveClient
    <3> QED BY <1>a, <1>b, <3>1
  <2> QED BY <1>1, <2>1, <2>2, <2>3, <2>4, <2>5 DEF SessionStep
<1>2. CASE \E t \in Tasks : Depart(t)
  <2>1. UNCHANGED <<handle, pending_usb_streams, accepted_streams>>
    BY <1>2 DEF Depart, usbVars
  <2> QED BY <2>1, <1>a
<1>3. ASSUME NEW c \in Sessions, WifiSendFails(c) PROVE G
  <2>1. /\ UNCHANGED <<pending_usb_streams, accepted_streams>>
        /\ handle' = handle \/ handle' = RemovedHandles({c})
    BY <1>3 DEF WifiSendFails, RemoveClient
  <2> QED BY <1>a, <1>b, <2>1
<1>4. ASSUME NEW c \in Sessions, UsbSendFails(c) PROVE G
  <2>1. /\ UNCHANGED <<pending_usb_streams, accepted_streams>>
        /\ handle' = handle \/ handle' = WithTransport(handle, c, None)
    BY <1>4 DEF UsbSendFails, MarkUsbTransportLost
  <2>2. CASE handle' = WithTransport(handle, c, None)
    BY <1>0, <1>c, <2>1, <2>2, MarkersDistinct DEF Fresh
  <2> QED BY <1>a, <2>1, <2>2
<1>5. CASE TakeBroadcastClients
  <2>1. ASSUME NEW h \in ClientHandle PROVE [h EXCEPT !.pending = {}].transport = h.transport
    BY DEF ClientHandle
  <2>2. \A u \in Sessions : handle'[u].transport = handle[u].transport
    BY <1>0, <1>5, <2>1 DEF TakeBroadcastClients
  <2> QED BY <1>5, <2>2 DEF TakeBroadcastClients, usbVars, Fresh
<1>6. ASSUME NEW st \in Streams, NEW n, AttachUsbStream(st, n) PROVE G
  <2>1. st \notin accepted_streams /\ accepted_streams' = accepted_streams \cup {st}
    BY <1>6 DEF AttachUsbStream
  <2>2. \/ handle' = handle
        \/ \E c \in Sessions : handle' = WithTransport(handle, c, st)
    BY <1>0, <1>6 DEF AttachUsbStream
  <2>3. \A s \in Sessions : handle'[s].transport \in {handle[s].transport, st}
    BY <1>0, <1>c, <2>2
  <2>4. Elements(pending_usb_streams') \subseteq Elements(pending_usb_streams) \cup {st}
    <3>1. \/ pending_usb_streams' = pending_usb_streams
          \/ pending_usb_streams' = Append(pending_usb_streams, st)
      BY <1>6 DEF AttachUsbStream
    <3>2. st \notin Elements(pending_usb_streams) /\ pending_usb_streams \in Seq(Streams)
          /\ Distinct(pending_usb_streams)
      BY <1>0, <2>1 DEF UsbInv, UsbGood, TypeOK
    <3>3. Elements(Append(pending_usb_streams, st)) = Elements(pending_usb_streams) \cup {st}
      BY <3>2, AppendElements
    <3>4. Elements(pending_usb_streams') \in
              {Elements(pending_usb_streams), Elements(Append(pending_usb_streams, st))}
      BY <3>1
    <3> QED BY <3>3, <3>4
  <2> QED BY <2>1, <2>3, <2>4 DEF Fresh
<1>7. CASE UNCHANGED regVars
  BY <1>7, <1>a DEF regVars, usbVars
<1> HIDE DEF G
<1>8. CASE TransportStep
  BY <1>3, <1>4, <1>5, <1>8 DEF TransportStep
<1>9. CASE UsbAcceptStep
  BY <1>6, <1>9 DEF UsbAcceptStep
<1> QED BY <1>1, <1>2, <1>7, <1>8, <1>9 DEF Next

\* A stream that was given out is never queued again or given to anybody else.
LEMMA GivenOutStays ==
    ASSUME RegistryInv, UsbInv, [Next]_regVars, NEW st \in Streams, GivenOut(st)
    PROVE  /\ GivenOut(st)'
           /\ \A s \in Sessions : Transports'[s] = st => Transports[s] = st
<1>1. ~Fresh(st)
  BY DEF GivenOut, Fresh
<1>2. GivenOut(st)'
  BY <1>1, TransportsComeFrom DEF GivenOut
<1>3. ASSUME NEW s \in Sessions, Transports'[s] = st PROVE Transports[s] = st
  BY <1>1, <1>3, TransportsComeFrom DEF Transports, TransportsIn
<1> QED BY <1>2, <1>3

(***************************************************************************)
(* Types.                                                                  *)
(***************************************************************************)

\* The snapshot of a client that can be reached is a recipient.
LEMMA SnapshotType ==
    ASSUME TypeOK, NEW c \in Reachable
    PROVE  Snapshot(c) \in BroadcastClient
<1>1. c \in Sessions /\ handle[c] \in ClientHandle /\ handle[c].transport # None
  BY DEF TypeOK, Reachable
<1> QED BY <1>1 DEF Snapshot, BroadcastClient, ClientHandle

\* A job names each client it was made for once.
LEMMA JobType ==
    ASSUME TypeOK, PipeTypes
    PROVE  EncodeJob \in Job /\ OncePerSession(EncodeJob.clients)
<1>1. \A c \in Reachable : Snapshot(c) \in BroadcastClient /\ Snapshot(c).id = c
  BY SnapshotType DEF Snapshot
<1>2. EncodeJob.clients = {Snapshot(c) : c \in Reachable}
  BY DEF EncodeJob
<1>3. EncodeJob \in Job
  BY <1>1 DEF EncodeJob, Job, PipeTypes
<1> QED BY <1>1, <1>2, <1>3 DEF OncePerSession

\* How many packets a recipient gets, and the numbers that reserves.
LEMMA PiecesType ==
    ASSUME NEW b
    PROVE  /\ Pieces(b) \in Nat
           /\ Extras(b) \in Nat /\ Extras(b) >= Pieces(b) - 1
<1>1. PICK p \in Nat : p = Pieces(b)
  BY FramesBounded DEF Pieces
<1>2. ASSUME NEW e, e = Max({p - 1, 0}) PROVE e \in Nat /\ e >= p - 1
  <2>1. \E x \in {p - 1, 0} : \A y \in {p - 1, 0} : x >= y
    <3>1. CASE p - 1 >= 0
      BY <3>1
    <3>2. CASE p - 1 < 0
      BY <3>2
    <3> QED BY <3>1, <3>2
  <2>2. e \in {p - 1, 0} /\ \A y \in {p - 1, 0} : e >= y
    BY <1>2, <2>1 DEF Max
  <2> QED BY <2>2
<1>3. Extras(b) = Max({p - 1, 0})
  BY <1>1 DEF Extras
<1> QED BY <1>1, <1>2, <1>3

\* The timestamp of a packet is that of a frame.
LEMMA PtsType ==
    ASSUME PipeTypes, work # None, NEW k, k.mode \in AudioModes, NEW ok,
           Packed(k, ok) # {}
    PROVE  Min(Packed(k, ok)) \in Nat
<1>1. work.frame \in Nat /\ opus_buffer[k.mode] \in Nat
  BY DEF PipeTypes, Work
<1>2. PICK a \in Nat, c \in Nat : Packed(k, ok) \subseteq {a, c}
  BY <1>1 DEF Packed, Held
<1>3. ASSUME NEW S \in SUBSET {a, c}, S # {} PROVE Min(S) \in Nat
  <2>1. \E x \in S : \A y \in S : x =< y
    <3>1. CASE S = {a} \/ S = {c}
      BY <3>1
    <3>2. CASE S = {a, c} /\ a =< c
      BY <3>2
    <3>3. CASE S = {a, c} /\ c =< a
      BY <3>3
    <3>4. S = {a} \/ S = {c} \/ S = {a, c}
      BY <1>3
    <3> QED BY <3>1, <3>2, <3>3, <3>4
  <2>2. Min(S) \in S
    BY <2>1 DEF Min
  <2> QED BY <2>2
<1> QED BY <1>2, <1>3

\* The wire frames of one recipient: numbered upwards from that of the packet.
LEMMA WireFramesType ==
    ASSUME PipeTypes, work # None, NEW b \in work.to
    PROVE  /\ b \in BroadcastClient
           /\ WireFrames(b) \in Seq(WireFrameOut)
           /\ Len(WireFrames(b)) = Pieces(b)
           /\ \A i \in 1..Pieces(b) :
                 /\ WireFrames(b)[i].to = b.id
                 /\ WireFrames(b)[i].transport = b.transport
                 /\ WireFrames(b)[i].seq = work.seq + i - 1
<1>1. b \in BroadcastClient /\ work.seq \in Nat /\ work.frame \in Nat /\ work.pts \in Nat
  BY DEF PipeTypes, Work
<1>2. Flags(b) \in SUBSET {"config_changed", "discontinuity"}
  BY DEF Flags
<1>3. PICK p \in Nat : p = Pieces(b)
  BY PiecesType
<1>4. ASSUME NEW i \in 1..p
      PROVE  [to |-> b.id, transport |-> b.transport, data_plane |-> b.data_plane,
              mode |-> b.mode, seq |-> work.seq + i - 1, flags |-> Flags(b),
              frame |-> work.frame, pts |-> work.pts] \in WireFrameOut
  <2>1. work.seq + i - 1 \in Nat
    BY <1>1, <1>3
  <2> QED BY <1>1, <1>2, <2>1 DEF WireFrameOut, BroadcastClient
<1>5. WireFrames(b) \in [1..p -> WireFrameOut]
  BY <1>3, <1>4 DEF WireFrames
<1>6. \A f \in [1..p -> WireFrameOut] : f \in Seq(WireFrameOut) /\ Len(f) = p
  OBVIOUS
<1> QED BY <1>1, <1>3, <1>5, <1>6 DEF WireFrames

\* Nothing is in flight when the transport starts.
LEMMA PipeInitTypes == PipeInit => PipeTypes /\ JobsWellFormed
BY DEF PipeInit, PipeTypes, JobsWellFormed, Tiers

\* The recipients of one group.
Group(k) == {b \in work.todo : EncoderKey(b) = k}

\* Encoding a group takes its recipients off the list; if there is a packet, it
\* has the counter's number, and goes to them.
LEMMA EncodedWork ==
    ASSUME PipeTypes, work # None, work.to = {}, NEW k, NEW ok, EncodeGroup(k, ok),
           k.mode \in AudioModes
    PROVE  /\ work' \in Work
           /\ work'.todo = work.todo \ Group(k) /\ work'.out = work.out
           /\ \/ work'.to = {} /\ sequence' = sequence
              \/ work'.to = Group(k) /\ work'.seq = sequence /\ sequence' = sequence + 1
<1>1. work \in Work /\ sequence \in Nat /\ Group(k) \subseteq work.todo
  BY DEF PipeTypes, Group
<1>2. CASE Packed(k, ok) = {}
  <2>1. work' = [work EXCEPT !.todo = @ \ Group(k)] /\ sequence' = sequence
    BY <1>2 DEF EncodeGroup, Group
  <2> QED BY <1>1, <2>1 DEF Work
<1>3. CASE Packed(k, ok) # {}
  <2>1. PICK t \in Nat : t = Min(Packed(k, ok))
    BY <1>3, PtsType
  <2>2. /\ work' = [work EXCEPT !.todo = @ \ Group(k), !.to = Group(k),
                                !.seq = sequence, !.pts = t]
        /\ sequence' = sequence + 1
    BY <1>3, <2>1 DEF EncodeGroup, Group
  <2> QED BY <1>1, <2>2 DEF Work
<1> QED BY <1>2, <1>3

LEMMA FannedOutWork ==
    ASSUME PipeTypes, work # None, NEW b \in work.to, FanOut(b)
    PROVE  /\ work' \in Work
           /\ work'.todo = work.todo /\ work'.to = work.to \ {b}
           /\ work'.seq = work.seq /\ work'.out = work.out \o WireFrames(b)
           /\ sequence' = sequence + Extras(b) /\ sequence' \in Nat
<1>1. work \in Work /\ sequence \in Nat
  BY DEF PipeTypes
<1>2. PICK w \in Seq(WireFrameOut) : w = WireFrames(b)
  BY WireFramesType
<1>3. PICK o \in Seq(WireFrameOut) : o = work.out
  BY <1>1 DEF Work
<1>4. o \o w \in Seq(WireFrameOut)
  OBVIOUS
<1>5. work' = [work EXCEPT !.to = @ \ {b}, !.out = o \o w] /\ sequence' = sequence + Extras(b)
  BY <1>2, <1>3 DEF FanOut
<1>6. PICK e \in Nat : e = Extras(b)
  BY PiecesType
<1>7. sequence' \in Nat
  BY <1>1, <1>5, <1>6
<1> QED BY <1>1, <1>2, <1>3, <1>4, <1>5, <1>7 DEF Work

\* Every step of the pipeline keeps the types, and every job names a session
\* once.
LEMMA PipeTypesStep ==
    ASSUME TypeOK, PipeTypes, JobsWellFormed, [PipeNext]_vars
    PROVE  PipeTypes' /\ JobsWellFormed'
<1> USE DEF PipeTypes, JobsWellFormed
<1>1. CASE CaptureFrame
  <2>1. EncodeJob \in Job /\ OncePerSession(EncodeJob.clients)
    BY JobType
  <2>2. UNCHANGED <<tier, work, opus_buffer, sequence, results, batch, failed,
                    stream, offered>> /\ frames' = frames + 1
    BY <1>1 DEF CaptureFrame
  <2>3. jobs' = jobs \/ jobs' = Append(jobs, EncodeJob)
    BY <1>1 DEF CaptureFrame
  <2>4. ASSUME NEW j \in Job, OncePerSession(j.clients)
        PROVE  /\ Append(jobs, j) \in Seq(Job)
               /\ \A i \in 1..Len(Append(jobs, j)) :
                     OncePerSession(Append(jobs, j)[i].clients)
    BY <2>4
  <2>5. jobs' \in Seq(Job) /\ \A i \in 1..Len(jobs') : OncePerSession(jobs'[i].clients)
    <3>1. PICK j \in Job : j = EncodeJob
      BY <2>1
    <3> QED BY <2>1, <2>3, <2>4, <3>1
  <2>6. frames' \in Nat
    BY <2>2
  <2> QED BY <2>2, <2>5, <2>6
<1>2. CASE TierChanges
  BY <1>2 DEF TierChanges, Tiers
<1>3. CASE TakeResult
  <2>1. batch' \in Seq(WireFrameOut) /\ results' \in Seq(Seq(WireFrameOut))
    BY <1>3 DEF TakeResult
  <2> QED BY <1>3, <2>1 DEF TakeResult
<1>4. CASE WorkerTakesJob
  <2>1. /\ jobs # <<>> /\ jobs' = Tail(jobs)
        /\ work' = [frame |-> Head(jobs).frame, tier |-> Head(jobs).tier,
                    todo |-> Head(jobs).clients, to |-> {}, seq |-> 0, pts |-> 0,
                    out |-> <<>>]
    BY <1>4 DEF WorkerTakesJob
  <2>2. Head(jobs) \in Job /\ OncePerSession(Head(jobs).clients)
    <3>1. Len(jobs) >= 1 /\ Head(jobs) = jobs[1]
      BY <2>1
    <3> QED BY <3>1
  <2>3. jobs' \in Seq(Job) /\ \A i \in 1..Len(jobs') : OncePerSession(jobs'[i].clients)
    <3>1. jobs' \in Seq(Job) /\ Len(jobs') = Len(jobs) - 1
      BY <2>1
    <3>2. \A i \in 1..Len(jobs') : i + 1 \in 1..Len(jobs) /\ jobs'[i] = jobs[i + 1]
      BY <2>1, <3>1
    <3> QED BY <3>1, <3>2
  <2>4. work' \in Work /\ OncePerSession(work'.todo) /\ OncePerSession(work'.to)
    BY <2>1, <2>2 DEF Work, Job, OncePerSession
  <2> QED BY <1>4, <2>3, <2>4 DEF WorkerTakesJob
<1>5. CASE WorkerEncodes
  <2>1. PICK b \in work.todo, ok \in BOOLEAN : EncodeGroup(EncoderKey(b), ok)
    BY <1>5 DEF WorkerEncodes
  <2>2. work \in Work /\ work.to = {} /\ EncoderKey(b).mode \in AudioModes
    BY <1>5, <2>1 DEF WorkerEncodes, Work, BroadcastClient, EncoderKey
  <2>3. /\ work' \in Work
        /\ work'.todo = work.todo \ Group(EncoderKey(b))
        /\ work'.to \subseteq work.todo
        /\ sequence' \in Nat
    BY <1>5, <2>1, <2>2, EncodedWork DEF WorkerEncodes, Group
  <2>4. OncePerSession(work'.todo) /\ OncePerSession(work'.to)
    BY <1>5, <2>3 DEF OncePerSession, WorkerEncodes
  <2>5. opus_buffer' \in [AudioModes -> Nat]
    BY <2>1, <2>2 DEF EncodeGroup, Work
  <2>6. UNCHANGED <<frames, tier, jobs, results, batch, failed, stream, offered>>
    BY <2>1 DEF EncodeGroup
  <2> QED BY <2>3, <2>4, <2>5, <2>6
<1>6. CASE WorkerFansOut
  <2>1. PICK b \in work.to : FanOut(b)
    BY <1>6 DEF WorkerFansOut
  <2>2. /\ work' \in Work /\ work'.todo = work.todo /\ work'.to \subseteq work.to
        /\ sequence' \in Nat
    BY <1>6, <2>1, FannedOutWork DEF WorkerFansOut
  <2>3. OncePerSession(work'.todo) /\ OncePerSession(work'.to)
    BY <1>6, <2>2 DEF OncePerSession, WorkerFansOut
  <2>4. UNCHANGED <<frames, tier, jobs, opus_buffer, results, batch, failed, stream, offered>>
    BY <2>1 DEF FanOut
  <2> QED BY <2>2, <2>3, <2>4
<1>7. CASE WorkerSendsResult
  <2>1. work.out \in Seq(WireFrameOut)
    BY <1>7 DEF WorkerSendsResult, Work
  <2>2. results' \in Seq(Seq(WireFrameOut))
    BY <1>7, <2>1 DEF WorkerSendsResult
  <2> QED BY <1>7, <2>2 DEF WorkerSendsResult
<1>8. CASE SendFrame
  <2>1. PICK w \in WireFrameOut : w = Head(batch)
    BY <1>8 DEF SendFrame
  <2>2. batch' \in Seq(WireFrameOut) /\ offered' = [offered EXCEPT ![w.to] = w]
    BY <1>8, <2>1 DEF SendFrame
  <2>3. w.to \in Sessions /\ w.transport \in Streams \cup {Wifi}
    BY DEF WireFrameOut
  <2>4. /\ failed' \subseteq Sessions
        /\ stream' \in [Streams -> {"open", "torn", "garbled", "broken"}]
    <3>1. CASE Sender(w) = "usb_direct"
      <4>1. UsbSend(w)
        BY <1>8, <2>1, <3>1 DEF SendFrame
      <4>2. \A v \in {"open", "torn", "garbled", "broken"} :
                AfterWrite[v] \subseteq {"open", "torn", "garbled", "broken"}
        BY DEF AfterWrite
      <4>3. w.transport \in Streams
        BY <2>3, <3>1 DEF Sender, WireFrameOut, DataPlanes
      <4> QED BY <2>3, <4>1, <4>2, <4>3 DEF UsbSend
    <3>2. CASE Sender(w) # "usb_direct"
      BY <1>8, <2>1, <2>3, <3>2 DEF SendFrame, UdpSend
    <3> QED BY <3>1, <3>2
  <2>5. offered' \in [Sessions -> WireFrameOut \cup {None}]
    BY <2>2, <2>3
  <2> QED BY <1>8, <2>2, <2>4, <2>5 DEF SendFrame
<1>9. ASSUME NEW c \in Sessions, SettleFailure(c)
      PROVE  PipeTypes' /\ JobsWellFormed'
  BY <1>9 DEF SettleFailure
<1>10. CASE ControlStep \/ UNCHANGED vars
  BY <1>10 DEF ControlStep, vars, pipeVars
<1> QED BY <1>1, <1>2, <1>3, <1>4, <1>5, <1>6, <1>7, <1>8, <1>9, <1>10 DEF PipeNext

(***************************************************************************)
(* The order of the numbers.                                               *)
(***************************************************************************)

RowsOf(n) == [0..n -> Seq(WireFrameOut)]
LastOffered == [Sessions -> WireFrameOut \cup {None}]

\* What stands in a row.
LEMMA RowFacts ==
    ASSUME NEW n \in Nat, NEW r \in RowsOf(n), NEW k \in 0..n
    PROVE  /\ r[k] \in Seq(WireFrameOut) /\ Len(r[k]) \in Nat
           /\ \A i \in 1..Len(r[k]) :
                 /\ r[k][i] \in WireFrameOut /\ r[k][i].to \in Sessions
                 /\ r[k][i].seq \in Nat
<1>1. PICK t \in Seq(WireFrameOut) : t = r[k]
  BY DEF RowsOf
<1>2. Len(t) \in Nat /\ \A i \in 1..Len(t) : t[i] \in WireFrameOut
  OBVIOUS
<1>3. \A w \in WireFrameOut : w.to \in Sessions /\ w.seq \in Nat
  BY DEF WireFrameOut
<1> QED BY <1>1, <1>2, <1>3

\* What is known of two packets in the rows, and of one.
LEMMA UpwardsPair ==
    ASSUME NEW n, NEW r, NEW last, NEW low, Upwards(n, r, last, low),
           NEW k \in 0..n, NEW l \in 0..n, NEW i \in 1..Len(r[k]), NEW j \in 1..Len(r[l]),
           r[k][i].to = r[l][j].to, Earlier(k, i, l, j)
    PROVE  r[k][i].seq < r[l][j].seq
BY DEF Upwards

LEMMA UpwardsOne ==
    ASSUME NEW n, NEW r, NEW last, NEW low, Upwards(n, r, last, low),
           NEW k \in 0..n, NEW i \in 1..Len(r[k])
    PROVE  /\ r[k][i].seq < low[r[k][i].to]
           /\ last[r[k][i].to] # None => last[r[k][i].to].seq < r[k][i].seq
BY DEF Upwards

\* The worker's counter runs on.
LEMMA UpwardsLater ==
    ASSUME NEW n \in Nat, NEW r \in RowsOf(n), NEW last \in LastOffered,
           NEW low \in [Sessions -> Nat], NEW low2 \in [Sessions -> Nat],
           Upwards(n, r, last, low), \A s \in Sessions : low[s] <= low2[s]
    PROVE  Upwards(n, r, last, low2)
<1>2. \A w \in WireFrameOut : w.to \in Sessions /\ w.seq \in Nat
  BY DEF WireFrameOut
<1>3. ASSUME NEW k \in 0..n, NEW i \in 1..Len(r[k])
      PROVE  r[k][i].seq < low2[r[k][i].to]
  <2>1. PICK w \in WireFrameOut : w = r[k][i]
    BY RowFacts
  <2>2. w.seq < low[w.to]
    BY <2>1, UpwardsOne
  <2> QED BY <1>2, <2>1, <2>2
<1>4. \A s \in Sessions : last[s] # None => last[s].seq < low2[s]
  BY <1>2 DEF Upwards, LastOffered
<1> QED BY <1>3, <1>4 DEF Upwards

\* The transport task has sent its batch and takes the oldest result.
LEMMA UpwardsTaken ==
    ASSUME NEW n \in Nat, NEW r \in RowsOf(n + 1), NEW q \in RowsOf(n),
           NEW last, NEW low, Upwards(n + 1, r, last, low),
           \A k \in 0..n : q[k] = r[k + 1]
    PROVE  Upwards(n, q, last, low)
<1>1. \A k \in 0..n : k + 1 \in 0..(n + 1) /\ q[k] = r[k + 1]
  OBVIOUS
<1>2. \A k, l \in 0..n : \A i, j \in Int :
          Earlier(k, i, l, j) => Earlier(k + 1, i, l + 1, j)
  BY DEF Earlier
<1>3. ASSUME NEW k \in 0..n, NEW l \in 0..n, NEW i \in 1..Len(q[k]), NEW j \in 1..Len(q[l]),
             q[k][i].to = q[l][j].to, Earlier(k, i, l, j)
      PROVE  q[k][i].seq < q[l][j].seq
  <2>1. i \in Int /\ j \in Int
    BY RowFacts
  <2>2. PICK x \in 0..(n + 1), y \in 0..(n + 1) : x = k + 1 /\ y = l + 1
    OBVIOUS
  <2>3. q[k] = r[x] /\ q[l] = r[y] /\ Earlier(x, i, y, j)
    BY <1>1, <1>2, <1>3, <2>1, <2>2
  <2>4. i \in 1..Len(r[x]) /\ j \in 1..Len(r[y]) /\ r[x][i].to = r[y][j].to
    BY <1>3, <2>3
  <2>5. r[x][i].seq < r[y][j].seq
    BY <2>3, <2>4, UpwardsPair
  <2> QED BY <2>3, <2>5
<1>4. ASSUME NEW k \in 0..n, NEW i \in 1..Len(q[k])
      PROVE  /\ q[k][i].seq < low[q[k][i].to]
             /\ last[q[k][i].to] # None => last[q[k][i].to].seq < q[k][i].seq
  <2>1. PICK x \in 0..(n + 1) : x = k + 1
    OBVIOUS
  <2>2. q[k] = r[x] /\ i \in 1..Len(r[x])
    BY <1>1, <2>1
  <2>3. /\ r[x][i].seq < low[r[x][i].to]
        /\ last[r[x][i].to] # None => last[r[x][i].to].seq < r[x][i].seq
    BY <2>2, UpwardsOne
  <2> QED BY <2>2, <2>3
<1>5. \A s \in Sessions : last[s] # None => last[s].seq < low[s]
  BY DEF Upwards
<1> QED BY <1>3, <1>4, <1>5 DEF Upwards

\* The worker is done with a job and begins a new, empty row.
LEMMA UpwardsHandedOver ==
    ASSUME NEW n \in Nat, NEW r \in RowsOf(n), NEW q \in RowsOf(n + 1),
           NEW last, NEW low, Upwards(n, r, last, low),
           \A k \in 0..n : q[k] = r[k], q[n + 1] = <<>>
    PROVE  Upwards(n + 1, q, last, low)
<1>1. \A k \in 0..(n + 1) : \A i \in 1..Len(q[k]) : k \in 0..n
  OBVIOUS
<1>2. ASSUME NEW k \in 0..(n + 1), NEW l \in 0..(n + 1), NEW i \in 1..Len(q[k]),
             NEW j \in 1..Len(q[l]), q[k][i].to = q[l][j].to, Earlier(k, i, l, j)
      PROVE  q[k][i].seq < q[l][j].seq
  <2>1. k \in 0..n /\ l \in 0..n
    BY <1>1
  <2> QED BY <1>2, <2>1 DEF Upwards
<1>3. ASSUME NEW k \in 0..(n + 1), NEW i \in 1..Len(q[k])
      PROVE  /\ q[k][i].seq < low[q[k][i].to]
             /\ last[q[k][i].to] # None => last[q[k][i].to].seq < q[k][i].seq
  <2>1. k \in 0..n
    BY <1>1
  <2> QED BY <2>1 DEF Upwards
<1> QED BY <1>2, <1>3 DEF Upwards

\* The first packet of the batch is handed out: its number is above that of the
\* packet before, and below those of all that follow.
LEMMA UpwardsSent ==
    ASSUME NEW n \in Nat, NEW r \in RowsOf(n), NEW q \in RowsOf(n), NEW w,
           NEW last \in LastOffered, NEW low, Upwards(n, r, last, low),
           r[0] # <<>>, w = Head(r[0]), q[0] = Tail(r[0]),
           \A k \in 1..n : q[k] = r[k]
    PROVE  /\ last[w.to] # None => last[w.to].seq < w.seq
           /\ Upwards(n, q, [last EXCEPT ![w.to] = w], low)
<1> DEFINE new == [last EXCEPT ![w.to] = w]
<1>1. PICK t \in Seq(WireFrameOut) : t = r[0]
  BY DEF RowsOf
<1>2. /\ Len(t) >= 1 /\ w = t[1] /\ 1 \in 1..Len(t) /\ w \in WireFrameOut
      /\ Len(q[0]) = Len(t) - 1 /\ Len(t) \in Nat
      /\ \A i \in 1..(Len(t) - 1) : q[0][i] = t[i + 1]
  BY <1>1
<1>3. w.to \in Sessions
  BY <1>2 DEF WireFrameOut
<1>4. last[w.to] # None => last[w.to].seq < w.seq
  BY <1>1, <1>2 DEF Upwards
<1>5. new[w.to] = w /\ \A s \in Sessions : s # w.to => new[s] = last[s]
  BY <1>3 DEF LastOffered
<1> HIDE DEF new
\* Where a packet of q stands in r.
<1> DEFINE at(k, i) == IF k = 0 THEN i + 1 ELSE i
<1>6. \A k \in 0..n : \A i \in 1..Len(q[k]) :
          /\ at(k, i) \in 1..Len(r[k]) /\ q[k][i] = r[k][at(k, i)]
          /\ Earlier(0, 1, k, at(k, i))
  <2>1. \A i \in 1..Len(q[0]) : i + 1 \in 1..Len(r[0]) /\ q[0][i] = r[0][i + 1]
                                /\ Earlier(0, 1, 0, i + 1)
    BY <1>1, <1>2 DEF Earlier
  <2>2. ASSUME NEW k \in 1..n, NEW i \in 1..Len(q[k])
        PROVE  i \in 1..Len(r[k]) /\ q[k][i] = r[k][i] /\ Earlier(0, 1, k, i)
    BY DEF Earlier
  <2> SUFFICES ASSUME NEW k \in 0..n, NEW i \in 1..Len(q[k])
               PROVE  /\ at(k, i) \in 1..Len(r[k]) /\ q[k][i] = r[k][at(k, i)]
                      /\ Earlier(0, 1, k, at(k, i))
    OBVIOUS
  <2>3. CASE k = 0
    BY <2>1, <2>3
  <2>4. CASE k # 0
    <3>1. k \in 1..n
      BY <2>4
    <3> QED BY <2>2, <2>4, <3>1
  <2> QED BY <2>3, <2>4
<1>7. \A k, l \in 0..n : \A i, j \in Int :
          Earlier(k, i, l, j) => Earlier(k, at(k, i), l, at(l, j))
  BY DEF Earlier
<1> HIDE DEF at
<1>8. ASSUME NEW k \in 0..n, NEW l \in 0..n, NEW i \in 1..Len(q[k]), NEW j \in 1..Len(q[l]),
             q[k][i].to = q[l][j].to, Earlier(k, i, l, j)
      PROVE  q[k][i].seq < q[l][j].seq
  <2>1. i \in Int /\ j \in Int
    BY RowFacts
  <2>2. PICK x \in 1..Len(r[k]), y \in 1..Len(r[l]) : x = at(k, i) /\ y = at(l, j)
    BY <1>6
  <2>3. Earlier(k, x, l, y) /\ q[k][i] = r[k][x] /\ q[l][j] = r[l][y]
    BY <1>6, <1>7, <1>8, <2>1, <2>2
  <2>4. r[k][x].to = r[l][y].to
    BY <1>8, <2>3
  <2>5. r[k][x].seq < r[l][y].seq
    BY <2>3, <2>4, UpwardsPair
  <2> QED BY <2>3, <2>5
<1>9. ASSUME NEW k \in 0..n, NEW i \in 1..Len(q[k])
      PROVE  /\ q[k][i].seq < low[q[k][i].to]
             /\ new[q[k][i].to] # None => new[q[k][i].to].seq < q[k][i].seq
  <2>0. PICK x \in 1..Len(r[k]) : q[k][i] = r[k][x] /\ Earlier(0, 1, k, x)
    BY <1>6
  <2>a. /\ r[k][x].seq < low[r[k][x].to]
        /\ last[r[k][x].to] # None => last[r[k][x].to].seq < r[k][x].seq
    BY UpwardsOne
  <2>1. q[k][i].seq < low[q[k][i].to]
    BY <2>0, <2>a
  <2>2. CASE q[k][i].to = w.to
    <3>1. 0 \in 0..n /\ r[0][1] = w /\ 1 \in 1..Len(r[0])
      BY <1>1, <1>2
    <3>a. r[0][1].to = r[k][x].to
      BY <2>0, <2>2, <3>1
    <3>b. r[0][1].seq < r[k][x].seq
      BY <2>0, <3>1, <3>a, UpwardsPair
    <3>2. w.seq < q[k][i].seq
      BY <2>0, <3>1, <3>b
    <3> QED BY <1>5, <2>1, <2>2, <3>2
  <2>3. CASE q[k][i].to # w.to
    <3>1. q[k][i].to \in Sessions
      BY RowFacts
    <3>2. new[q[k][i].to] = last[q[k][i].to]
      BY <1>5, <2>3, <3>1
    <3>3. last[q[k][i].to] # None => last[q[k][i].to].seq < q[k][i].seq
      BY <2>0, <2>a
    <3> QED BY <2>1, <3>2, <3>3
  <2> QED BY <2>2, <2>3
<1>10. ASSUME NEW s \in Sessions, new[s] # None PROVE new[s].seq < low[s]
  <2>1. w.seq < low[w.to]
    BY <1>1, <1>2 DEF Upwards
  <2> QED BY <1>5, <1>10, <2>1 DEF Upwards
<1>11. Upwards(n, q, new, low)
  BY <1>8, <1>9, <1>10 DEF Upwards
<1> QED BY <1>4, <1>11 DEF new

\* Packets f for session s are numbered from a on, and q is r with f at the end of
\* its last row.
NumberedFrom(f, s, a) == \A i \in 1..Len(f) : f[i].to = s /\ f[i].seq = a + i - 1
LongerBy(n, q, r, f) == q[n] = r[n] \o f /\ \A k \in 0..(n - 1) : q[k] = r[k]

\* A packet of q is one of r or one of the new ones.
LEMMA OldOrNew ==
    ASSUME NEW n \in Nat, NEW r \in RowsOf(n), NEW q \in RowsOf(n),
           NEW f \in Seq(WireFrameOut), LongerBy(n, q, r, f),
           NEW k \in 0..n, NEW i \in 1..Len(q[k])
    PROVE  /\ Len(r[n]) \in Nat
           /\ \/ i \in 1..Len(r[k]) /\ q[k][i] = r[k][i]
              \/ /\ k = n /\ i > Len(r[n])
                 /\ i - Len(r[n]) \in 1..Len(f) /\ q[k][i] = f[i - Len(r[n])]
<1>1. PICK t \in Seq(WireFrameOut) : t = r[n]
  BY DEF RowsOf
<1> DEFINE m == Len(t)
<1>2. /\ m \in Nat /\ Len(q[n]) = m + Len(f) /\ Len(f) \in Nat
      /\ \A x \in 1..m : q[n][x] = r[n][x]
      /\ \A x \in (m + 1)..(m + Len(f)) : x - m \in 1..Len(f) /\ q[n][x] = f[x - m]
  BY <1>1 DEF LongerBy
<1>3. m = Len(r[n])
  BY <1>1
<1> HIDE DEF m
<1>4. CASE k = n
  <2>1. i \in 1..(m + Len(f))
    BY <1>2, <1>4
  <2>2. CASE i <= m
    <3>1. i \in 1..m
      BY <1>2, <2>1, <2>2
    <3> QED BY <1>2, <1>3, <1>4, <3>1
  <2>3. CASE i > m
    <3>1. i \in (m + 1)..(m + Len(f))
      BY <1>2, <2>1, <2>3
    <3> QED BY <1>2, <1>3, <1>4, <2>3, <3>1
  <2> QED BY <1>2, <2>1, <2>2, <2>3
<1>5. CASE k # n
  <2>1. k \in 0..(n - 1)
    BY <1>5
  <2> QED BY <1>2, <1>3, <2>1 DEF LongerBy
<1> QED BY <1>4, <1>5

\* The x-th number from a on, with x counted from behind m.
LEMMA NumberFrom ==
    ASSUME NEW a \in Nat, NEW m \in Nat, NEW x \in Int, x > m
    PROVE  a <= a + (x - m) - 1 /\ a + (x - m) - 1 \in Nat /\ a + (x - m) - 1 < a + (x - m)
OBVIOUS

\* The worker adds the wire frames of a recipient to its row: they are numbered
\* upwards from the recipient's next number.
LEMMA UpwardsMade ==
    ASSUME NEW n \in Nat, NEW r \in RowsOf(n), NEW q \in RowsOf(n),
           NEW last \in LastOffered,
           NEW low \in [Sessions -> Nat], NEW low2 \in [Sessions -> Nat],
           Upwards(n, r, last, low), \A s \in Sessions : low[s] <= low2[s],
           NEW f \in Seq(WireFrameOut), NEW s \in Sessions,
           NumberedFrom(f, s, low[s]), low[s] + Len(f) <= low2[s],
           LongerBy(n, q, r, f)
    PROVE  Upwards(n, q, last, low2)
<1>1. Upwards(n, r, last, low2)
  BY UpwardsLater
<1> DEFINE m == Len(r[n])
           Old(k, i) == i \in 1..Len(r[k]) /\ q[k][i] = r[k][i]
           New(k, i) == k = n /\ i > m /\ i - m \in 1..Len(f) /\ q[k][i] = f[i - m]
<1>2. m \in Nat /\ Len(f) \in Nat
  BY DEF RowsOf
<1>3. ASSUME NEW k \in 0..n, NEW i \in 1..Len(q[k])
      PROVE  i \in Int /\ q[k][i].seq \in Nat /\ q[k][i].to \in Sessions
  BY RowFacts
<1>4. ASSUME NEW k \in 0..n, NEW i \in 1..Len(q[k]) PROVE Old(k, i) \/ New(k, i)
  BY OldOrNew
<1>5. ASSUME NEW k \in 0..n, NEW i \in 1..Len(q[k]), New(k, i)
      PROVE  /\ k = n /\ i > m /\ i - m <= Len(f)
             /\ q[k][i].to = s /\ q[k][i].seq = low[s] + (i - m) - 1
  <2>1. PICK d \in 1..Len(f) : d = i - m
    BY <1>5
  <2>2. k = n /\ i > m /\ q[k][i] = f[d]
    BY <1>5, <2>1
  <2>3. f[d].to = s /\ f[d].seq = low[s] + d - 1 /\ d <= Len(f)
    BY <1>2 DEF NumberedFrom
  <2> HIDE DEF m, New, Old
  <2> QED BY <2>1, <2>2, <2>3
<1>6. ASSUME NEW k \in 0..n, NEW i \in 1..Len(q[k]), Old(k, i)
      PROVE  /\ i \in 1..Len(r[k]) /\ q[k][i] = r[k][i] /\ (k = n => i <= m)
             /\ q[k][i].to = s => q[k][i].seq < low[s]
  <2>1. i \in 1..Len(r[k]) /\ q[k][i] = r[k][i]
    BY <1>6
  <2>2. r[k][i].seq < low[r[k][i].to]
    BY <2>1, UpwardsOne
  <2>3. k = n => i <= m
    BY <1>2, <2>1
  <2> QED BY <2>1, <2>2, <2>3
<1>7. low[s] \in Nat /\ low2[s] \in Nat
  OBVIOUS
<1> HIDE DEF m, Old, New
<1>8. ASSUME NEW k \in 0..n, NEW l \in 0..n, NEW i \in 1..Len(q[k]), NEW j \in 1..Len(q[l]),
             q[k][i].to = q[l][j].to, Earlier(k, i, l, j)
      PROVE  q[k][i].seq < q[l][j].seq
  <2>1. CASE Old(k, i) /\ Old(l, j)
    <3>1. i \in 1..Len(r[k]) /\ j \in 1..Len(r[l]) /\ q[k][i] = r[k][i] /\ q[l][j] = r[l][j]
      BY <1>6, <2>1
    <3>2. r[k][i].to = r[l][j].to
      BY <1>8, <3>1
    <3>3. r[k][i].seq < r[l][j].seq
      BY <1>8, <3>1, <3>2, UpwardsPair
    <3> QED BY <3>1, <3>3
  <2>2. CASE Old(k, i) /\ New(l, j)
    <3>1. q[l][j].to = s /\ q[l][j].seq = low[s] + (j - m) - 1 /\ j > m
      BY <1>5, <2>2
    <3>2. q[k][i].seq < low[s]
      BY <1>6, <1>8, <2>2, <3>1
    <3>3. q[k][i].seq \in Nat /\ q[l][j].seq \in Nat /\ j \in Int
      BY <1>3
    <3>4. low[s] <= q[l][j].seq
      BY <1>2, <1>7, <3>1, <3>3, NumberFrom
    <3>5. \A x, a, y \in Nat : x < a /\ a <= y => x < y
      OBVIOUS
    <3> QED BY <1>7, <3>2, <3>3, <3>4, <3>5, Zenon
  <2>3. CASE New(k, i) /\ New(l, j)
    <3>1. /\ k = n /\ l = n
          /\ q[k][i].seq = low[s] + (i - m) - 1 /\ q[l][j].seq = low[s] + (j - m) - 1
      BY <1>5, <2>3
    <3>2. i \in Int /\ j \in Int
      BY <1>3
    <3>3. i < j
      BY <1>8, <3>1, <3>2 DEF Earlier
    <3> QED BY <1>2, <1>7, <3>1, <3>2, <3>3
  <2>4. CASE New(k, i) /\ Old(l, j)
    <3>1. k = n /\ i > m /\ (l = n => j <= m)
      BY <1>5, <1>6, <2>4
    <3>2. i \in Int /\ j \in Int
      BY <1>3
    <3>3. l = n /\ i < j
      BY <1>8, <3>1, <3>2 DEF Earlier
    <3> QED BY <1>2, <3>1, <3>2, <3>3
  <2> QED BY <1>4, <2>1, <2>2, <2>3, <2>4
<1>9. ASSUME NEW k \in 0..n, NEW i \in 1..Len(q[k])
      PROVE  /\ q[k][i].seq < low2[q[k][i].to]
             /\ last[q[k][i].to] # None => last[q[k][i].to].seq < q[k][i].seq
  <2>1. CASE Old(k, i)
    <3>1. i \in 1..Len(r[k]) /\ q[k][i] = r[k][i]
      BY <1>6, <2>1
    <3>2. /\ r[k][i].seq < low2[r[k][i].to]
          /\ last[r[k][i].to] # None => last[r[k][i].to].seq < r[k][i].seq
      BY <1>1, <3>1, UpwardsOne
    <3> QED BY <3>1, <3>2
  <2>2. CASE New(k, i)
    <3>1. /\ q[k][i].to = s /\ q[k][i].seq = low[s] + (i - m) - 1
          /\ i > m /\ i - m <= Len(f) /\ i \in Int /\ q[k][i].seq \in Nat
      BY <1>3, <1>5, <2>2
    <3>2. q[k][i].seq < low2[s] /\ low[s] <= q[k][i].seq
      <4>1. low[s] <= q[k][i].seq /\ q[k][i].seq < low[s] + (i - m)
        BY <1>2, <1>7, <3>1, NumberFrom
      <4>2. low[s] + (i - m) <= low2[s]
        BY <1>2, <1>7, <3>1
      <4> QED BY <1>2, <1>7, <3>1, <4>1, <4>2
    <3>3. last[s] # None => last[s].seq < low[s] /\ last[s].seq \in Nat
      BY DEF Upwards, LastOffered, WireFrameOut
    <3>4. last[s] # None => last[s].seq < q[k][i].seq
      BY <1>7, <3>1, <3>2, <3>3
    <3> QED BY <3>1, <3>2, <3>4
  <2> QED BY <1>4, <2>1, <2>2
<1>10. \A u \in Sessions : last[u] # None => last[u].seq < low2[u]
  BY <1>1 DEF Upwards
<1> QED BY <1>8, <1>9, <1>10 DEF Upwards

\* The rows of a running pipeline.
LEMMA RowsTyped ==
    ASSUME PipeTypes
    PROVE  /\ Last \in Nat /\ Last >= 1 /\ Rows \in RowsOf(Last)
           /\ NextNumber \in [Sessions -> Nat] /\ offered \in LastOffered
<1>1. Made \in Seq(WireFrameOut)
  BY DEF PipeTypes, Made, Work
<1>2. Last \in Nat /\ Last >= 1
  BY DEF PipeTypes, Last
<1>3. \A k \in 0..Last : k # 0 /\ k # Last => results[k] \in Seq(WireFrameOut)
  BY DEF PipeTypes, Last
<1>4. Rows \in RowsOf(Last)
  BY <1>1, <1>2, <1>3 DEF PipeTypes, Rows, RowsOf
<1>5. NextNumber \in [Sessions -> Nat]
  BY DEF PipeTypes, NextNumber, Work
<1> QED BY <1>2, <1>4, <1>5 DEF PipeTypes, LastOffered

\* Steps that touch neither the packets nor the counter.
LEMMA NumberingKept ==
    ASSUME Numbering, UNCHANGED <<work, sequence, results, batch, offered>>
    PROVE  Numbering'
<1>1. Last' = Last /\ Rows' = Rows /\ NextNumber' = NextNumber
  BY DEF Last, Rows, Made, NextNumber
<1> QED BY <1>1 DEF Numbering

\* Steps of the worker that add no packet to its row.
LEMMA NumberingLater ==
    ASSUME PipeTypes, PipeTypes', Numbering, UNCHANGED <<results, batch, offered>>,
           Made' = Made, \A s \in Sessions : NextNumber[s] <= NextNumber'[s],
           work' # None /\ work'.to # {} => work'.seq < sequence'
    PROVE  Numbering'
<1>1. Last' = Last /\ Rows' = Rows
  BY DEF Last, Rows
<1>2. Upwards(Last, Rows, offered, NextNumber)
  BY DEF Numbering
<1>3. /\ Last \in Nat /\ Rows \in RowsOf(Last) /\ NextNumber \in [Sessions -> Nat]
      /\ offered \in LastOffered /\ NextNumber' \in [Sessions -> Nat]
  BY RowsTyped DEF PipeTypes, NextNumber, Work
<1>4. Upwards(Last, Rows, offered, NextNumber')
  BY <1>2, <1>3, UpwardsLater
<1> QED BY <1>1, <1>4 DEF Numbering

\* The numbers stay in order.
LEMMA NumberingStep ==
    ASSUME PipeTypes, PipeTypes', JobsWellFormed, Numbering, [PipeNext]_vars
    PROVE  /\ Numbering'
           /\ \A s \in Sessions : offered'[s] # offered[s] /\ offered[s] # None
                  => offered'[s].seq > offered[s].seq
<1> DEFINE Up == \A s \in Sessions : offered'[s] # offered[s] /\ offered[s] # None
                  => offered'[s].seq > offered[s].seq
<1> SUFFICES Numbering' /\ Up
  OBVIOUS
<1>0. /\ Last \in Nat /\ Last >= 1 /\ Rows \in RowsOf(Last)
      /\ NextNumber \in [Sessions -> Nat] /\ offered \in LastOffered
      /\ Upwards(Last, Rows, offered, NextNumber)
  BY RowsTyped DEF Numbering
<1>n. /\ Last' \in Nat /\ Rows' \in RowsOf(Last') /\ NextNumber' \in [Sessions -> Nat]
  <2>1. Made' \in Seq(WireFrameOut)
    BY DEF PipeTypes, Made, Work
  <2>2. Last' \in Nat /\ Last' >= 1
    BY DEF PipeTypes, Last
  <2>3. \A k \in 0..Last' : k # 0 /\ k # Last' => results'[k] \in Seq(WireFrameOut)
    BY DEF PipeTypes, Last
  <2>4. Rows' \in RowsOf(Last')
    BY <2>1, <2>2, <2>3 DEF PipeTypes, Rows, RowsOf
  <2> QED BY <2>2, <2>4 DEF PipeTypes, NextNumber, Work
<1>t. PipeTypes
  OBVIOUS
<1>1. ASSUME UNCHANGED <<work, sequence, results, batch, offered>> PROVE Numbering' /\ Up
  BY <1>1, NumberingKept
<1>2. CASE CaptureFrame \/ TierChanges \/ ControlStep \/ UNCHANGED vars
           \/ \E c \in Sessions : SettleFailure(c)
  <2>1. UNCHANGED <<work, sequence, results, batch, offered>>
    BY <1>2 DEF CaptureFrame, TierChanges, ControlStep, SettleFailure, vars, pipeVars
  <2> QED BY <1>1, <2>1
<1>3. CASE TakeResult
  <2>1. /\ results # <<>> /\ batch' = Head(results) /\ results' = Tail(results)
        /\ UNCHANGED <<work, sequence, offered>> /\ results \in Seq(Seq(WireFrameOut))
    BY <1>3 DEF TakeResult, PipeTypes
  <2>2. PICK n \in Nat : n = Len(results)
    BY <2>1
  <2>3. /\ n >= 1 /\ Last = n + 1 /\ Last' = n /\ batch' = results[1]
        /\ \A k \in 1..(n - 1) : results'[k] = results[k + 1]
    BY <2>1, <2>2 DEF Last
  <2>4. Made' = Made /\ NextNumber' = NextNumber
    BY <2>1 DEF Made, NextNumber
  <2>5. ASSUME NEW k \in 0..n PROVE Rows'[k] = Rows[k + 1]
    <3>1. k \in 0..Last' /\ k + 1 \in 0..Last /\ k + 1 # 0
      BY <2>3
    <3>2. CASE k = 0
      BY <2>3, <3>1, <3>2 DEF Rows
    <3>3. CASE k = n
      BY <2>3, <2>4, <3>1, <3>3 DEF Rows
    <3>4. CASE k # 0 /\ k # n
      <4>1. k \in 1..(n - 1) /\ k + 1 # Last /\ k # Last'
        BY <2>3, <3>4
      <4> QED BY <2>3, <3>1, <3>4, <4>1 DEF Rows
    <3> QED BY <3>2, <3>3, <3>4
  <2>6. Upwards(n, Rows', offered, NextNumber)
    BY <1>0, <1>n, <2>3, <2>5, UpwardsTaken
  <2>7. work' # None /\ work'.to # {} => work'.seq < sequence'
    BY <2>1 DEF Numbering
  <2> QED BY <2>1, <2>3, <2>4, <2>6, <2>7 DEF Numbering
<1>4. CASE WorkerTakesJob
  <2>1. /\ work = None /\ work'.to = {} /\ work'.out = <<>>
        /\ UNCHANGED <<sequence, results, batch, offered>>
    BY <1>4 DEF WorkerTakesJob
  <2>2. Made' = Made /\ NextNumber' = NextNumber
    BY <2>1 DEF Made, NextNumber
  <2>3. \A s \in Sessions : NextNumber[s] <= NextNumber'[s]
    BY <1>0, <2>2
  <2> QED BY <2>1, <2>2, <2>3, NumberingLater
<1>5. CASE WorkerEncodes
  <2>1. PICK b \in work.todo, ok \in BOOLEAN : EncodeGroup(EncoderKey(b), ok)
    BY <1>5 DEF WorkerEncodes
  <2>2. work # None /\ work \in Work /\ work.to = {} /\ EncoderKey(b).mode \in AudioModes
    BY <1>5, <2>1 DEF WorkerEncodes, PipeTypes, Work, BroadcastClient, EncoderKey
  <2>3. /\ work'.out = work.out /\ work' \in Work
        /\ \/ work'.to = {} /\ sequence' = sequence
           \/ work'.seq = sequence /\ sequence' = sequence + 1
    BY <2>1, <2>2, EncodedWork
  <2>4. UNCHANGED <<results, batch, offered>> /\ sequence \in Nat
    BY <2>1 DEF EncodeGroup, PipeTypes
  <2>5. work' # None
    BY <2>3, NothingInHand
  <2>6. Made' = Made
    BY <2>2, <2>3, <2>5 DEF Made
  <2>7. \A s \in Sessions : NextNumber[s] <= NextNumber'[s]
    BY <2>2, <2>3, <2>4 DEF NextNumber
  <2>8. work'.to # {} => work'.seq < sequence'
    BY <2>3, <2>4
  <2> QED BY <2>4, <2>6, <2>7, <2>8, NumberingLater
<1>6. CASE WorkerFansOut
  <2>1. PICK b \in work.to : FanOut(b)
    BY <1>6 DEF WorkerFansOut
  <2>2. work # None /\ work \in Work
    BY <1>6 DEF WorkerFansOut, PipeTypes
  <2>3. /\ work' \in Work /\ work'.to = work.to \ {b}
        /\ work'.seq = work.seq /\ work'.out = work.out \o WireFrames(b)
        /\ sequence' = sequence + Extras(b)
    BY <2>1, <2>2, FannedOutWork
  <2>4. UNCHANGED <<results, batch, offered>>
    BY <2>1 DEF FanOut
  <2>5. work' # None
    BY <2>3, NothingInHand
  <2>6. PICK f \in Seq(WireFrameOut) : f = WireFrames(b)
    BY <2>2, WireFramesType
  <2>7. PICK p \in Nat, e \in Nat : p = Pieces(b) /\ e = Extras(b) /\ e >= p - 1
    BY PiecesType
  <2>8. /\ b.id \in Sessions /\ Len(f) = p
        /\ \A i \in 1..Len(f) : f[i].to = b.id /\ f[i].seq = work.seq + i - 1
    BY <2>2, <2>6, <2>7, WireFramesType DEF BroadcastClient
  <2>9. work.seq < sequence /\ work.seq \in Nat /\ sequence \in Nat
    BY <2>2 DEF Numbering, PipeTypes, Work
  <2>10. NextNumber[b.id] = work.seq
    BY <2>2, <2>8 DEF NextNumber
  <2>11. NextNumber'[b.id] = sequence + e
    <3>1. ~ \E d \in work'.to : d.id = b.id
      BY <2>2, <2>3 DEF JobsWellFormed, OncePerSession
    <3> QED BY <2>3, <2>5, <2>7, <2>8, <3>1 DEF NextNumber
  <2>12. ASSUME NEW s \in Sessions PROVE NextNumber[s] <= NextNumber'[s]
    <3>1. CASE s = b.id
      BY <2>7, <2>9, <2>10, <2>11, <3>1
    <3>2. CASE s # b.id
      <4>1. (\E d \in work.to : d.id = s) <=> (\E d \in work'.to : d.id = s)
        BY <2>3, <3>2
      <4>2. NextNumber[s] = IF \E d \in work.to : d.id = s THEN work.seq ELSE sequence
        BY <2>2 DEF NextNumber
      <4>3. NextNumber'[s] = IF \E d \in work.to : d.id = s THEN work.seq ELSE sequence + e
        BY <2>3, <2>5, <2>7, <4>1 DEF NextNumber
      <4> QED BY <2>7, <2>9, <4>2, <4>3
    <3> QED BY <3>1, <3>2
  <2>13. NextNumber[b.id] + Len(f) <= NextNumber'[b.id]
    BY <2>7, <2>8, <2>9, <2>10, <2>11
  <2>14. /\ Last' = Last /\ Rows'[Last] = Rows[Last] \o f
         /\ \A k \in 0..(Last - 1) : Rows'[k] = Rows[k]
    <3>1. Last' = Last /\ Made = work.out /\ Made' = work.out \o f
      BY <2>2, <2>3, <2>4, <2>5, <2>6 DEF Last, Made
    <3>2. Last \in 0..Last /\ Last # 0 /\ \A k \in 0..(Last - 1) : k \in 0..Last /\ k # Last
      BY <1>0
    <3> QED BY <2>4, <3>1, <3>2 DEF Rows
  <2>15. \A i \in 1..Len(f) : f[i].to = b.id /\ f[i].seq = NextNumber[b.id] + i - 1
    BY <2>8, <2>10
  <2>16. Upwards(Last, Rows', offered, NextNumber')
    <3>1. Rows' \in RowsOf(Last) /\ NextNumber' \in [Sessions -> Nat]
      BY <1>n, <2>14
    <3>2. NumberedFrom(f, b.id, NextNumber[b.id]) /\ LongerBy(Last, Rows', Rows, f)
      BY <2>14, <2>15 DEF NumberedFrom, LongerBy
    <3> QED BY <1>0, <2>8, <2>12, <2>13, <3>1, <3>2, UpwardsMade
  <2>17. work'.seq < sequence'
    BY <2>3, <2>7, <2>9
  <2> QED BY <2>4, <2>14, <2>16, <2>17 DEF Numbering
<1>7. CASE WorkerSendsResult
  <2>1. /\ work # None /\ work.to = {} /\ results' = Append(results, work.out)
        /\ work' = None /\ UNCHANGED <<sequence, batch, offered>>
        /\ results \in Seq(Seq(WireFrameOut)) /\ work \in Work
    BY <1>7 DEF WorkerSendsResult, PipeTypes
  <2>2. PICK o \in Seq(WireFrameOut) : o = work.out
    BY <2>1 DEF Work
  <2>3. /\ Last' = Last + 1 /\ results'[Last] = o
        /\ \A k \in 1..(Last - 1) : results'[k] = results[k]
    BY <2>1, <2>2 DEF Last
  <2>4. Made = o /\ Made' = <<>> /\ NextNumber' = NextNumber
    BY <2>1, <2>2 DEF Made, NextNumber
  <2>5. ASSUME NEW k \in 0..Last PROVE Rows'[k] = Rows[k]
    <3>1. k \in 0..Last' /\ k # Last'
      BY <1>0, <2>3
    <3>2. CASE k = 0
      BY <1>0, <2>1, <3>1, <3>2 DEF Rows
    <3>3. CASE k = Last
      BY <1>0, <2>3, <2>4, <3>1, <3>3 DEF Rows
    <3>4. CASE k # 0 /\ k # Last
      <4>1. k \in 1..(Last - 1)
        BY <1>0, <3>4
      <4> QED BY <2>3, <3>1, <3>4, <4>1 DEF Rows
    <3> QED BY <3>2, <3>3, <3>4
  <2>6. Rows'[Last + 1] = <<>>
    <3>1. Last + 1 \in 0..Last' /\ Last + 1 # 0 /\ Last' = Last + 1
      BY <1>0, <2>3
    <3> QED BY <2>4, <3>1 DEF Rows
  <2>7. Upwards(Last + 1, Rows', offered, NextNumber)
    BY <1>0, <1>n, <2>3, <2>5, <2>6, UpwardsHandedOver
  <2> QED BY <2>1, <2>3, <2>4, <2>7 DEF Numbering
<1>8. CASE SendFrame
  <2>1. PICK w \in WireFrameOut : w = Head(batch)
    BY <1>8 DEF SendFrame, PipeTypes
  <2>2. /\ batch # <<>> /\ batch' = Tail(batch) /\ offered' = [offered EXCEPT ![w.to] = w]
        /\ UNCHANGED <<work, sequence, results>>
    BY <1>8, <2>1 DEF SendFrame
  <2>3. Last' = Last /\ Made' = Made /\ NextNumber' = NextNumber
    BY <2>2 DEF Last, Made, NextNumber
  <2>4. /\ Rows[0] = batch /\ Rows'[0] = Tail(batch)
        /\ \A k \in 1..Last : Rows'[k] = Rows[k]
    <3>1. 0 \in 0..Last /\ \A k \in 1..Last : k \in 0..Last /\ k # 0
      BY <1>0
    <3> QED BY <2>2, <2>3, <3>1 DEF Rows
  <2>5. /\ offered[w.to] # None => offered[w.to].seq < w.seq
        /\ Upwards(Last, Rows', [offered EXCEPT ![w.to] = w], NextNumber)
    <3>1. Rows' \in RowsOf(Last)
      BY <1>n, <2>3
    <3> QED BY <1>0, <2>1, <2>2, <2>4, <3>1, UpwardsSent
  <2>6. Numbering'
    BY <2>2, <2>3, <2>5 DEF Numbering
  <2>7. Up
    <3>1. w.to \in Sessions /\ w.seq \in Nat
      BY DEF WireFrameOut
    <3>2. \A s \in Sessions : offered'[s] = IF s = w.to THEN w ELSE offered[s]
      BY <1>0, <2>2 DEF LastOffered
    <3>3. offered[w.to] # None => offered[w.to].seq \in Nat
      BY <1>0, <3>1 DEF LastOffered, WireFrameOut
    <3> QED BY <2>5, <3>1, <3>2, <3>3
  <2> QED BY <2>6, <2>7
<1> HIDE DEF Up
<1> QED BY <1>2, <1>3, <1>4, <1>5, <1>6, <1>7, <1>8 DEF PipeNext

(***************************************************************************)
(* Who the packets are for.                                                *)
(***************************************************************************)

\* The channels as sets of recipients.
LEMMA JobsAppended ==
    ASSUME NEW js \in Seq(Job), NEW j \in Job
    PROVE  MeantByJobs(Append(js, j)) \subseteq MeantByJobs(js) \cup MeantBy(j.clients)
<1> DEFINE a == Append(js, j)
<1>1. Len(a) = Len(js) + 1 /\ Len(js) \in Nat
  OBVIOUS
<1>2. \A i \in 1..Len(a) : a[i] = IF i <= Len(js) THEN js[i] ELSE j
  OBVIOUS
<1> HIDE DEF a
<1>3. ASSUME NEW i \in 1..Len(a)
      PROVE  a[i] = j \/ (i \in 1..Len(js) /\ a[i] = js[i])
  <2>1. CASE i <= Len(js)
    <3>1. i \in 1..Len(js)
      BY <1>1, <2>1
    <3> QED BY <1>2, <2>1, <3>1
  <2>2. CASE ~(i <= Len(js))
    BY <1>2, <2>2
  <2> QED BY <2>1, <2>2
<1>4. MeantByJobs(a) \subseteq MeantByJobs(js) \cup MeantBy(j.clients)
  BY <1>3 DEF MeantByJobs
<1> QED BY <1>4 DEF a

LEMMA JobsTaken ==
    ASSUME NEW js \in Seq(Job), js # <<>>
    PROVE  /\ MeantBy(Head(js).clients) \subseteq MeantByJobs(js)
           /\ MeantByJobs(Tail(js)) \subseteq MeantByJobs(js)
<1>1. Head(js) = js[1] /\ 1 \in 1..Len(js)
  OBVIOUS
<1>a. Tail(js) \in Seq(Job)
  OBVIOUS
<1>2. PICK t \in Seq(Job) : t = Tail(js)
  BY <1>a
<1>3. \A i \in 1..Len(t) : i + 1 \in 1..Len(js) /\ t[i] = js[i + 1]
  BY <1>2
<1> QED BY <1>1, <1>2, <1>3 DEF MeantByJobs

LEMMA ResultsAppended ==
    ASSUME NEW rs \in Seq(Seq(WireFrameOut)), NEW q \in Seq(WireFrameOut)
    PROVE  SentByResults(Append(rs, q)) \subseteq SentByResults(rs) \cup SentTo(q)
<1> DEFINE a == Append(rs, q)
<1>1. Len(a) = Len(rs) + 1 /\ Len(rs) \in Nat
  OBVIOUS
<1>2. \A i \in 1..Len(a) : a[i] = IF i <= Len(rs) THEN rs[i] ELSE q
  OBVIOUS
<1> HIDE DEF a
<1>3. ASSUME NEW i \in 1..Len(a)
      PROVE  a[i] = q \/ (i \in 1..Len(rs) /\ a[i] = rs[i])
  <2>1. CASE i <= Len(rs)
    <3>1. i \in 1..Len(rs)
      BY <1>1, <2>1
    <3> QED BY <1>2, <2>1, <3>1
  <2>2. CASE ~(i <= Len(rs))
    BY <1>2, <2>2
  <2> QED BY <2>1, <2>2
<1>4. SentByResults(a) \subseteq SentByResults(rs) \cup SentTo(q)
  BY <1>3 DEF SentByResults
<1> QED BY <1>4 DEF a

LEMMA ResultsTaken ==
    ASSUME NEW rs \in Seq(Seq(WireFrameOut)), rs # <<>>
    PROVE  /\ SentTo(Head(rs)) \subseteq SentByResults(rs)
           /\ SentByResults(Tail(rs)) \subseteq SentByResults(rs)
<1>1. Head(rs) = rs[1] /\ 1 \in 1..Len(rs)
  OBVIOUS
<1>a. Tail(rs) \in Seq(Seq(WireFrameOut))
  OBVIOUS
<1>2. PICK t \in Seq(Seq(WireFrameOut)) : t = Tail(rs)
  BY <1>a
<1>3. \A i \in 1..Len(t) : i + 1 \in 1..Len(rs) /\ t[i] = rs[i + 1]
  BY <1>2
<1> QED BY <1>1, <1>2, <1>3 DEF SentByResults

LEMMA PacketsSent ==
    ASSUME NEW q \in Seq(WireFrameOut), q # <<>>
    PROVE  /\ <<Head(q).to, Head(q).transport>> \in SentTo(q)
           /\ SentTo(Tail(q)) \subseteq SentTo(q)
<1>1. Head(q) = q[1] /\ 1 \in 1..Len(q)
  OBVIOUS
<1>a. Tail(q) \in Seq(WireFrameOut)
  OBVIOUS
<1>2. PICK t \in Seq(WireFrameOut) : t = Tail(q)
  BY <1>a
<1>3. \A i \in 1..Len(t) : i + 1 \in 1..Len(q) /\ t[i] = q[i + 1]
  BY <1>2
<1> QED BY <1>1, <1>2, <1>3 DEF SentTo

LEMMA PacketsMade ==
    ASSUME NEW q \in Seq(WireFrameOut), NEW f \in Seq(WireFrameOut)
    PROVE  SentTo(q \o f) \subseteq SentTo(q) \cup SentTo(f)
<1>a. q \o f \in Seq(WireFrameOut)
  OBVIOUS
<1>1. PICK t \in Seq(WireFrameOut) : t = q \o f
  BY <1>a
<1>2. \A i \in 1..Len(t) : \/ i \in 1..Len(q) /\ t[i] = q[i]
                           \/ i - Len(q) \in 1..Len(f) /\ t[i] = f[i - Len(q)]
  BY <1>1
<1> QED BY <1>1, <1>2 DEF SentTo

\* Nothing in flight changes its recipient or its transport on the way; only a
\* captured frame adds recipients, with the transports they have then.
LEMMA InFlightStep ==
    ASSUME TypeOK, PipeTypes, [PipeNext]_vars
    PROVE  \A p \in InFlight' : p \in InFlight
               \/ \E c \in Reachable : p = <<c, handle[c].transport>>
<1> DEFINE From == InFlight \cup {<<c, handle[c].transport>> : c \in Reachable}
<1> SUFFICES InFlight' \subseteq From
  OBVIOUS
<1> HIDE DEF From
<1>0. InFlight \subseteq From /\ \A c \in Reachable : <<c, handle[c].transport>> \in From
  BY DEF From
<1>p. /\ MeantByJobs(jobs) \subseteq From /\ MeantByWork(work) \subseteq From
      /\ SentByResults(results) \subseteq From /\ SentTo(batch) \subseteq From
  BY <1>0 DEF InFlight
<1>s. ASSUME MeantByJobs(jobs') \subseteq From, MeantByWork(work') \subseteq From,
             SentByResults(results') \subseteq From, SentTo(batch') \subseteq From
      PROVE  InFlight' \subseteq From
  BY <1>s DEF InFlight
<1>1. CASE TierChanges \/ ControlStep \/ UNCHANGED vars
           \/ \E c \in Sessions : SettleFailure(c)
  <2>1. UNCHANGED <<jobs, work, results, batch>>
    BY <1>1 DEF TierChanges, ControlStep, SettleFailure, vars, pipeVars
  <2> QED BY <1>p, <1>s, <2>1
<1>2. CASE CaptureFrame
  <2>1. /\ UNCHANGED <<work, results, batch>> /\ jobs \in Seq(Job)
        /\ jobs' = jobs \/ jobs' = Append(jobs, EncodeJob)
    BY <1>2 DEF CaptureFrame, PipeTypes
  <2>2. EncodeJob \in Job
    BY JobType DEF JobsWellFormed
  <2>3. MeantBy(EncodeJob.clients) \subseteq From
    <3>1. EncodeJob.clients = {Snapshot(c) : c \in Reachable}
      BY DEF EncodeJob
    <3>2. \A c \in Reachable : Snapshot(c).id = c /\ Snapshot(c).transport = handle[c].transport
      BY DEF Snapshot
    <3> QED BY <1>0, <3>1, <3>2 DEF MeantBy
  <2>4. MeantByJobs(jobs') \subseteq From
    <3>1. MeantByJobs(Append(jobs, EncodeJob)) \subseteq From
      BY <1>p, <2>1, <2>2, <2>3, JobsAppended
    <3> QED BY <1>p, <2>1, <3>1
  <2> QED BY <1>p, <1>s, <2>1, <2>4
<1>3. CASE TakeResult
  <2>1. /\ results # <<>> /\ batch' = Head(results) /\ results' = Tail(results)
        /\ UNCHANGED <<jobs, work>> /\ results \in Seq(Seq(WireFrameOut))
    BY <1>3 DEF TakeResult, PipeTypes
  <2>2. SentTo(Head(results)) \subseteq From /\ SentByResults(Tail(results)) \subseteq From
    BY <1>p, <2>1, ResultsTaken
  <2> QED BY <1>p, <1>s, <2>1, <2>2
<1>4. CASE WorkerTakesJob
  <2>1. /\ jobs # <<>> /\ jobs' = Tail(jobs) /\ jobs \in Seq(Job)
        /\ UNCHANGED <<results, batch>>
        /\ work'.todo = Head(jobs).clients /\ work'.to = {} /\ work'.out = <<>>
    BY <1>4 DEF WorkerTakesJob, PipeTypes
  <2>2. MeantBy(Head(jobs).clients) \subseteq From /\ MeantByJobs(Tail(jobs)) \subseteq From
    BY <1>p, <2>1, JobsTaken
  <2>3. MeantBy({}) = {} /\ SentTo(<<>>) = {}
    BY DEF MeantBy, SentTo
  <2>4. MeantByWork(work') \subseteq From
    BY <2>1, <2>2, <2>3 DEF MeantByWork
  <2> QED BY <1>p, <1>s, <2>1, <2>2, <2>4
<1>5. CASE WorkerEncodes
  <2>1. PICK b \in work.todo, ok \in BOOLEAN : EncodeGroup(EncoderKey(b), ok)
    BY <1>5 DEF WorkerEncodes
  <2>2. work # None /\ work \in Work /\ work.to = {} /\ EncoderKey(b).mode \in AudioModes
    BY <1>5, <2>1 DEF WorkerEncodes, PipeTypes, Work, BroadcastClient, EncoderKey
  <2>3. work'.out = work.out /\ work'.todo \subseteq work.todo /\ work'.to \subseteq work.todo
    BY <2>1, <2>2, EncodedWork DEF Group
  <2>4. MeantBy(work.todo) \subseteq From /\ SentTo(work.out) \subseteq From
    BY <1>p, <2>2 DEF MeantByWork
  <2>5. MeantBy(work'.todo) \subseteq From /\ MeantBy(work'.to) \subseteq From
    BY <2>3, <2>4 DEF MeantBy
  <2>6. MeantByWork(work') \subseteq From
    BY <2>3, <2>4, <2>5 DEF MeantByWork
  <2>7. UNCHANGED <<jobs, results, batch>>
    BY <2>1 DEF EncodeGroup
  <2> QED BY <1>p, <1>s, <2>6, <2>7
<1>6. CASE WorkerFansOut
  <2>1. PICK b \in work.to : FanOut(b)
    BY <1>6 DEF WorkerFansOut
  <2>2. work # None /\ work \in Work
    BY <1>6 DEF WorkerFansOut, PipeTypes
  <2>3. /\ work'.todo = work.todo /\ work'.to \subseteq work.to
        /\ work'.out = work.out \o WireFrames(b)
    BY <2>1, <2>2, FannedOutWork
  <2>4. /\ MeantBy(work.todo) \subseteq From /\ MeantBy(work.to) \subseteq From
        /\ SentTo(work.out) \subseteq From
    BY <1>p, <2>2 DEF MeantByWork
  <2>5. SentTo(WireFrames(b)) \subseteq MeantBy(work.to)
    <3>1. PICK f \in Seq(WireFrameOut) : f = WireFrames(b)
      BY <2>2, WireFramesType
    <3>2. \A i \in 1..Len(f) : f[i].to = b.id /\ f[i].transport = b.transport
      BY <2>2, <3>1, WireFramesType
    <3> QED BY <3>1, <3>2 DEF SentTo, MeantBy
  <2>6. SentTo(work'.out) \subseteq From
    <3>1. work.out \in Seq(WireFrameOut) /\ WireFrames(b) \in Seq(WireFrameOut)
      BY <2>2, WireFramesType DEF Work
    <3>2. SentTo(work.out \o WireFrames(b)) \subseteq From
      BY <2>4, <2>5, <3>1, PacketsMade
    <3> QED BY <2>3, <3>2
  <2>7. MeantBy(work'.todo) \subseteq From /\ MeantBy(work'.to) \subseteq From
    BY <2>3, <2>4 DEF MeantBy
  <2>8. MeantByWork(work') \subseteq From
    BY <2>6, <2>7 DEF MeantByWork
  <2>9. UNCHANGED <<jobs, results, batch>>
    BY <2>1 DEF FanOut
  <2> QED BY <1>p, <1>s, <2>8, <2>9
<1>7. CASE WorkerSendsResult
  <2>1. /\ work # None /\ results' = Append(results, work.out) /\ work' = None
        /\ UNCHANGED <<jobs, batch>>
        /\ results \in Seq(Seq(WireFrameOut)) /\ work.out \in Seq(WireFrameOut)
    BY <1>7 DEF WorkerSendsResult, PipeTypes, Work
  <2>2. SentTo(work.out) \subseteq From
    BY <1>p, <2>1 DEF MeantByWork
  <2>3. SentByResults(Append(results, work.out)) \subseteq From
    BY <1>p, <2>1, <2>2, ResultsAppended
  <2>4. MeantByWork(work') = {}
    BY <2>1 DEF MeantByWork
  <2> QED BY <1>p, <1>s, <2>1, <2>3, <2>4
<1>8. CASE SendFrame
  <2>1. batch # <<>> /\ batch' = Tail(batch) /\ UNCHANGED <<jobs, work, results>>
        /\ batch \in Seq(WireFrameOut)
    BY <1>8 DEF SendFrame, PipeTypes
  <2>2. SentTo(Tail(batch)) \subseteq From
    BY <1>p, <2>1, PacketsSent
  <2> QED BY <1>p, <1>s, <2>1, <2>2
<1> QED BY <1>1, <1>2, <1>3, <1>4, <1>5, <1>6, <1>7, <1>8 DEF PipeNext

(***************************************************************************)
(* The streams.                                                            *)
(***************************************************************************)

\* A stream in flight keeps its owner: a new one would have to come from the
\* queue, and it is not there.
LEMMA OwnerStep ==
    ASSUME RegistryInv, UsbInv, PipeTypes, StreamsKeepOwner, [PipeNext]_vars
    PROVE  StreamsKeepOwner'
<1>0. TypeOK /\ [Next]_regVars
  BY PipeStepIsStep DEF RegistryInv
<1> SUFFICES ASSUME NEW p \in InFlight', p[2] \in Streams
             PROVE  /\ GivenOut(p[2])'
                    /\ \A s \in Sessions : Transports'[s] = p[2] => s = p[1]
  BY DEF StreamsKeepOwner
<1>1. GivenOut(p[2]) /\ \A s \in Sessions : Transports[s] = p[2] => s = p[1]
  <2>1. CASE p \in InFlight
    BY <2>1 DEF StreamsKeepOwner
  <2>2. CASE \E c \in Reachable : p = <<c, handle[c].transport>>
    <3>1. PICK c \in Sessions : p[1] = c /\ p[2] = handle[c].transport
      BY <1>0, <2>2 DEF Reachable, TypeOK
    <3>2. Transports[c] = p[2] /\ p[2] \in Streams
      BY <3>1 DEF Transports, TransportsIn
    <3> QED BY <3>1, <3>2 DEF UsbInv, UsbGood, GivenOut
  <2> QED BY <1>0, <2>1, <2>2, InFlightStep
<1>2. /\ GivenOut(p[2])'
      /\ \A s \in Sessions : Transports'[s] = p[2] => Transports[s] = p[2]
  BY <1>0, <1>1, GivenOutStays
<1> QED BY <1>1, <1>2

\* A failure is noted for the owner of the stream when it happens, and the note
\* is only dropped together with the owner's transport.
LEMMA FailureStep ==
    ASSUME RegistryInv, UsbInv, PipeTypes, StreamsKeepOwner, FailuresNoted,
           [PipeNext]_vars
    PROVE  FailuresNoted'
<1>0. TypeOK /\ [Next]_regVars /\ handle \in [Sessions -> ClientHandle]
  BY PipeStepIsStep DEF RegistryInv, TypeOK
<1>s. ASSUME NEW st \in Streams, stream[st] # "open"
      PROVE  /\ GivenOut(st)'
             /\ \A s \in Sessions : Transports'[s] = st => Transports[s] = st /\ s \in failed
  <2>1. GivenOut(st) /\ \A s \in Sessions : Transports[s] = st => s \in failed
    BY <1>s DEF FailuresNoted
  <2> QED BY <1>0, <2>1, GivenOutStays
<1>1. CASE stream' = stream /\ failed \subseteq failed'
  BY <1>1, <1>s DEF FailuresNoted
<1>2. CASE ControlStep \/ CaptureFrame \/ TierChanges \/ TakeResult \/ WorkerTakesJob
           \/ WorkerEncodes \/ WorkerFansOut \/ WorkerSendsResult \/ UNCHANGED vars
  <2>1. stream' = stream /\ failed' = failed
    BY <1>2 DEF ControlStep, CaptureFrame, TierChanges, TakeResult, WorkerTakesJob,
       WorkerEncodes, EncodeGroup, WorkerFansOut, FanOut, WorkerSendsResult, vars, pipeVars
  <2> QED BY <1>1, <2>1
<1>3. ASSUME NEW c \in Sessions, SettleFailure(c)
      PROVE  FailuresNoted'
  <2>1. stream' = stream /\ failed' = failed \ {c}
    BY <1>3 DEF SettleFailure
  <2>2. handle'[c].transport = None
    <3>1. CASE c \in clients
      <4>1. ASSUME NEW h \in ClientHandle PROVE [h EXCEPT !.transport = None].transport = None
        BY DEF ClientHandle
      <4>2. handle' = RemovedHandles({c}) \/ handle' = WithTransport(handle, c, None)
        BY <1>3, <3>1 DEF SettleFailure, RemoveClient, MarkUsbTransportLost
      <4> QED BY <1>0, <4>1, <4>2 DEF RemovedHandles, WithTransport
    <3>2. CASE c \notin clients
      <4>1. handle' = handle
        BY <1>3, <3>2 DEF SettleFailure, RemoveClient, MarkUsbTransportLost
      <4>2. Transports[c] = None
        BY <3>2 DEF UsbInv, UsbGood
      <4> QED BY <4>1, <4>2 DEF Transports, TransportsIn
    <3> QED BY <3>1, <3>2
  <2>3. Transports'[c] = None
    BY <2>2 DEF Transports, TransportsIn
  <2> SUFFICES ASSUME NEW st \in Streams, stream'[st] # "open"
               PROVE  /\ GivenOut(st)'
                      /\ \A s \in Sessions : Transports'[s] = st => s \in failed'
    BY DEF FailuresNoted
  <2>4. /\ GivenOut(st)'
        /\ \A s \in Sessions : Transports'[s] = st => Transports[s] = st /\ s \in failed
    BY <1>s, <2>1
  <2>5. \A s \in Sessions : Transports'[s] = st => s # c
    BY <2>3, MarkersDistinct
  <2> QED BY <2>1, <2>4, <2>5
<1>4. CASE SendFrame
  <2>1. PICK w \in WireFrameOut : w = Head(batch)
    BY <1>4 DEF SendFrame, PipeTypes
  <2>2. CASE Sender(w) # "usb_direct"
    <3>1. stream' = stream /\ failed \subseteq failed'
      BY <1>4, <2>1, <2>2 DEF SendFrame, UdpSend
    <3> QED BY <1>1, <3>1
  <2>3. CASE Sender(w) = "usb_direct"
    <3>1. w.transport \in Streams
      BY <2>3 DEF Sender, WireFrameOut, DataPlanes
    <3>2. PICK after \in AfterWrite[stream[w.transport]] :
              /\ stream' = [stream EXCEPT ![w.transport] = after]
              /\ failed' = IF WriteFails(after) THEN failed \cup {w.to} ELSE failed
      BY <1>4, <2>1, <2>3 DEF SendFrame, UsbSend
    <3>3. /\ GivenOut(w.transport)
          /\ \A s \in Sessions : Transports[s] = w.transport => s = w.to
      <4>1. <<w.to, w.transport>> \in SentTo(batch)
        BY <1>4, <2>1, PacketsSent DEF SendFrame, PipeTypes
      <4>2. <<w.to, w.transport>> \in InFlight
        BY <4>1 DEF InFlight
      <4>3. PICK p \in InFlight : p = <<w.to, w.transport>>
        BY <4>2
      <4> QED BY <3>1, <4>3 DEF StreamsKeepOwner
    <3>4. stream[w.transport] = "open" /\ after # "open" => WriteFails(after)
      BY <3>2 DEF AfterWrite, WriteFails
    <3>5. \A st \in Streams : stream'[st] = IF st = w.transport THEN after ELSE stream[st]
      BY <3>1, <3>2 DEF PipeTypes
    <3> SUFFICES ASSUME NEW st \in Streams, stream'[st] # "open"
                 PROVE  /\ GivenOut(st)'
                        /\ \A s \in Sessions : Transports'[s] = st => s \in failed'
      BY DEF FailuresNoted
    <3>6. CASE stream[st] # "open"
      BY <1>s, <3>2, <3>6
    <3>7. CASE stream[st] = "open"
      <4>1. st = w.transport /\ WriteFails(after)
        BY <3>4, <3>5, <3>7
      <4>2. /\ GivenOut(st)'
            /\ \A s \in Sessions : Transports'[s] = st => Transports[s] = st
        BY <1>0, <3>3, <4>1, GivenOutStays
      <4> QED BY <3>2, <3>3, <4>1, <4>2
    <3> QED BY <3>6, <3>7
  <2> QED BY <2>2, <2>3
<1> QED BY <1>2, <1>3, <1>4 DEF PipeNext

(***************************************************************************)
(* The theorems.                                                           *)
(***************************************************************************)

\* A freshly started pipeline.
LEMMA PipeStart == PipeInit => PipeInv
<1> SUFFICES ASSUME PipeInit PROVE PipeInv
  OBVIOUS
<1>1. RegistryInv /\ UsbInv /\ PipeTypes /\ JobsWellFormed
  BY InitInv, InitUsb, PipeInitTypes DEF PipeInit
<1>2. /\ jobs = <<>> /\ work = None /\ results = <<>> /\ batch = <<>>
      /\ offered = [s \in Sessions |-> None] /\ stream = [st \in Streams |-> "open"]
  BY DEF PipeInit
<1>3. Numbering
  <2>1. \A k \in 0..Last : Rows[k] = <<>>
    BY <1>2 DEF Last, Rows, Made
  <2>2. \A k \in 0..Last : \A i \in 1..Len(Rows[k]) : FALSE
    BY <2>1
  <2> QED BY <1>2, <2>2 DEF Numbering, Upwards
<1>4. InFlight = {}
  BY <1>2 DEF InFlight, MeantByJobs, MeantByWork, SentByResults, SentTo
<1> QED BY <1>1, <1>2, <1>3, <1>4 DEF PipeInv, StreamsKeepOwner, FailuresNoted

\* Every step of every task keeps the invariant.
LEMMA PipeStep == PipeInv /\ [PipeNext]_vars => PipeInv'
<1> SUFFICES ASSUME PipeInv, [PipeNext]_vars PROVE PipeInv'
  OBVIOUS
<1> USE DEF PipeInv
<1>1. RegistryInv' /\ UsbInv'
  BY PipeStepIsStep, NextInv, NextUsb
<1>2. PipeTypes' /\ JobsWellFormed'
  BY PipeTypesStep DEF RegistryInv
<1>3. Numbering'
  BY <1>2, NumberingStep
<1>4. StreamsKeepOwner' /\ FailuresNoted'
  BY OwnerStep, FailureStep
<1> QED BY <1>1, <1>2, <1>3, <1>4

\* Between two batches no client keeps a stream on which a write has failed,
\* for every set of sessions and streams (dispatch_wire_frames,
\* mark_usb_transport_lost): a failure is applied by client id after the batch,
\* to whatever transport the client has by then, and still finds every broken
\* stream, because a stream that was given out never gets another owner.
THEOREM BrokenStreamsGivenUp == PipeSpec => []BrokenStreamsReleased
<1>1. PipeInv => BrokenStreamsReleased
  <2> SUFFICES ASSUME PipeInv, Idle, NEW c \in clients, handle[c].transport \in Streams
               PROVE  stream[handle[c].transport] = "open"
    BY DEF BrokenStreamsReleased
  <2>1. c \in Sessions /\ c \notin failed
    BY DEF PipeInv, RegistryInv, TypeOK, Idle
  <2>2. Transports[c] = handle[c].transport
    BY <2>1 DEF Transports, TransportsIn
  <2> QED BY <2>1, <2>2 DEF PipeInv, FailuresNoted
<1> QED BY <1>1, PipeStart, PipeStep, PTL DEF PipeSpec

\* The packets handed to a session are numbered strictly upwards, for every
\* number of sessions, groups and fragments and any queues between the tasks
\* (spawn_encode_worker, dispatch_wire_frames).
THEOREM NumbersIncrease == PipeSpec => SequenceIncreases
<1>1. PipeInv /\ [PipeNext]_vars =>
          [\A s \in Sessions :
              offered'[s] # offered[s] /\ offered[s] # None =>
                  offered'[s].seq > offered[s].seq]_vars
  <2> SUFFICES ASSUME PipeInv, [PipeNext]_vars
               PROVE  \A s \in Sessions :
                         offered'[s] # offered[s] /\ offered[s] # None =>
                             offered'[s].seq > offered[s].seq
    OBVIOUS
  <2>1. PipeInv'
    BY PipeStep
  <2> QED BY <2>1, NumberingStep DEF PipeInv
<1> QED BY <1>1, PipeStart, PipeStep, PTL DEF PipeSpec, SequenceIncreases

\* The control plane keeps its promises with the audio path attached to it: the
\* pipeline's steps are steps of the registry.
THEOREM PipelineKeepsRegistry == PipeSpec => Spec
<1>1. PipeInit => Init
  BY DEF PipeInit
<1> QED BY <1>1, PipeStepIsStep, PTL DEF PipeSpec, Spec

(***************************************************************************)
(* The boundaries of a switch.                                             *)
(***************************************************************************)

\* What the receiver is told about one frame of one session.
MarkType == [to : Sessions, frame : Nat, mode : AudioModes,
             flags : SUBSET {"config_changed", "discontinuity"}]
MarkOf(w) == [to |-> w.to, frame |-> w.frame, mode |-> w.mode, flags |-> w.flags]
MarksMeant(B, f) == {Mark(b, f) : b \in B}
MarksSent(q) == {MarkOf(q[i]) : i \in 1..Len(q)}
MarksOfWork(w) == IF w = None THEN {}
                  ELSE MarksMeant(w.todo \cup w.to, w.frame) \cup MarksSent(w.out)

\* The marks in flight, one set for each frame, in the order they will be
\* sent: the rest of the batch, the results, the worker's job, the other jobs.
StagesOf(rs, js) == Len(rs) + 1 + Len(js)
LineOf(bt, rs, wm, js) ==
    [k \in 0..StagesOf(rs, js) |->
        IF k = 0 THEN MarksSent(bt)
        ELSE IF k <= Len(rs) THEN MarksSent(rs[k])
        ELSE IF k = Len(rs) + 1 THEN wm
        ELSE MarksMeant(js[k - (Len(rs) + 1)].clients, js[k - (Len(rs) + 1)].frame)]
Stages == StagesOf(results, jobs)
Line == LineOf(batch, results, MarksOfWork(work), jobs)

\* In stages S the frames go upwards, and a stage has one frame, for which a
\* session has one mark.
Ordered(n, S) ==
    /\ \A k, l \in 0..n : k < l => \A p \in S[k], q \in S[l] : p.frame < q.frame
    /\ \A k \in 0..n : \A p, q \in S[k] : p.frame = q.frame /\ (p.to = q.to => p = q)
All(n, S) == UNION {S[k] : k \in 0..n}

\* Everything in flight, and the last packet each session was handed; with them
\* what was said by snapshots that became no packet.
Marks == All(Stages, Line)
HandedOut == {MarkOf(offered[s]) : s \in {u \in Sessions : offered[u] # None}}
Packets == Marks \cup HandedOut
Known == Packets \cup swallowed

\* What is encoded reaches every recipient of its group: no packet is cut into
\* no pieces.
Encodable(b) == b.data_plane = "legacy_las1" => b.codec = "pcm16"
NothingWithheld ==
    /\ \A i \in 1..Len(jobs) : \A b \in jobs[i].clients : Encodable(b)
    /\ work # None => \A b \in work.todo \cup work.to : Encodable(b)

\* Frames are sent in the order of capture.
InOrder ==
    /\ Ordered(Stages, Line)
    /\ swallowed \subseteq MarkType
    /\ \A p \in Known : 0 < p.frame /\ p.frame <= frames /\ pc[p.to] # "idle"
    /\ \A s \in Sessions : offered[s] # None =>
           /\ offered[s].to = s
           /\ \A p \in Marks : p.to = s =>
                  /\ offered[s].frame <= p.frame
                  /\ offered[s].frame = p.frame => p = MarkOf(offered[s])

\* Between two packets of a session in different modes a frame says so; if the
\* session's mode is another one than that of a packet, a later frame says so or
\* the next one will.
Changes(K, x) == {z \in K : /\ z.to = x.to /\ x.frame < z.frame
                            /\ "config_changed" \in z.flags}
SwitchesMarked ==
    /\ \A x, y \in Packets : x.to = y.to /\ x.frame < y.frame /\ x.mode # y.mode =>
           \E z \in Changes(Known, x) : z.frame <= y.frame
    /\ \A x \in Packets : x.mode # handle[x.to].mode =>
           "mode_sync" \in handle[x.to].pending \/ Changes(Known, x) # {}

\* A session that was handed no packet yet starts with a marked frame.
Awaiting(s) == pc[s] = "negotiated" \/ s \in clients
Starts(K, s) == {z \in K : z.to = s /\ "discontinuity" \in z.flags}
StartsMarked ==
    /\ \A y \in Packets : offered[y.to] = None =>
           \E z \in Starts(Known, y.to) : z.frame <= y.frame
    /\ \A s \in Sessions : Awaiting(s) /\ offered[s] = None =>
           "first_packet" \in handle[s].pending \/ Starts(Known, s) # {}

BoundaryInv == NothingWithheld /\ InOrder /\ SwitchesMarked /\ StartsMarked

-----------------------------------------------------------------------------
(* What the registry does to the flags.                                    *)

\* A step that changes no session's mode or flags.
AudioKept == \A s \in Sessions : /\ handle'[s].mode = handle[s].mode
                                 /\ handle'[s].pending = handle[s].pending

\* Removing a client and giving it a transport is such a step.
LEMMA TransportsOnly ==
    ASSUME TypeOK,
           \/ handle' = handle
           \/ \E R : handle' = RemovedHandles(R)
           \/ \E R, tr : \E c \in Sessions : handle' = WithTransport(RemovedHandles(R), c, tr)
           \/ \E tr : \E c \in Sessions : handle' = WithTransport(handle, c, tr)
    PROVE  AudioKept
<1> DEFINE Same(hs, gs) == \A s \in Sessions : /\ hs[s].mode = gs[s].mode
                                               /\ hs[s].pending = gs[s].pending
<1>1. handle \in [Sessions -> ClientHandle]
  BY DEF TypeOK
<1>2. ASSUME NEW h \in ClientHandle, NEW x
      PROVE  /\ [h EXCEPT !.transport = x].mode = h.mode
             /\ [h EXCEPT !.transport = x].pending = h.pending
  BY DEF ClientHandle
<1>3. ASSUME NEW R
      PROVE  Same(RemovedHandles(R), handle) /\ RemovedHandles(R) \in [Sessions -> ClientHandle]
  <2>1. RemovedHandles(R) \in [Sessions -> ClientHandle]
    BY RemovedHandlesType
  <2> QED BY <1>1, <1>2, <2>1 DEF RemovedHandles
<1>4. ASSUME NEW hs \in [Sessions -> ClientHandle], NEW c \in Sessions, NEW tr
      PROVE  Same(WithTransport(hs, c, tr), hs)
  BY <1>2 DEF WithTransport
<1>5. Same(handle', handle)
  <2>1. CASE handle' = handle
    BY <2>1
  <2>2. CASE \E R : handle' = RemovedHandles(R)
    BY <1>3, <2>2
  <2>3. CASE \E R, tr : \E c \in Sessions : handle' = WithTransport(RemovedHandles(R), c, tr)
    <3>1. PICK R, tr : \E c \in Sessions : handle' = WithTransport(RemovedHandles(R), c, tr)
      BY <2>3
    <3>2. PICK c \in Sessions : handle' = WithTransport(RemovedHandles(R), c, tr)
      BY <3>1
    <3>3. PICK hs \in [Sessions -> ClientHandle] : hs = RemovedHandles(R)
      BY <1>3
    <3>4. Same(hs, handle) /\ Same(WithTransport(hs, c, tr), hs)
      BY <1>3, <1>4, <3>3
    <3> QED BY <3>2, <3>3, <3>4
  <2>4. CASE \E tr : \E c \in Sessions : handle' = WithTransport(handle, c, tr)
    BY <1>1, <1>4, <2>4
  <2> QED BY <2>1, <2>2, <2>3, <2>4
<1> QED BY <1>5 DEF AudioKept

\* Session s keeps the flags it has, and a new mode is flagged; a session that
\* becomes one that awaits packets does so with its first packet flagged.
FlagsKept(s) ==
    /\ pc[s] # "idle" =>
           /\ pc'[s] # "idle"
           /\ handle[s].pending \subseteq handle'[s].pending
           /\ handle'[s].mode = handle[s].mode \/ "mode_sync" \in handle'[s].pending
    /\ Awaiting(s)' => \/ Awaiting(s) /\ handle[s].pending \subseteq handle'[s].pending
                       \/ "first_packet" \in handle'[s].pending

LEMMA FlagsOfTransportStep ==
    ASSUME AudioKept,
           \A s \in Sessions : pc[s] # "idle" => pc'[s] # "idle",
           \A s \in Sessions : pc'[s] = "negotiated" => pc[s] = "negotiated",
           \A s \in clients' : s \in clients \/ pc[s] = "negotiated"
    PROVE  \A s \in Sessions : FlagsKept(s)
BY DEF AudioKept, FlagsKept, Awaiting

\* What a handler does.
LEMMA FlagsOfSession ==
    ASSUME RegistryInv, NEW s \in Sessions, SessionStep(s)
    PROVE  \A u \in Sessions : FlagsKept(u)
<1>0. TypeOK /\ pc \in [Sessions -> Phases] /\ handle \in [Sessions -> ClientHandle]
  BY DEF RegistryInv, TypeOK
<1>1. CASE HandshakeFails(s) \/ SendCollected(s) \/ SessionReadError(s)
           \/ \E r \in Requests : SetAudioMode(s, r)
  <2>1. UNCHANGED <<clients, handle>>
    BY <1>1 DEF HandshakeFails, SendCollected, SessionReadError, SetAudioMode
  <2>2. pc' = pc \/ \E t \in {"closed", "streaming", "applying"} : pc' = [pc EXCEPT ![s] = t]
    BY <1>1 DEF HandshakeFails, SendCollected, SessionReadError, SetAudioMode
  <2>3. \A u \in Sessions : pc'[u] = pc[u] \/ pc'[u] \in {"closed", "streaming", "applying"}
    BY <1>0, <2>2
  <2> QED BY <1>0, <2>1, <2>3, TransportsOnly, FlagsOfTransportStep
<1>2. CASE \E h \in Hellos : ReceiveHello(s, h)
  <2>1. PICK h \in Hellos : ReceiveHello(s, h)
    BY <1>2
  <2>2. /\ pc[s] = "idle" /\ clients' = clients /\ pc' = [pc EXCEPT ![s] = "negotiated"]
        /\ handle'[s].pending = {"first_packet"}
        /\ \A u \in Sessions \ {s} : handle'[u] = handle[u]
    BY <1>0, <2>1 DEF ReceiveHello
  <2>3. FlagsKept(s)
    BY <2>2 DEF FlagsKept
  <2>4. ASSUME NEW u \in Sessions \ {s} PROVE FlagsKept(u)
    BY <1>0, <2>2 DEF FlagsKept, Awaiting
  <2> QED BY <2>3, <2>4
<1>3. CASE \E R \in SUBSET clients : RegisterClient(s, R)
  <2>1. PICK R \in SUBSET clients : RegisterClient(s, R)
    BY <1>3
  <2>2. \/ handle' = RemovedHandles(R)
        \/ \E tr : handle' = WithTransport(RemovedHandles(R), s, tr)
    BY <2>1 DEF RegisterClient, GetTransport
  <2>3. AudioKept
    BY <1>0, <2>2, TransportsOnly
  <2>4. /\ pc[s] = "negotiated" /\ clients' \subseteq clients \cup {s}
        /\ \E t \in {"rejected", "announcing"} : pc' = [pc EXCEPT ![s] = t]
    BY <2>1 DEF RegisterClient
  <2> QED BY <1>0, <2>3, <2>4, FlagsOfTransportStep
<1>4. CASE SetClientMode(s)
  <2>1. /\ clients' = clients /\ pc[s] = "applying"
        /\ \E t \in {"notifying", "streaming"} : pc' = [pc EXCEPT ![s] = t]
        /\ \/ handle' = handle
           \/ handle' = [handle EXCEPT ![s] = WithMode(handle[s], request[s])]
    BY <1>4 DEF SetClientMode
  <2>2. CASE handle' = handle
    BY <1>0, <2>1, <2>2, TransportsOnly, FlagsOfTransportStep
  <2>3. CASE handle' = [handle EXCEPT ![s] = WithMode(handle[s], request[s])]
    <3>1. \A h \in ClientHandle, r \in Requests :
             /\ h.pending \subseteq WithMode(h, r).pending
             /\ "mode_sync" \in WithMode(h, r).pending
      BY DEF WithMode, ClientHandle
    <3>2. handle[s] \in ClientHandle /\ request[s] \in Requests
      BY <1>0, <1>4 DEF SetClientMode, TypeOK
    <3>3. /\ handle[s].pending \subseteq handle'[s].pending /\ "mode_sync" \in handle'[s].pending
          /\ \A u \in Sessions \ {s} : handle'[u] = handle[u]
      BY <1>0, <2>3, <3>1, <3>2
    <3>4. \A u \in Sessions : /\ pc[u] # "idle" => pc'[u] # "idle"
                              /\ pc'[u] = "negotiated" => pc[u] = "negotiated"
      BY <1>0, <2>1
    <3> QED BY <2>1, <3>3, <3>4 DEF FlagsKept, Awaiting
  <2> QED BY <2>1, <2>2, <2>3
<1>5. CASE SessionEnds(s)
  <2>1. /\ clients' \subseteq clients
        /\ \E t \in {"leaving", "closed"} : pc' = [pc EXCEPT ![s] = t]
        /\ handle' = handle \/ \E R : handle' = RemovedHandles(R)
    BY <1>5 DEF SessionEnds, RemoveClient
  <2> QED BY <1>0, <2>1, TransportsOnly, FlagsOfTransportStep
<1> QED BY <1>1, <1>2, <1>3, <1>4, <1>5 DEF SessionStep

\* Only a captured frame consumes flags.
LEMMA FlagsStep ==
    ASSUME RegistryInv, [PipeNext]_vars, ~CaptureFrame
    PROVE  \A s \in Sessions : FlagsKept(s)
<1>0. TypeOK /\ pc \in [Sessions -> Phases]
  BY DEF RegistryInv, TypeOK
<1>1. CASE UNCHANGED regVars
  BY <1>0, <1>1, TransportsOnly, FlagsOfTransportStep DEF regVars, sessionVars
<1>2. CASE TierChanges \/ TakeResult \/ WorkerTakesJob \/ WorkerEncodes \/ WorkerFansOut
        \/ WorkerSendsResult \/ SendFrame \/ UNCHANGED vars
  <2>1. UNCHANGED regVars
    BY <1>2 DEF TierChanges, TakeResult, WorkerTakesJob, WorkerEncodes, EncodeGroup,
       WorkerFansOut, FanOut, WorkerSendsResult, SendFrame, vars
  <2> QED BY <1>1, <2>1
<1>3. CASE \E c \in Sessions : SettleFailure(c)
  <2>1. PICK c \in Sessions : SettleFailure(c)
    BY <1>3
  <2>2. /\ clients' \subseteq clients /\ pc' = pc
        /\ \/ handle' = handle \/ \E R : handle' = RemovedHandles(R)
           \/ \E tr : handle' = WithTransport(handle, c, tr)
    BY <2>1 DEF SettleFailure, RemoveClient, MarkUsbTransportLost
  <2> QED BY <1>0, <2>2, TransportsOnly, FlagsOfTransportStep
<1>4. CASE ControlStep
  <2>1. CASE \E s \in Sessions : SessionStep(s)
    BY <2>1, FlagsOfSession
  <2>2. CASE \E t \in Tasks : Depart(t)
    <3>1. /\ UNCHANGED <<clients, handle>>
          /\ \A u \in Sessions : pc'[u] = pc[u] \/ pc'[u] = "closed"
      BY <2>2 DEF Depart
    <3> QED BY <1>0, <3>1, TransportsOnly, FlagsOfTransportStep
  <2>3. CASE UsbAcceptStep
    <3>1. PICK st \in Streams, n \in 0..Cardinality(Sessions) : AttachUsbStream(st, n)
      BY <2>3 DEF UsbAcceptStep
    <3>2. clients' \subseteq clients /\ pc' = pc /\ clients \subseteq Sessions
      BY <1>0, <3>1 DEF AttachUsbStream, sessionVars, TypeOK
    <3>3. \/ handle' = handle
          \/ \E tr : \E c \in Sessions : handle' = WithTransport(handle, c, tr)
      BY <3>1, <3>2 DEF AttachUsbStream
    <3> QED BY <1>0, <3>2, <3>3, TransportsOnly, FlagsOfTransportStep
  <2> QED BY <1>4, <2>1, <2>2, <2>3 DEF ControlStep
<1> QED BY <1>2, <1>3, <1>4 DEF PipeNext

-----------------------------------------------------------------------------
(* The line of marks.                                                      *)

LEMMA MeantMarks ==
    ASSUME NEW B \in SUBSET BroadcastClient, NEW f \in Nat
    PROVE  MarksMeant(B, f) \subseteq MarkType
<1>1. ASSUME NEW b \in BroadcastClient PROVE Mark(b, f) \in MarkType
  <2>1. Flags(b) \in SUBSET {"config_changed", "discontinuity"}
    BY DEF Flags
  <2> QED BY <2>1 DEF Mark, MarkType, BroadcastClient
<1> QED BY <1>1 DEF MarksMeant

LEMMA SentMarks ==
    ASSUME NEW q \in Seq(WireFrameOut)
    PROVE  MarksSent(q) \subseteq MarkType
<1>1. ASSUME NEW w \in WireFrameOut PROVE MarkOf(w) \in MarkType
  BY DEF MarkOf, MarkType, WireFrameOut
<1>2. \A i \in 1..Len(q) : q[i] \in WireFrameOut
  OBVIOUS
<1> QED BY <1>1, <1>2 DEF MarksSent

\* The queues a line is made of.
LineTypes(bt, rs, wm, js) ==
    /\ bt \in Seq(WireFrameOut) /\ rs \in Seq(Seq(WireFrameOut))
    /\ wm \in SUBSET MarkType /\ js \in Seq(Job)

LEMMA LineType ==
    ASSUME NEW bt, NEW rs, NEW wm, NEW js, LineTypes(bt, rs, wm, js)
    PROVE  /\ StagesOf(rs, js) \in Nat
           /\ LineOf(bt, rs, wm, js) \in [0..StagesOf(rs, js) -> SUBSET MarkType]
<1>1. PICK m \in Nat, n \in Nat : m = Len(rs) /\ n = Len(js)
  BY DEF LineTypes
<1>2. MarksSent(bt) \subseteq MarkType
  BY SentMarks DEF LineTypes
<1>3. \A k \in 1..m : MarksSent(rs[k]) \subseteq MarkType
  BY <1>1, SentMarks DEF LineTypes
<1>4. \A i \in 1..n : MarksMeant(js[i].clients, js[i].frame) \subseteq MarkType
  <2>0. \A j \in Job : j.clients \in SUBSET BroadcastClient /\ j.frame \in Nat
    BY DEF Job
  <2>1. \A i \in 1..n : js[i] \in Job
    BY <1>1 DEF LineTypes
  <2> QED BY <2>0, <2>1, MeantMarks
<1>5. \A k \in 0..(m + 1 + n) : /\ k # 0 /\ k <= m => k \in 1..m
                                /\ k # 0 /\ ~(k <= m) /\ k # m + 1 => k - (m + 1) \in 1..n
  OBVIOUS
<1> QED BY <1>1, <1>2, <1>3, <1>4, <1>5 DEF LineOf, StagesOf, LineTypes

\* The next result becomes the batch.
LEMMA LineResultTaken ==
    ASSUME NEW rs, NEW wm, NEW js, LineTypes(<<>>, rs, wm, js), rs # <<>>
    PROVE  /\ StagesOf(Tail(rs), js) = StagesOf(rs, js) - 1
           /\ \A k \in 0..StagesOf(Tail(rs), js) :
                 LineOf(Head(rs), Tail(rs), wm, js)[k] = LineOf(<<>>, rs, wm, js)[k + 1]
           /\ LineOf(<<>>, rs, wm, js)[0] = {}
<1>1. PICK m \in Nat, n \in Nat : m = Len(rs) /\ n = Len(js)
  BY DEF LineTypes
<1>2. rs \in Seq(Seq(WireFrameOut)) /\ m >= 1
  BY <1>1 DEF LineTypes
<1>3. Tail(rs) \in Seq(Seq(WireFrameOut)) /\ Len(Tail(rs)) = m - 1 /\ Head(rs) = rs[1]
  BY <1>1, <1>2
<1>4. \A k \in 1..(m - 1) : Tail(rs)[k] = rs[k + 1]
  BY <1>1, <1>2
<1>5. PICK t : t = Tail(rs)
  OBVIOUS
<1>6. LineOf(<<>>, rs, wm, js)[0] = {}
  BY <1>1 DEF LineOf, StagesOf, MarksSent
<1>7. ASSUME NEW k \in 0..(m + n)
      PROVE  LineOf(rs[1], t, wm, js)[k] = LineOf(<<>>, rs, wm, js)[k + 1]
  <2>1. Len(t) = m - 1 /\ \A i \in 1..(m - 1) : t[i] = rs[i + 1]
    BY <1>3, <1>4, <1>5
  <2>2. CASE k = 0
    BY <1>1, <1>2, <2>1, <2>2 DEF LineOf, StagesOf
  <2>3. CASE k # 0 /\ k <= m - 1
    BY <1>1, <1>2, <2>1, <2>3 DEF LineOf, StagesOf
  <2>4. CASE k = m
    BY <1>1, <1>2, <2>1, <2>4 DEF LineOf, StagesOf
  <2>5. CASE k > m
    <3>1. k - (m - 1 + 1) = (k + 1) - (m + 1)
      BY <2>5
    <3> QED BY <1>1, <1>2, <2>1, <2>5, <3>1 DEF LineOf, StagesOf
  <2> QED BY <1>2, <2>2, <2>3, <2>4, <2>5
<1> QED BY <1>1, <1>3, <1>5, <1>6, <1>7 DEF StagesOf

\* The worker takes a job.
LEMMA LineJobTaken ==
    ASSUME NEW bt, NEW rs, NEW js, LineTypes(bt, rs, {}, js), js # <<>>,
           NEW wm, wm = MarksMeant(Head(js).clients, Head(js).frame)
    PROVE  /\ StagesOf(rs, Tail(js)) = StagesOf(rs, js) - 1
           /\ \A k \in 0..StagesOf(rs, Tail(js)) :
                 LineOf(bt, rs, wm, Tail(js))[k] =
                     LineOf(bt, rs, {}, js)[IF k <= Len(rs) THEN k ELSE k + 1]
           /\ LineOf(bt, rs, {}, js)[Len(rs) + 1] = {}
<1>1. PICK m \in Nat, n \in Nat : m = Len(rs) /\ n = Len(js)
  BY DEF LineTypes
<1>2. js \in Seq(Job) /\ n >= 1
  BY <1>1 DEF LineTypes
<1>3. Tail(js) \in Seq(Job) /\ Len(Tail(js)) = n - 1 /\ Head(js) = js[1]
  BY <1>1, <1>2
<1>4. \A k \in 1..(n - 1) : Tail(js)[k] = js[k + 1]
  BY <1>1, <1>2
<1>5. PICK t : t = Tail(js)
  OBVIOUS
<1>6. LineOf(bt, rs, {}, js)[m + 1] = {}
  BY <1>1 DEF LineOf, StagesOf
<1>7. ASSUME NEW k \in 0..(m + n)
      PROVE  LineOf(bt, rs, wm, t)[k] = LineOf(bt, rs, {}, js)[IF k <= m THEN k ELSE k + 1]
  <2>1. Len(t) = n - 1 /\ \A i \in 1..(n - 1) : t[i] = js[i + 1]
    BY <1>3, <1>4, <1>5
  <2>2. CASE k <= m
    BY <1>1, <1>2, <2>1, <2>2 DEF LineOf, StagesOf
  <2>3. CASE k = m + 1
    BY <1>1, <1>2, <1>3, <2>1, <2>3 DEF LineOf, StagesOf
  <2>4. CASE k > m + 1
    <3>1. k - (m + 1) \in 1..(n - 1) /\ (k - (m + 1)) + 1 = (k + 1) - (m + 1)
      BY <2>4
    <3>2. t[k - (m + 1)] = js[(k + 1) - (m + 1)]
      BY <2>1, <3>1
    <3> QED BY <1>1, <1>2, <2>1, <2>4, <3>2 DEF LineOf, StagesOf
  <2> QED BY <2>2, <2>3, <2>4
<1> QED BY <1>1, <1>3, <1>5, <1>6, <1>7 DEF StagesOf

\* The worker sends its result.
LEMMA LineResultSent ==
    ASSUME NEW bt, NEW rs, NEW js, NEW q \in Seq(WireFrameOut),
           LineTypes(bt, rs, MarksSent(q), js)
    PROVE  /\ StagesOf(Append(rs, q), js) = StagesOf(rs, js) + 1
           /\ \A k \in 0..StagesOf(Append(rs, q), js) :
                 LineOf(bt, Append(rs, q), {}, js)[k] =
                     IF k = Len(rs) + 2 THEN {}
                     ELSE LineOf(bt, rs, MarksSent(q), js)[IF k <= Len(rs) + 1 THEN k ELSE k - 1]
<1>1. PICK m \in Nat, n \in Nat : m = Len(rs) /\ n = Len(js)
  BY DEF LineTypes
<1>2. rs \in Seq(Seq(WireFrameOut))
  BY DEF LineTypes
<1>3. /\ Append(rs, q) \in Seq(Seq(WireFrameOut)) /\ Len(Append(rs, q)) = m + 1
      /\ Append(rs, q)[m + 1] = q /\ \A k \in 1..m : Append(rs, q)[k] = rs[k]
  BY <1>1, <1>2
<1>5. PICK t : t = Append(rs, q)
  OBVIOUS
<1>6. PICK wm : wm = MarksSent(q)
  OBVIOUS
<1>7. ASSUME NEW k \in 0..(m + 2 + n)
      PROVE  LineOf(bt, t, {}, js)[k] =
                 IF k = m + 2 THEN {} ELSE LineOf(bt, rs, wm, js)[IF k <= m + 1 THEN k ELSE k - 1]
  <2>1. Len(t) = m + 1 /\ t[m + 1] = q /\ \A i \in 1..m : t[i] = rs[i]
    BY <1>3, <1>5
  <2>2. CASE k <= m
    BY <1>1, <2>1, <2>2 DEF LineOf, StagesOf
  <2>3. CASE k = m + 1
    BY <1>1, <1>6, <2>1, <2>3 DEF LineOf, StagesOf
  <2>4. CASE k = m + 2
    BY <1>1, <2>1, <2>4 DEF LineOf, StagesOf
  <2>5. CASE k > m + 2
    <3>1. k - (m + 1 + 1) = (k - 1) - (m + 1)
      BY <2>5
    <3> QED BY <1>1, <2>1, <2>5, <3>1 DEF LineOf, StagesOf
  <2> QED BY <2>2, <2>3, <2>4, <2>5
<1> QED BY <1>1, <1>3, <1>5, <1>6, <1>7 DEF StagesOf

\* A frame is captured.
LEMMA LineJobAdded ==
    ASSUME NEW bt, NEW rs, NEW wm, NEW js, NEW j \in Job, LineTypes(bt, rs, wm, js)
    PROVE  /\ StagesOf(rs, Append(js, j)) = StagesOf(rs, js) + 1
           /\ \A k \in 0..StagesOf(rs, js) :
                 LineOf(bt, rs, wm, Append(js, j))[k] = LineOf(bt, rs, wm, js)[k]
           /\ LineOf(bt, rs, wm, Append(js, j))[StagesOf(rs, js) + 1]
                 = MarksMeant(j.clients, j.frame)
<1>1. PICK m \in Nat, n \in Nat : m = Len(rs) /\ n = Len(js)
  BY DEF LineTypes
<1>2. js \in Seq(Job)
  BY DEF LineTypes
<1>3. /\ Append(js, j) \in Seq(Job) /\ Len(Append(js, j)) = n + 1
      /\ Append(js, j)[n + 1] = j /\ \A k \in 1..n : Append(js, j)[k] = js[k]
  BY <1>1, <1>2
<1>5. PICK t : t = Append(js, j)
  OBVIOUS
<1>6. Len(t) = n + 1 /\ t[n + 1] = j /\ \A i \in 1..n : t[i] = js[i]
  BY <1>3, <1>5
<1>7. ASSUME NEW k \in 0..(m + 1 + n)
      PROVE  LineOf(bt, rs, wm, t)[k] = LineOf(bt, rs, wm, js)[k]
  <2>2. CASE k <= m + 1
    BY <1>1, <1>6, <2>2 DEF LineOf, StagesOf
  <2>3. CASE k > m + 1
    <3>1. k - (m + 1) \in 1..n
      BY <2>3
    <3> QED BY <1>1, <1>6, <2>3, <3>1 DEF LineOf, StagesOf
  <2> QED BY <2>2, <2>3
<1>8. LineOf(bt, rs, wm, t)[m + 1 + n + 1] = MarksMeant(j.clients, j.frame)
  <2>1. m + 1 + n + 1 - (m + 1) = n + 1
    OBVIOUS
  <2> QED BY <1>1, <1>6, <2>1 DEF LineOf, StagesOf
<1> QED BY <1>1, <1>3, <1>5, <1>7, <1>8 DEF StagesOf

\* The stages T[0..o] are taken, in order, from the stages S[0..n]: T[k] from S[m[k]].
Taken(n, S, o, T, m) ==
    /\ m \in [0..o -> 0..n]
    /\ \A k \in 0..o : T[k] = {} \/ T[k] \subseteq S[m[k]]
    /\ \A k, l \in 0..o : k < l => m[k] < m[l] \/ T[k] = {} \/ T[l] = {}

\* T[0..o] is S[0..n] without its empty stage r.
EmptyRemoved(n, S, o, T, r) ==
    /\ r \in 0..n /\ o = n - 1 /\ S[r] = {}
    /\ \A k \in 0..o : T[k] = S[IF k < r THEN k ELSE k + 1]

\* T[0..o] is S[0..n] with an empty stage put behind stage r.
EmptyInserted(n, S, o, T, r) ==
    /\ r \in 0..n /\ o = n + 1
    /\ \A k \in 0..o : T[k] = IF k = r + 1 THEN {} ELSE S[IF k <= r THEN k ELSE k - 1]

\* Stages that are moved, merged with nothing and possibly emptied stay in order.
LEMMA Rearranged ==
    ASSUME NEW n \in Nat, NEW o \in Nat, NEW S, NEW T, NEW m,
           Ordered(n, S), Taken(n, S, o, T, m)
    PROVE  Ordered(o, T) /\ All(o, T) \subseteq All(n, S)
<1>0. /\ m \in [0..o -> 0..n]
      /\ \A k \in 0..o : T[k] = {} \/ T[k] \subseteq S[m[k]]
      /\ \A k, l \in 0..o : k < l => m[k] < m[l] \/ T[k] = {} \/ T[l] = {}
  BY DEF Taken
<1>1. \A k, l \in 0..o : k < l => \A p \in T[k], q \in T[l] : p.frame < q.frame
  <2> SUFFICES ASSUME NEW k \in 0..o, NEW l \in 0..o, k < l, NEW p \in T[k], NEW q \in T[l]
               PROVE  p.frame < q.frame
    OBVIOUS
  <2>1. m[k] \in 0..n /\ m[l] \in 0..n /\ m[k] < m[l] /\ p \in S[m[k]] /\ q \in S[m[l]]
    BY <1>0
  <2> QED BY <2>1 DEF Ordered
<1>2. \A k \in 0..o : \A p, q \in T[k] : p.frame = q.frame /\ (p.to = q.to => p = q)
  <2> SUFFICES ASSUME NEW k \in 0..o, NEW p \in T[k], NEW q \in T[k]
               PROVE  p.frame = q.frame /\ (p.to = q.to => p = q)
    OBVIOUS
  <2>1. m[k] \in 0..n /\ p \in S[m[k]] /\ q \in S[m[k]]
    BY <1>0
  <2> QED BY <2>1 DEF Ordered
<1>3. \A k \in 0..o : T[k] \subseteq All(n, S)
  BY <1>0 DEF All
<1> QED BY <1>1, <1>2, <1>3 DEF Ordered, All

\* An empty stage of the line goes, the ones behind it move up: order and marks stay.
LEMMA StageGone ==
    ASSUME NEW n \in Nat, NEW o \in Nat, NEW S, NEW T, NEW r,
           Ordered(n, S), EmptyRemoved(n, S, o, T, r)
    PROVE  Ordered(o, T) /\ All(o, T) = All(n, S)
<1>0. /\ r \in 0..n /\ o = n - 1 /\ S[r] = {}
      /\ \A k \in 0..o : T[k] = S[IF k < r THEN k ELSE k + 1]
  BY DEF EmptyRemoved
<1>1. \E m : Taken(n, S, o, T, m)
  <2> DEFINE m == [k \in 0..o |-> IF k < r THEN k ELSE k + 1]
  <2>1. m \in [0..o -> 0..n] /\ \A k \in 0..o : m[k] = IF k < r THEN k ELSE k + 1
    BY <1>0
  <2> HIDE DEF m
  <2>2. \A k \in 0..o : T[k] = {} \/ T[k] \subseteq S[m[k]]
    BY <1>0, <2>1
  <2>3. \A k, l \in 0..o : k < l => m[k] < m[l]
    BY <1>0, <2>1
  <2>4. Taken(n, S, o, T, m)
    BY <2>1, <2>2, <2>3 DEF Taken
  <2> QED BY <2>4
<1>2. Ordered(o, T) /\ All(o, T) \subseteq All(n, S)
  BY <1>1, Rearranged
<1>3. \A k \in 0..n : k < r => k \in 0..o /\ T[k] = S[k]
  BY <1>0
<1>4. \A k \in 0..n : k > r => k - 1 \in 0..o /\ T[k - 1] = S[k]
  BY <1>0
<1>5. \A k \in 0..n : k < r \/ k > r \/ S[k] = {}
  BY <1>0
<1>6. All(n, S) \subseteq All(o, T)
  BY <1>3, <1>4, <1>5 DEF All
<1> QED BY <1>2, <1>6

\* An empty stage is put into the line.
LEMMA StageAdded ==
    ASSUME NEW n \in Nat, NEW o \in Nat, NEW S, NEW T, NEW r,
           Ordered(n, S), EmptyInserted(n, S, o, T, r)
    PROVE  Ordered(o, T) /\ All(o, T) = All(n, S)
<1>0. /\ r \in 0..n /\ o = n + 1
      /\ \A k \in 0..o : T[k] = IF k = r + 1 THEN {} ELSE S[IF k <= r THEN k ELSE k - 1]
  BY DEF EmptyInserted
<1>1. \E m : Taken(n, S, o, T, m)
  <2> DEFINE m == [k \in 0..o |-> IF k <= r THEN k ELSE k - 1]
  <2>1. m \in [0..o -> 0..n] /\ \A k \in 0..o : m[k] = IF k <= r THEN k ELSE k - 1
    BY <1>0
  <2> HIDE DEF m
  <2>2. \A k \in 0..o : T[k] = {} \/ T[k] \subseteq S[m[k]]
    BY <1>0, <2>1
  <2>3. \A k, l \in 0..o : k < l /\ k # r + 1 /\ l # r + 1 => m[k] < m[l]
    <3> SUFFICES ASSUME NEW k \in 0..o, NEW l \in 0..o, k < l, k # r + 1, l # r + 1
                 PROVE  m[k] < m[l]
      OBVIOUS
    <3>1. m[k] = (IF k <= r THEN k ELSE k - 1) /\ m[l] = (IF l <= r THEN l ELSE l - 1)
      BY <2>1
    <3>2. r \in Int /\ k \in Int /\ l \in Int
      BY <1>0
    <3> HIDE DEF m
    <3> QED BY <3>1, <3>2
  <2>4. \A k \in 0..o : k = r + 1 => T[k] = {}
    BY <1>0
  <2>5. Taken(n, S, o, T, m)
    BY <2>1, <2>2, <2>3, <2>4 DEF Taken
  <2> QED BY <2>5
<1>2. Ordered(o, T) /\ All(o, T) \subseteq All(n, S)
  BY <1>1, Rearranged
<1>3. \A k \in 0..n : k <= r => k \in 0..o /\ T[k] = S[k]
  BY <1>0
<1>4. \A k \in 0..n : k > r => k + 1 \in 0..o /\ T[k + 1] = S[k]
  BY <1>0
<1>5. \A k \in 0..n : \E l \in 0..o : T[l] = S[k]
  <2> SUFFICES ASSUME NEW k \in 0..n
               PROVE  \E l \in 0..o : T[l] = S[k]
    OBVIOUS
  <2>1. CASE k <= r
    BY <1>3, <2>1
  <2>2. CASE ~(k <= r)
    <3>1. k > r
      BY <1>0, <2>2
    <3> QED BY <1>4, <3>1
  <2> QED BY <2>1, <2>2
<1>6. All(n, S) \subseteq All(o, T)
  BY <1>5, Zenon DEF All
<1> QED BY <1>2, <1>6

\* Every stage keeps some of its marks.
LEMMA StagesShrunk ==
    ASSUME NEW n \in Nat, NEW S, NEW T, Ordered(n, S), \A k \in 0..n : T[k] \subseteq S[k]
    PROVE  Ordered(n, T) /\ All(n, T) \subseteq All(n, S)
BY DEF Ordered, All

LEMMA WorkMarks ==
    ASSUME NEW w \in Work \cup {None}
    PROVE  MarksOfWork(w) \in SUBSET MarkType
<1>1. CASE w = None
  BY <1>1 DEF MarksOfWork
<1>2. CASE w \in Work /\ w # None
  <2>1. /\ w.todo \cup w.to \in SUBSET BroadcastClient /\ w.frame \in Nat
        /\ w.out \in Seq(WireFrameOut)
    BY <1>2 DEF Work
  <2> QED BY <1>2, <2>1, MeantMarks, SentMarks DEF MarksOfWork
<1> QED BY <1>1, <1>2

\* The line of a state is a line of marks.
LEMMA LineTyped ==
    ASSUME PipeTypes
    PROVE  /\ LineTypes(batch, results, MarksOfWork(work), jobs)
           /\ Stages \in Nat /\ Line \in [0..Stages -> SUBSET MarkType]
           /\ Marks \subseteq MarkType /\ HandedOut \subseteq MarkType
<1>1. LineTypes(batch, results, MarksOfWork(work), jobs)
  BY WorkMarks DEF LineTypes, PipeTypes
<1>2. Stages \in Nat /\ Line \in [0..Stages -> SUBSET MarkType]
  BY <1>1, LineType DEF Stages, Line
<1>3. Marks \subseteq MarkType
  BY <1>2 DEF Marks, All
<1>4. ASSUME NEW w \in WireFrameOut PROVE MarkOf(w) \in MarkType
  BY DEF MarkOf, MarkType, WireFrameOut
<1> QED BY <1>1, <1>2, <1>3, <1>4 DEF HandedOut, PipeTypes

\* A recipient gets at least one packet.
LEMMA SomePacket ==
    ASSUME NEW b, Encodable(b)
    PROVE  Pieces(b) >= 1 /\ Pieces(b) \in Nat
<1>1. EncoderKey(b).codec = b.codec
  BY DEF EncoderKey
<1>2. CASE UsedCodec(EncoderKey(b)) # "pcm24"
  <2>1. Pieces(b) = 1
    BY <1>2 DEF Pieces
  <2> QED BY <2>1
<1>3. CASE UsedCodec(EncoderKey(b)) = "pcm24"
  <2>1. b.codec = "pcm24"
    BY <1>1, <1>3 DEF UsedCodec
  <2>2. b.data_plane # "legacy_las1"
    BY <2>1 DEF Encodable
  <2>3. Pieces(b) = FRAGS
    BY <1>3, <2>2 DEF Pieces
  <2> QED BY <2>3, FramesBounded
<1> QED BY <1>2, <1>3

LEMMA MarksAppended ==
    ASSUME NEW q \in Seq(WireFrameOut), NEW f \in Seq(WireFrameOut)
    PROVE  MarksSent(q \o f) = MarksSent(q) \cup MarksSent(f)
<1>a. q \o f \in Seq(WireFrameOut)
  OBVIOUS
<1>1. PICK t \in Seq(WireFrameOut) : t = q \o f
  BY <1>a
<1>2. \A i \in 1..Len(t) : \/ i \in 1..Len(q) /\ t[i] = q[i]
                           \/ i - Len(q) \in 1..Len(f) /\ t[i] = f[i - Len(q)]
  BY <1>1
<1>3. \A i \in 1..Len(q) : i \in 1..Len(t) /\ t[i] = q[i]
  BY <1>1
<1>4. \A i \in 1..Len(f) : i + Len(q) \in 1..Len(t) /\ t[i + Len(q)] = f[i]
  BY <1>1
<1>5. MarksSent(t) \subseteq MarksSent(q) \cup MarksSent(f)
  BY <1>2 DEF MarksSent
<1>6. MarksSent(q) \subseteq MarksSent(t) /\ MarksSent(f) \subseteq MarksSent(t)
  BY <1>3, <1>4 DEF MarksSent
<1> QED BY <1>1, <1>5, <1>6

\* Its packets say about the frame what was to be said.
LEMMA PacketMarks ==
    ASSUME PipeTypes, work # None, NEW b \in work.to, Encodable(b)
    PROVE  MarksSent(WireFrames(b)) = {Mark(b, work.frame)}
<1>1. PICK p \in Nat : p = Pieces(b) /\ p >= 1
  BY SomePacket
<1>2. PICK q : q = WireFrames(b)
  OBVIOUS
<1>3. Len(q) = p
  BY <1>1, <1>2, WireFramesType
<1>4. \A i \in 1..p : /\ q[i].to = b.id /\ q[i].mode = b.mode
                      /\ q[i].flags = Flags(b) /\ q[i].frame = work.frame
  BY <1>1, <1>2 DEF WireFrames
<1>5. \A i \in 1..p : MarkOf(q[i]) = Mark(b, work.frame)
  BY <1>4 DEF MarkOf, Mark
<1>6. 1 \in 1..p
  BY <1>1
<1> QED BY <1>2, <1>3, <1>5, <1>6 DEF MarksSent

\* The worker passes marks on, or they are swallowed.
MarksPassed(before, after) ==
    /\ after \subseteq before /\ before \subseteq after \cup swallowed'
    /\ swallowed \subseteq swallowed' /\ swallowed' \subseteq swallowed \cup before

LEMMA WorkerPassesMarks ==
    ASSUME PipeTypes, NothingWithheld, WorkerEncodes \/ WorkerFansOut
    PROVE  /\ MarksPassed(MarksOfWork(work), MarksOfWork(work'))
           /\ work' # None /\ work # None
           /\ work'.todo \cup work'.to \subseteq work.todo \cup work.to
<1>0. work # None /\ work \in Work /\ work.frame \in Nat
  BY DEF WorkerEncodes, WorkerFansOut, PipeTypes, Work
<1>n. \A w \in Work : w # None
  BY NothingInHand
<1>1. CASE WorkerEncodes
  <2>1. PICK b \in work.todo, ok \in BOOLEAN : EncodeGroup(EncoderKey(b), ok)
    BY <1>1 DEF WorkerEncodes
  <2> DEFINE k == EncoderKey(b)
  <2>2. k.mode \in AudioModes /\ work.to = {}
    BY <1>0, <1>1, <2>1 DEF WorkerEncodes, EncoderKey, Work, BroadcastClient
  <2>3. work' \in Work /\ work'.todo = work.todo \ Group(k) /\ work'.out = work.out
    BY <1>0, <2>1, <2>2, EncodedWork
  <2>4. Group(k) \subseteq work.todo
    BY DEF Group
  <2>5. work'.frame = work.frame
    BY <1>0, <2>1 DEF EncodeGroup, Work
  <2>6. CASE Packed(k, ok) = {}
    <3>1. /\ work' = [work EXCEPT !.todo = @ \ Group(k)]
          /\ swallowed' = swallowed \cup {Mark(d, work.frame) : d \in Group(k)}
      BY <2>1, <2>6 DEF EncodeGroup, Group
    <3>2. work'.to = {}
      BY <1>0, <2>2, <3>1 DEF Work
    <3>3. swallowed' = swallowed \cup MarksMeant(Group(k), work.frame)
      BY <3>1 DEF MarksMeant
    <3> HIDE DEF k
    <3>4. MarksMeant(work.todo, work.frame)
            = MarksMeant(work.todo \ Group(k), work.frame) \cup MarksMeant(Group(k), work.frame)
      BY <2>4 DEF MarksMeant
    <3>5. /\ MarksOfWork(work) = MarksMeant(work.todo, work.frame) \cup MarksSent(work.out)
          /\ MarksOfWork(work') = MarksMeant(work.todo \ Group(k), work.frame)
                                     \cup MarksSent(work.out)
      BY <1>0, <1>n, <2>2, <2>3, <2>5, <3>2 DEF MarksOfWork
    <3>6. MarksPassed(MarksOfWork(work), MarksOfWork(work'))
      BY <3>3, <3>4, <3>5 DEF MarksPassed
    <3> QED BY <1>0, <1>n, <2>2, <2>3, <3>2, <3>6
  <2>7. CASE Packed(k, ok) # {}
    <3>1. /\ work' = [work EXCEPT !.todo = @ \ Group(k), !.to = Group(k),
                                  !.seq = sequence, !.pts = Min(Packed(k, ok))]
          /\ swallowed' = swallowed
      BY <2>1, <2>7 DEF EncodeGroup, Group
    <3>2. work'.to = Group(k)
      BY <1>0, <3>1 DEF Work
    <3> HIDE DEF k
    <3>3. work'.todo \cup work'.to = work.todo \cup work.to
      BY <2>2, <2>3, <2>4, <3>2
    <3>4. MarksOfWork(work') = MarksOfWork(work)
      BY <1>0, <1>n, <2>3, <2>5, <3>3 DEF MarksOfWork
    <3>5. MarksPassed(MarksOfWork(work), MarksOfWork(work'))
      BY <3>1, <3>4 DEF MarksPassed
    <3> QED BY <1>0, <1>n, <2>3, <3>3, <3>5
  <2> QED BY <2>6, <2>7
<1>2. CASE WorkerFansOut
  <2>1. PICK b \in work.to : FanOut(b)
    BY <1>2 DEF WorkerFansOut
  <2>2. /\ work'.todo = work.todo /\ work'.to = work.to \ {b} /\ work' \in Work
        /\ work'.out = work.out \o WireFrames(b)
    BY <1>0, <2>1, FannedOutWork
  <2>3. work'.frame = work.frame /\ swallowed' = swallowed
    BY <1>0, <2>1 DEF FanOut, Work
  <2>4. Encodable(b)
    BY <1>0, <2>1 DEF NothingWithheld
  <2>5. MarksSent(WireFrames(b)) = {Mark(b, work.frame)}
    BY <1>0, <2>1, <2>4, PacketMarks
  <2>6. work.out \in Seq(WireFrameOut) /\ WireFrames(b) \in Seq(WireFrameOut)
    BY <1>0, <2>1, WireFramesType DEF Work
  <2>7. MarksSent(work'.out) = MarksSent(work.out) \cup {Mark(b, work.frame)}
    BY <2>2, <2>5, <2>6, MarksAppended
  <2>8. MarksMeant(work.todo \cup work.to, work.frame)
          = MarksMeant(work.todo \cup (work.to \ {b}), work.frame) \cup {Mark(b, work.frame)}
    BY <2>1 DEF MarksMeant
  <2>9. MarksOfWork(work') = MarksOfWork(work)
    BY <1>0, <1>n, <2>2, <2>3, <2>7, <2>8 DEF MarksOfWork
  <2>10. MarksPassed(MarksOfWork(work), MarksOfWork(work'))
    BY <2>3, <2>9 DEF MarksPassed
  <2> QED BY <1>0, <1>n, <2>2, <2>10
<1> QED BY <1>1, <1>2

\* Between capture and sending, the marks keep their order and only the worker
\* swallows any.
LEMMA LineStep ==
    ASSUME PipeTypes, PipeTypes', NothingWithheld, Ordered(Stages, Line),
           [PipeNext]_vars, ~CaptureFrame, ~SendFrame
    PROVE  Ordered(Stages', Line') /\ MarksPassed(Marks, Marks')
<1>0. /\ LineTypes(batch, results, MarksOfWork(work), jobs)
      /\ Stages \in Nat /\ Line \in [0..Stages -> SUBSET MarkType]
  BY LineTyped
<1>e. ASSUME swallowed' = swallowed, Marks' = Marks PROVE MarksPassed(Marks, Marks')
  BY <1>e DEF MarksPassed
<1>2. CASE TierChanges \/ ControlStep \/ UNCHANGED vars
           \/ \E c \in Sessions : SettleFailure(c)
  <2>1. UNCHANGED <<jobs, work, results, batch, swallowed>>
    BY <1>2 DEF TierChanges, ControlStep, SettleFailure, vars, pipeVars
  <2>2. Stages' = Stages /\ Line' = Line
    BY <2>1 DEF Stages, Line
  <2> QED BY <1>e, <2>1, <2>2 DEF Marks
<1>3. CASE WorkerEncodes \/ WorkerFansOut
  <2>1. UNCHANGED <<batch, results, jobs>>
    BY <1>3 DEF WorkerEncodes, EncodeGroup, WorkerFansOut, FanOut
  <2>2. PICK before, after : /\ before = MarksOfWork(work) /\ after = MarksOfWork(work')
                             /\ MarksPassed(before, after)
    BY <1>3, WorkerPassesMarks
  <2>3. PICK n \in Nat, m \in Nat : n = Stages /\ m = Len(results) + 1 /\ m <= n
    BY <1>0 DEF Stages, StagesOf, PipeTypes
  <2>4. PICK S, T : S = Line /\ T = Line'
    OBVIOUS
  <2>5. /\ Stages' = n /\ S[m] = before /\ T[m] = after
        /\ \A k \in 0..n : k # m => T[k] = S[k]
    BY <1>0, <2>1, <2>2, <2>3, <2>4 DEF Stages, Line, LineOf, PipeTypes
  <2>6. m \in 0..n /\ \A k \in 0..n : T[k] \subseteq S[k]
    BY <2>2, <2>3, <2>5 DEF MarksPassed
  <2>7. Ordered(n, T) /\ All(n, T) \subseteq All(n, S)
    BY <2>3, <2>4, <2>6, StagesShrunk
  <2>8. All(n, S) \subseteq All(n, T) \cup swallowed'
    <3>1. \A k \in 0..n : S[k] \subseteq T[k] \cup swallowed'
      BY <2>2, <2>5 DEF MarksPassed
    <3> QED BY <3>1 DEF All
  <2>9. swallowed \subseteq swallowed' /\ swallowed' \subseteq swallowed \cup All(n, S)
    BY <2>2, <2>5, <2>6 DEF MarksPassed, All
  <2> QED BY <2>3, <2>4, <2>5, <2>7, <2>8, <2>9 DEF Marks, MarksPassed
<1>4. CASE TakeResult
  <2>1. /\ batch = <<>> /\ results # <<>> /\ batch' = Head(results) /\ results' = Tail(results)
        /\ UNCHANGED <<jobs, work, swallowed>>
    BY <1>4 DEF TakeResult, Idle
  <2>2. /\ Stages' = Stages - 1 /\ Line[0] = {}
        /\ \A k \in 0..Stages' : Line'[k] = Line[k + 1]
    BY <1>0, <2>1, LineResultTaken DEF Stages, Line
  <2>3. Stages' \in Nat
    <3>1. StagesOf(results', jobs') \in Nat
      BY DEF StagesOf, PipeTypes
    <3> QED BY <3>1 DEF Stages
  <2>a. PICK n \in Nat, o \in Nat : n = Stages /\ o = Stages'
    BY <1>0, <2>3
  <2>b. PICK S, T : S = Line /\ T = Line'
    OBVIOUS
  <2>4. n = Stages /\ o = Stages' /\ S = Line /\ T = Line'
    BY <2>a, <2>b
  <2>5. o = n - 1 /\ S[0] = {} /\ \A k \in 0..o : T[k] = S[k + 1]
    BY <2>2, <2>4
  <2>6. Ordered(n, S) /\ EmptyRemoved(n, S, o, T, 0)
    BY <2>4, <2>5 DEF EmptyRemoved
  <2>7. Ordered(o, T) /\ All(o, T) = All(n, S)
    BY <2>6, StageGone
  <2> QED BY <1>e, <2>1, <2>4, <2>7 DEF Marks
<1>5. CASE WorkerTakesJob
  <2>1. /\ work = None /\ jobs # <<>> /\ jobs' = Tail(jobs) /\ UNCHANGED <<results, batch>>
        /\ work'.todo = Head(jobs).clients /\ work'.to = {} /\ work'.out = <<>>
        /\ work'.frame = Head(jobs).frame /\ work' # None
    <3>1. jobs # <<>> /\ jobs \in Seq(Job)
      BY <1>5 DEF WorkerTakesJob, PipeTypes
    <3>2. PICK j \in Job : j = Head(jobs)
      BY <3>1
    <3>3. work' = [frame |-> j.frame, tier |-> j.tier, todo |-> j.clients, to |-> {},
                   seq |-> 0, pts |-> 0, out |-> <<>>]
      BY <1>5, <3>2 DEF WorkerTakesJob
    <3>4. work' \in Work
      BY <3>3 DEF Work, Job
    <3>5. /\ work'.todo = j.clients /\ work'.to = {} /\ work'.out = <<>>
          /\ work'.frame = j.frame
      BY <3>3
    <3>6. /\ work = None /\ jobs' = Tail(jobs) /\ results' = results /\ batch' = batch
      BY <1>5 DEF WorkerTakesJob
    <3> QED BY <3>1, <3>2, <3>4, <3>5, <3>6, NothingInHand
  <2>2. MarksOfWork(work) = {}
        /\ MarksOfWork(work') = MarksMeant(Head(jobs).clients, Head(jobs).frame)
    BY <2>1 DEF MarksOfWork, MarksSent
  <2>3. PICK w : w = MarksOfWork(work')
    OBVIOUS
  <2>4. /\ Stages' = Stages - 1 /\ Line[Len(results) + 1] = {}
        /\ \A k \in 0..Stages' : Line'[k] = Line[IF k <= Len(results) THEN k ELSE k + 1]
    BY <1>0, <2>1, <2>2, LineJobTaken DEF Stages, Line
  <2>5. Stages' \in Nat
    <3>1. StagesOf(results', jobs') \in Nat
      BY DEF StagesOf, PipeTypes
    <3> QED BY <3>1 DEF Stages
  <2>6. Len(results) \in Nat /\ Len(results) < Stages
    BY <2>1 DEF Stages, StagesOf, PipeTypes
  <2>a. PICK n \in Nat, o \in Nat, r \in Nat : n = Stages /\ o = Stages' /\ r = Len(results) + 1
    BY <1>0, <2>5, <2>6
  <2>b. PICK S, T : S = Line /\ T = Line'
    OBVIOUS
  <2>7. n = Stages /\ o = Stages' /\ S = Line /\ T = Line' /\ r = Len(results) + 1
    BY <2>a, <2>b
  <2>8. Ordered(n, S) /\ EmptyRemoved(n, S, o, T, r)
    <3>1. Ordered(n, S) /\ r \in 0..n /\ o = n - 1 /\ S[r] = {}
      BY <2>4, <2>6, <2>7
    <3>2. \A k \in 0..o : T[k] = S[IF k <= Len(results) THEN k ELSE k + 1]
      BY <2>4, <2>7
    <3>3. \A k \in 0..o : (k <= Len(results)) <=> k < r
      BY <2>6, <2>7
    <3> QED BY <3>1, <3>2, <3>3 DEF EmptyRemoved
  <2>9. Ordered(o, T) /\ All(o, T) = All(n, S)
    BY <2>8, StageGone
  <2>10. swallowed' = swallowed
    BY <1>5 DEF WorkerTakesJob
  <2> QED BY <1>e, <2>7, <2>9, <2>10 DEF Marks
<1>6. CASE WorkerSendsResult
  <2>1. /\ work # None /\ results' = Append(results, work.out) /\ work' = None
        /\ UNCHANGED <<jobs, batch, swallowed>> /\ work.out \in Seq(WireFrameOut)
        /\ work.todo = {} /\ work.to = {}
    BY <1>6 DEF WorkerSendsResult, PipeTypes, Work
  <2>2. MarksOfWork(work') = {} /\ MarksOfWork(work) = MarksSent(work.out)
    BY <2>1 DEF MarksOfWork, MarksMeant
  <2>3. /\ Stages' = Stages + 1
        /\ \A k \in 0..Stages' :
              Line'[k] = IF k = Len(results) + 2 THEN {}
                         ELSE Line[IF k <= Len(results) + 1 THEN k ELSE k - 1]
    BY <1>0, <2>1, <2>2, LineResultSent DEF Stages, Line
  <2>4. Len(results) \in Nat /\ Len(results) + 1 <= Stages
    BY DEF Stages, StagesOf, PipeTypes
  <2>a. PICK n \in Nat, o \in Nat, r \in Nat : n = Stages /\ o = Stages' /\ r = Len(results) + 1
    BY <1>0, <2>3, <2>4
  <2>b. PICK S, T : S = Line /\ T = Line'
    OBVIOUS
  <2>5. n = Stages /\ o = Stages' /\ S = Line /\ T = Line' /\ r = Len(results) + 1
    BY <2>a, <2>b
  <2>6. Ordered(n, S) /\ EmptyInserted(n, S, o, T, r)
    <3>1. Ordered(n, S) /\ r \in 0..n /\ o = n + 1 /\ r + 1 = Len(results) + 2
      BY <2>3, <2>4, <2>5
    <3>2. \A k \in 0..o : T[k] = IF k = r + 1 THEN {} ELSE S[IF k <= r THEN k ELSE k - 1]
      BY <2>3, <2>5, <3>1
    <3> QED BY <3>1, <3>2 DEF EmptyInserted
  <2>7. Ordered(o, T) /\ All(o, T) = All(n, S)
    BY <2>6, StageAdded
  <2> QED BY <1>e, <2>1, <2>5, <2>7 DEF Marks
<1> QED BY <1>2, <1>3, <1>4, <1>5, <1>6 DEF PipeNext

\* The next packet is the first of its session that is still to be sent.
LEMMA HeadOfLine ==
    ASSUME PipeTypes, Ordered(Stages, Line), batch # <<>>
    PROVE  /\ Head(batch) \in WireFrameOut /\ MarkOf(Head(batch)) \in Marks
           /\ \A z \in Marks : z.to = Head(batch).to =>
                 /\ Head(batch).frame <= z.frame
                 /\ Head(batch).frame = z.frame => z = MarkOf(Head(batch))
<1>0. Stages \in Nat /\ Line \in [0..Stages -> SUBSET MarkType]
  BY LineTyped
<1>1. Head(batch) \in WireFrameOut /\ 1 \in 1..Len(batch) /\ Head(batch) = batch[1]
  BY DEF PipeTypes
<1>2. PICK w \in WireFrameOut : w = Head(batch)
  BY <1>1
<1>3. 0 \in 0..Stages /\ Line[0] = MarksSent(batch)
  BY <1>0 DEF Line, LineOf, Stages
<1>4. MarkOf(w) \in Line[0]
  BY <1>1, <1>2, <1>3 DEF MarksSent
<1>5. MarkOf(w).to = w.to /\ MarkOf(w).frame = w.frame
  BY DEF MarkOf
<1>6. ASSUME NEW z \in Marks, z.to = w.to
      PROVE  w.frame <= z.frame /\ (w.frame = z.frame => z = MarkOf(w))
  <2>1. PICK k \in 0..Stages : z \in Line[k]
    BY DEF Marks, All
  <2>2. w.frame \in Nat /\ z.frame \in Nat
    BY <1>0, <2>1 DEF WireFrameOut, MarkType
  <2>3. CASE k = 0
    BY <1>3, <1>4, <1>5, <1>6, <2>1, <2>2, <2>3 DEF Ordered
  <2>4. CASE k # 0
    <3>1. 0 < k
      BY <1>0, <2>4
    <3>2. w.frame < z.frame
      BY <1>3, <1>4, <1>5, <2>1, <3>1 DEF Ordered
    <3> QED BY <2>2, <3>2
  <2> QED BY <2>3, <2>4
<1>7. MarkOf(w) \in Marks
  BY <1>3, <1>4 DEF Marks, All
<1> QED BY <1>2, <1>6, <1>7

LEMMA LineSent ==
    ASSUME PipeTypes, Ordered(Stages, Line), SendFrame
    PROVE  /\ Ordered(Stages', Line') /\ Marks' \subseteq Marks
           /\ Marks \subseteq Marks' \cup {MarkOf(Head(batch))}
<1>0. /\ LineTypes(batch, results, MarksOfWork(work), jobs)
      /\ Stages \in Nat /\ Line \in [0..Stages -> SUBSET MarkType]
  BY LineTyped
<1>1. batch # <<>> /\ batch' = Tail(batch) /\ UNCHANGED <<results, work, jobs>>
  BY DEF SendFrame
<1>2. MarksSent(batch') \subseteq MarksSent(batch)
      /\ MarksSent(batch) \subseteq MarksSent(batch') \cup {MarkOf(Head(batch))}
  <2>a. batch \in Seq(WireFrameOut) /\ Tail(batch) \in Seq(WireFrameOut)
    BY <1>1 DEF PipeTypes
  <2>1. PICK q \in Seq(WireFrameOut), t \in Seq(WireFrameOut) : q = batch /\ t = Tail(batch)
    BY <2>a
  <2>2. \A i \in 1..Len(t) : i + 1 \in 1..Len(q) /\ t[i] = q[i + 1]
    BY <1>1, <2>1
  <2>3. \A i \in 1..Len(q) : i = 1 \/ (i - 1 \in 1..Len(t) /\ t[i - 1] = q[i])
    BY <1>1, <2>1
  <2>4. q[1] = Head(batch)
    BY <1>1, <2>1
  <2>5. MarksSent(t) \subseteq MarksSent(q)
    BY <2>2 DEF MarksSent
  <2>6. MarksSent(q) \subseteq MarksSent(t) \cup {MarkOf(Head(batch))}
    BY <2>3, <2>4 DEF MarksSent
  <2> QED BY <1>1, <2>1, <2>5, <2>6
<1>3. /\ Stages' = Stages /\ Line[0] = MarksSent(batch) /\ Line'[0] = MarksSent(batch')
      /\ \A k \in 0..Stages : k # 0 => Line'[k] = Line[k]
  BY <1>0, <1>1 DEF Stages, Line, LineOf
<1>4. PICK n \in Nat : n = Stages
  BY <1>0
<1>5. PICK S, T : S = Line /\ T = Line'
  OBVIOUS
<1>6. /\ \A k \in 0..n : T[k] \subseteq S[k]
      /\ \A k \in 0..n : S[k] \subseteq T[k] \cup {MarkOf(Head(batch))}
  BY <1>2, <1>3, <1>4, <1>5
<1>7. Ordered(n, T) /\ All(n, T) \subseteq All(n, S)
  BY <1>4, <1>5, <1>6, StagesShrunk
<1>8. All(n, S) \subseteq All(n, T) \cup {MarkOf(Head(batch))}
  BY <1>6 DEF All
<1> QED BY <1>3, <1>4, <1>5, <1>7, <1>8 DEF Marks

-----------------------------------------------------------------------------
(* The steps.                                                              *)

\* take_broadcast_clients consumes the flags of the clients it copies.
LEMMA CapturedHandles ==
    ASSUME TypeOK, CaptureFrame
    PROVE  \A s \in Sessions :
               /\ handle'[s].mode = handle[s].mode
               /\ s \notin Reachable => handle'[s].pending = handle[s].pending
<1> SUFFICES ASSUME NEW s \in Sessions
             PROVE  /\ handle'[s].mode = handle[s].mode
                    /\ s \notin Reachable => handle'[s].pending = handle[s].pending
  OBVIOUS
<1>1. \A h \in ClientHandle : [h EXCEPT !.pending = {}].mode = h.mode
  BY DEF ClientHandle
<1>2. handle[s] \in ClientHandle
  BY DEF TypeOK
<1>3. handle'[s] = IF s \in Reachable THEN [handle[s] EXCEPT !.pending = {}] ELSE handle[s]
  BY DEF CaptureFrame, TakeBroadcastClients
<1>4. CASE s \in Reachable
  <2>1. PICK h \in ClientHandle : h = handle[s]
    BY <1>2
  <2>2. handle'[s] = [h EXCEPT !.pending = {}]
    BY <1>3, <1>4, <2>1
  <2>3. handle'[s].mode = h.mode
    BY <1>1, <2>2
  <2> QED BY <1>4, <2>1, <2>3
<1>5. CASE s \notin Reachable
  BY <1>3, <1>5
<1> QED BY <1>4, <1>5

\* Every recipient of a packet gets at least one piece of it.
LEMMA WithheldStep ==
    ASSUME RegistryInv, PipeTypes, PipeTypes', NothingWithheld, [PipeNext]_vars
    PROVE  NothingWithheld'
<1>0. TypeOK /\ LegacyCarriesPcm16
  BY DEF RegistryInv
<1>2. ASSUME UNCHANGED jobs,
             work' = work \/ work' = None
                \/ (/\ work' # None /\ work # None
                    /\ work'.todo \cup work'.to \subseteq work.todo \cup work.to)
      PROVE  NothingWithheld'
  BY <1>2 DEF NothingWithheld
<1>3. CASE TierChanges \/ ControlStep \/ TakeResult \/ SendFrame \/ WorkerSendsResult
           \/ UNCHANGED vars \/ \E c \in Sessions : SettleFailure(c)
  <2>1. UNCHANGED jobs /\ (work' = work \/ work' = None)
    BY <1>3 DEF TierChanges, ControlStep, TakeResult, SendFrame, WorkerSendsResult,
       SettleFailure, vars, pipeVars
  <2> QED BY <1>2, <2>1
<1>4. CASE WorkerEncodes \/ WorkerFansOut
  <2>1. UNCHANGED jobs
    BY <1>4 DEF WorkerEncodes, EncodeGroup, WorkerFansOut, FanOut
  <2> QED BY <1>2, <1>4, <2>1, WorkerPassesMarks
<1>5. CASE CaptureFrame
  <2>1. work' = work /\ (jobs' = jobs \/ jobs' = Append(jobs, EncodeJob))
    BY <1>5 DEF CaptureFrame
  <2>2. EncodeJob \in Job
    BY <1>0, JobType
  <2>3. \A b \in EncodeJob.clients : Encodable(b)
    <3>1. \A c \in Reachable : Encodable(Snapshot(c))
      BY <1>0 DEF Reachable, TypeOK, Snapshot, Encodable, LegacyCarriesPcm16, NothingWithheld
    <3>2. EncodeJob.clients = {Snapshot(c) : c \in Reachable}
      BY DEF EncodeJob
    <3> QED BY <3>1, <3>2
  <2>4. PICK j \in Job : j = EncodeJob
    BY <2>2
  <2>5. \A i \in 1..Len(jobs') : \/ jobs'[i] = j
                                 \/ i \in 1..Len(jobs) /\ jobs'[i] = jobs[i]
    BY <2>1, <2>4 DEF PipeTypes
  <2>6. \A i \in 1..Len(jobs') : \A b \in jobs'[i].clients : Encodable(b)
    BY <2>3, <2>4, <2>5 DEF NothingWithheld
  <2> QED BY <2>1, <2>6 DEF NothingWithheld
<1>6. CASE WorkerTakesJob
  <2>0. jobs # <<>> /\ jobs \in Seq(Job) /\ jobs' = Tail(jobs)
    BY <1>6 DEF WorkerTakesJob, PipeTypes
  <2>1. PICK j \in Job : j = Head(jobs) /\ j = jobs[1] /\ 1 \in 1..Len(jobs)
    BY <2>0
  <2>2. work' = [frame |-> j.frame, tier |-> j.tier, todo |-> j.clients, to |-> {},
                 seq |-> 0, pts |-> 0, out |-> <<>>]
    BY <1>6, <2>1 DEF WorkerTakesJob
  <2>3. work'.todo = j.clients /\ work'.to = {}
    BY <2>2
  <2>4. \A i \in 1..Len(jobs') : i + 1 \in 1..Len(jobs) /\ jobs'[i] = jobs[i + 1]
    BY <2>0
  <2>5. \A b \in work'.todo \cup work'.to : Encodable(b)
    BY <2>1, <2>3 DEF NothingWithheld
  <2>6. \A i \in 1..Len(jobs') : \A b \in jobs'[i].clients : Encodable(b)
    BY <2>4 DEF NothingWithheld
  <2> QED BY <2>3, <2>5, <2>6 DEF NothingWithheld
<1> QED BY <1>3, <1>4, <1>5, <1>6 DEF PipeNext

\* Between capture and sending nothing changes but the flags that wait.
LEMMA BoundaryKept ==
    ASSUME BoundaryInv, PipeTypes, Ordered(Stages', Line'), MarksPassed(Marks, Marks'),
           UNCHANGED <<frames, offered>>, \A s \in Sessions : FlagsKept(s)
    PROVE  InOrder' /\ SwitchesMarked' /\ StartsMarked'
<1>0. /\ Known' = Known /\ Packets' \subseteq Packets /\ Packets \subseteq Known
      /\ swallowed' \subseteq MarkType /\ \A x \in Known : x.to \in Sessions
  <2>1. HandedOut' = HandedOut
    BY DEF HandedOut
  <2>2. Known' = Known /\ Packets' \subseteq Packets
    BY <2>1 DEF Known, Packets, MarksPassed
  <2>3. Known \subseteq MarkType /\ swallowed' \subseteq MarkType
    BY LineTyped DEF Known, Packets, MarksPassed, BoundaryInv, InOrder
  <2> QED BY <2>2, <2>3 DEF Known, MarkType
<1>1. InOrder'
  <2>1. \A p \in Known' : 0 < p.frame /\ p.frame <= frames' /\ pc'[p.to] # "idle"
    BY <1>0 DEF BoundaryInv, InOrder, FlagsKept
  <2>2. Marks' \subseteq Marks
    BY DEF MarksPassed
  <2> QED BY <1>0, <2>1, <2>2 DEF BoundaryInv, InOrder
<1>2. ASSUME NEW x \in Packets, x.mode # handle'[x.to].mode
      PROVE  "mode_sync" \in handle'[x.to].pending \/ Changes(Known, x) # {}
  <2>1. pc[x.to] # "idle" /\ x.to \in Sessions
    BY <1>0 DEF BoundaryInv, InOrder
  <2>2. CASE x.mode # handle[x.to].mode
    BY <2>1, <2>2 DEF BoundaryInv, SwitchesMarked, FlagsKept
  <2>3. CASE x.mode = handle[x.to].mode
    BY <1>2, <2>1, <2>3 DEF FlagsKept
  <2> QED BY <2>2, <2>3
<1>3. SwitchesMarked'
  BY <1>0, <1>2 DEF BoundaryInv, SwitchesMarked
<1>4. ASSUME NEW s \in Sessions, Awaiting(s)', offered[s] = None
      PROVE  "first_packet" \in handle'[s].pending \/ Starts(Known, s) # {}
  <2>1. CASE Awaiting(s) /\ handle[s].pending \subseteq handle'[s].pending
    BY <1>4, <2>1 DEF BoundaryInv, StartsMarked
  <2> QED BY <1>4, <2>1 DEF FlagsKept
<1>5. StartsMarked'
  BY <1>0, <1>4 DEF BoundaryInv, StartsMarked
<1> QED BY <1>1, <1>3, <1>5

\* A captured frame marks whatever its recipients have to be told.
LEMMA BoundaryCaptured ==
    ASSUME BoundaryInv, RegistryInv, PipeTypes, CaptureFrame
    PROVE  InOrder' /\ SwitchesMarked' /\ StartsMarked'
<1> DEFINE M(c) == Mark(Snapshot(c), frames + 1)
           New == {M(c) : c \in Reachable}
<1>0. /\ TypeOK /\ HandlerPhases /\ Reachable \subseteq clients /\ clients \subseteq Sessions
      /\ frames \in Nat
  BY DEF RegistryInv, TypeOK, Reachable, PipeTypes
<1>1. /\ UNCHANGED <<batch, results, work, offered, swallowed, clients, pc>>
      /\ frames' = frames + 1
      /\ jobs' = IF Reachable = {} THEN jobs ELSE Append(jobs, EncodeJob)
  BY DEF CaptureFrame, TakeBroadcastClients, sessionVars
<1>t. /\ LineTypes(batch, results, MarksOfWork(work), jobs)
      /\ Stages \in Nat /\ Line \in [0..Stages -> SUBSET MarkType]
      /\ Known \subseteq MarkType /\ Marks \subseteq Known /\ HandedOut \subseteq Known
      /\ Packets \subseteq Known
  BY LineTyped DEF Known, Packets, BoundaryInv, InOrder
<1>2. ASSUME NEW c \in Reachable
      PROVE  /\ M(c) \in MarkType /\ M(c).to = c /\ M(c).frame = frames + 1
             /\ M(c).mode = handle[c].mode
             /\ "mode_sync" \in handle[c].pending => "config_changed" \in M(c).flags
             /\ "first_packet" \in handle[c].pending => "discontinuity" \in M(c).flags
  <2>1. Snapshot(c) \in BroadcastClient
    BY <1>0, SnapshotType
  <2>2. M(c) \in MarkType
    <3>1. MarksMeant({Snapshot(c)}, frames + 1) \subseteq MarkType
      BY <1>0, <2>1, MeantMarks
    <3> QED BY <3>1 DEF MarksMeant
  <2>3. /\ Snapshot(c).id = c /\ Snapshot(c).mode = handle[c].mode
        /\ Snapshot(c).pending = handle[c].pending
    BY DEF Snapshot
  <2>4. /\ M(c).to = c /\ M(c).frame = frames + 1 /\ M(c).mode = handle[c].mode
        /\ M(c).flags = Flags(Snapshot(c))
    BY <2>3 DEF Mark
  <2> QED BY <2>2, <2>3, <2>4 DEF Flags
<1>3. New = MarksMeant(EncodeJob.clients, EncodeJob.frame)
  <2>1. EncodeJob.clients = {Snapshot(c) : c \in Reachable} /\ EncodeJob.frame = frames + 1
    BY DEF EncodeJob
  <2> QED BY <2>1 DEF MarksMeant
<1> HIDE DEF M
<1>4. \A p \in Marks : p.frame < frames + 1
  <2>1. \A p \in Marks : p.frame \in Nat /\ p.frame <= frames
    BY <1>t DEF BoundaryInv, InOrder, MarkType
  <2> QED BY <1>0, <2>1
<1>5. Ordered(Stages', Line') /\ Marks' = Marks \cup New
  <2>1. CASE Reachable = {}
    <3>1. Stages' = Stages /\ Line' = Line /\ New = {}
      BY <1>1, <2>1 DEF Stages, Line
    <3> QED BY <3>1 DEF BoundaryInv, InOrder, Marks
  <2>2. CASE Reachable # {}
    <3>1. jobs' = Append(jobs, EncodeJob)
      BY <1>1, <2>2
    <3>2. PICK j \in Job : j = EncodeJob
      BY <1>0, JobType
    <3>3. /\ Stages' = Stages + 1 /\ Line'[Stages + 1] = New
          /\ \A k \in 0..Stages : Line'[k] = Line[k]
      BY <1>1, <1>3, <1>t, <3>1, <3>2, LineJobAdded DEF Stages, Line
    <3>4. PICK n \in Nat : n = Stages
      BY <1>t
    <3>5. PICK S, T : S = Line /\ T = Line'
      OBVIOUS
    <3>6. T[n + 1] = New /\ \A k \in 0..n : T[k] = S[k]
      BY <3>3, <3>4, <3>5
    <3>7. \A k \in 0..n : \A p \in S[k] : p.frame < frames + 1
      BY <1>4, <3>4, <3>5 DEF Marks, All
    <3>8. \A p, q \in New : /\ p.frame = frames + 1 /\ q.frame = frames + 1
                            /\ p.to = q.to => p = q
      BY <1>2
    <3>9. Ordered(n, S)
      BY <3>4, <3>5 DEF BoundaryInv, InOrder
    <3> HIDE DEF New
    <3>10. \A k \in 0..(n + 1) : k \in 0..n \/ k = n + 1
      OBVIOUS
    <3>11. Ordered(n + 1, T)
      <4>1. ASSUME NEW k \in 0..(n + 1), NEW l \in 0..(n + 1), k < l, NEW p \in T[k], NEW q \in T[l]
            PROVE  p.frame < q.frame
        <5>1. k \in 0..n
          BY <4>1
        <5>2. CASE l \in 0..n
          BY <3>6, <3>9, <4>1, <5>1, <5>2 DEF Ordered
        <5>3. CASE l = n + 1
          <6>1. p \in S[k] /\ q \in New
            BY <3>6, <4>1, <5>1, <5>3
          <6> QED BY <3>7, <3>8, <5>1, <6>1
        <5> QED BY <3>10, <5>2, <5>3
      <4>2. ASSUME NEW k \in 0..(n + 1), NEW p \in T[k], NEW q \in T[k]
            PROVE  p.frame = q.frame /\ (p.to = q.to => p = q)
        <5>1. CASE k \in 0..n
          BY <3>6, <3>9, <4>2, <5>1 DEF Ordered
        <5>2. CASE k = n + 1
          BY <3>6, <3>8, <4>2, <5>2
        <5> QED BY <3>10, <5>1, <5>2
      <4> QED BY <4>1, <4>2 DEF Ordered
    <3>12. All(n + 1, T) = All(n, S) \cup New
      <4>1. All(n + 1, T) \subseteq All(n, S) \cup New
        BY <3>6, <3>10 DEF All
      <4>2. n + 1 \in 0..(n + 1) /\ \A k \in 0..n : k \in 0..(n + 1)
        OBVIOUS
      <4>3. All(n, S) \cup New \subseteq All(n + 1, T)
        BY <3>6, <4>2 DEF All
      <4> QED BY <4>1, <4>3
    <3> QED BY <3>3, <3>4, <3>5, <3>11, <3>12 DEF Marks
  <2> QED BY <2>1, <2>2
<1>6. Packets' = Packets \cup New /\ Known' = Known \cup New
  <2>1. HandedOut' = HandedOut
    BY <1>1 DEF HandedOut
  <2> QED BY <1>1, <1>5, <2>1 DEF Packets, Known
<1>7. /\ \A x \in Known : x.frame \in Nat /\ x.frame <= frames /\ x.to \in Sessions
      /\ \A x \in New : /\ x.frame = frames + 1 /\ x.to \in Reachable /\ x = M(x.to)
  BY <1>2, <1>t DEF BoundaryInv, InOrder, MarkType
<1>8. \A s \in Sessions : /\ handle'[s].mode = handle[s].mode
                          /\ s \notin Reachable => handle'[s].pending = handle[s].pending
  BY <1>0, CapturedHandles
<1>m. \A c \in Reachable : M(c) \in Known'
  BY <1>6
<1> HIDE DEF New
<1>9. InOrder'
  <2>1. \A p \in Known' : 0 < p.frame /\ p.frame <= frames' /\ pc'[p.to] # "idle"
    <3>1. \A p \in Known : 0 < p.frame /\ p.frame <= frames + 1 /\ pc[p.to] # "idle"
      BY <1>0, <1>7 DEF BoundaryInv, InOrder
    <3>2. \A p \in New : 0 < p.frame /\ p.frame <= frames + 1 /\ pc[p.to] # "idle"
      BY <1>0, <1>7 DEF HandlerPhases
    <3> QED BY <1>1, <1>6, <3>1, <3>2
  <2>2. ASSUME NEW s \in Sessions, offered[s] # None, NEW p \in Marks', p.to = s
        PROVE  offered[s].frame <= p.frame /\ (offered[s].frame = p.frame => p = MarkOf(offered[s]))
    <3>1. CASE p \in Marks
      BY <2>2, <3>1 DEF BoundaryInv, InOrder
    <3>2. CASE p \in New
      <4>1. MarkOf(offered[s]) \in Known /\ MarkOf(offered[s]).frame = offered[s].frame
        BY <1>t, <2>2 DEF HandedOut, MarkOf
      <4>2. offered[s].frame \in Nat /\ offered[s].frame <= frames
        BY <1>7, <4>1
      <4> QED BY <1>0, <1>7, <3>2, <4>2
    <3> QED BY <1>5, <2>2, <3>1, <3>2
  <2>3. \A s \in Sessions : offered[s] # None => offered[s].to = s
    BY DEF BoundaryInv, InOrder
  <2> QED BY <1>1, <1>5, <2>1, <2>2, <2>3 DEF BoundaryInv, InOrder
<1>10. SwitchesMarked'
  <2>0. \A x \in Known : Changes(Known, x) \subseteq Changes(Known', x)
    BY <1>6 DEF Changes
  <2>1. ASSUME NEW x \in Packets', NEW y \in Packets', x.to = y.to, x.frame < y.frame,
               x.mode # y.mode
        PROVE  \E z \in Changes(Known', x) : z.frame <= y.frame
    <3>1. CASE y \in Packets
      <4>1. x \in Packets
        BY <1>0, <1>6, <1>7, <1>t, <2>1, <3>1
      <4>2. PICK z \in Changes(Known, x) : z.frame <= y.frame
        BY <2>1, <3>1, <4>1 DEF BoundaryInv, SwitchesMarked
      <4> QED BY <1>t, <2>0, <4>1, <4>2
    <3>2. CASE y \in New
      <4>1. x \in Packets /\ x \in Known
        BY <1>0, <1>6, <1>7, <1>t, <2>1, <3>2
      <4>2. y.to \in Reachable /\ y = M(y.to) /\ y.frame = frames + 1
            /\ y.mode = handle[x.to].mode
        BY <1>2, <1>7, <2>1, <3>2
      <4>3. CASE "mode_sync" \in handle[x.to].pending
        <5>1. "config_changed" \in y.flags
          BY <1>2, <2>1, <4>2, <4>3
        <5>2. y \in Changes(Known', x) /\ y.frame <= y.frame
          BY <1>0, <1>6, <2>1, <3>2, <4>2, <5>1 DEF Changes
        <5> QED BY <5>2
      <4>4. CASE Changes(Known, x) # {}
        <5>1. PICK z \in Changes(Known, x) : TRUE
          BY <4>4
        <5>2. z \in Known
          BY <5>1 DEF Changes
        <5>3. z.frame <= y.frame
          BY <1>0, <1>7, <4>2, <5>2
        <5> QED BY <2>0, <4>1, <5>1, <5>3
      <4> QED BY <2>1, <4>1, <4>2, <4>3, <4>4 DEF BoundaryInv, SwitchesMarked
    <3> QED BY <1>6, <2>1, <3>1, <3>2
  <2>2. ASSUME NEW x \in Packets', x.mode # handle'[x.to].mode
        PROVE  "mode_sync" \in handle'[x.to].pending \/ Changes(Known', x) # {}
    <3>1. x.to \in Sessions /\ handle'[x.to].mode = handle[x.to].mode
      BY <1>0, <1>6, <1>7, <1>8, <1>t
    <3>2. x \in Packets /\ x \in Known
      BY <1>2, <1>6, <1>7, <1>t, <2>2, <3>1
    <3>3. CASE Changes(Known, x) # {}
      BY <2>0, <3>2, <3>3
    <3>4. CASE "mode_sync" \in handle[x.to].pending
      <4>1. CASE x.to \in Reachable
        <5>1. /\ M(x.to) \in Known' /\ M(x.to).to = x.to /\ M(x.to).frame = frames + 1
              /\ "config_changed" \in M(x.to).flags
          BY <1>2, <1>m, <3>4, <4>1
        <5>2. x.frame < M(x.to).frame
          BY <1>0, <1>7, <3>2, <5>1
        <5> QED BY <5>1, <5>2 DEF Changes
      <4>2. CASE x.to \notin Reachable
        BY <1>8, <3>1, <3>4, <4>2
      <4> QED BY <4>1, <4>2
    <3> QED BY <2>2, <3>1, <3>2, <3>3, <3>4 DEF BoundaryInv, SwitchesMarked
  <2> QED BY <2>1, <2>2 DEF SwitchesMarked
<1>11. StartsMarked'
  <2>0. \A s : Starts(Known, s) \subseteq Starts(Known', s)
    BY <1>6 DEF Starts
  <2>1. ASSUME NEW y \in Packets', offered[y.to] = None
        PROVE  \E z \in Starts(Known', y.to) : z.frame <= y.frame
    <3>1. CASE y \in Packets
      <4>1. PICK z \in Starts(Known, y.to) : z.frame <= y.frame
        BY <2>1, <3>1 DEF BoundaryInv, StartsMarked
      <4> QED BY <2>0, <4>1
    <3>2. CASE y \in New
      <4>1. y.to \in Reachable /\ y = M(y.to) /\ y.frame = frames + 1 /\ Awaiting(y.to)
            /\ y.to \in Sessions
        BY <1>0, <1>7, <3>2 DEF Awaiting
      <4>2. CASE "first_packet" \in handle[y.to].pending
        <5>1. "discontinuity" \in y.flags
          BY <1>2, <4>1, <4>2
        <5>2. y \in Starts(Known', y.to) /\ y.frame <= y.frame
          BY <1>0, <1>6, <2>1, <3>2, <4>1, <5>1 DEF Starts
        <5> QED BY <5>2
      <4>3. CASE Starts(Known, y.to) # {}
        <5>1. PICK z \in Starts(Known, y.to) : TRUE
          BY <4>3
        <5>2. z \in Known
          BY <5>1 DEF Starts
        <5>3. z.frame <= y.frame
          BY <1>0, <1>7, <4>1, <5>2
        <5> QED BY <2>0, <5>1, <5>3
      <4> QED BY <2>1, <4>1, <4>2, <4>3 DEF BoundaryInv, StartsMarked
    <3> QED BY <1>6, <2>1, <3>1, <3>2
  <2>2. ASSUME NEW s \in Sessions, Awaiting(s), offered[s] = None
        PROVE  "first_packet" \in handle'[s].pending \/ Starts(Known', s) # {}
    <3>1. CASE Starts(Known, s) # {}
      BY <2>0, <3>1
    <3>2. CASE "first_packet" \in handle[s].pending
      <4>1. CASE s \in Reachable
        BY <1>2, <1>m, <3>2, <4>1 DEF Starts
      <4>2. CASE s \notin Reachable
        BY <1>8, <3>2, <4>2
      <4> QED BY <4>1, <4>2
    <3> QED BY <2>2, <3>1, <3>2 DEF BoundaryInv, StartsMarked
  <2>3. \A s \in Sessions : Awaiting(s)' <=> Awaiting(s)
    BY <1>1 DEF Awaiting
  <2> QED BY <1>1, <2>1, <2>2, <2>3 DEF StartsMarked
<1> QED BY <1>9, <1>10, <1>11

\* What the receiver is owed when it is handed packet new after packet old.
Told(old, new) ==
    /\ old = None =>
           "discontinuity" \in new.flags \/ Lost("discontinuity", new.to, 0, new.frame)
    /\ old # None /\ old.mode # new.mode =>
           \/ "config_changed" \in new.flags
           \/ Lost("config_changed", new.to, old.frame, new.frame)

\* The packet that is sent has the marks its session is owed, and what is
\* forgotten with the packet sent before is not needed any more.
LEMMA BoundarySent ==
    ASSUME BoundaryInv, PipeTypes, SendFrame, \A s \in Sessions : FlagsKept(s)
    PROVE  /\ InOrder' /\ SwitchesMarked' /\ StartsMarked'
           /\ \A s \in Sessions : offered'[s] # offered[s] =>
                 offered'[s].to = s /\ Told(offered[s], offered'[s])
<1> DEFINE w == Head(batch)
           s == w.to
           old == MarkOf(offered[s])
<1>0. /\ Ordered(Stages, Line) /\ batch # <<>>
      /\ UNCHANGED <<frames, clients, handle, pc, swallowed>>
      /\ offered' = [offered EXCEPT ![s] = w]
  BY DEF BoundaryInv, InOrder, SendFrame, regVars, sessionVars
<1>1. /\ w \in WireFrameOut /\ MarkOf(w) \in Marks /\ s \in Sessions /\ w # None
      /\ \A z \in Marks : z.to = s => w.frame <= z.frame /\ (w.frame = z.frame => z = MarkOf(w))
  BY <1>0, HeadOfLine, NothingInHand DEF WireFrameOut
<1>2. /\ Ordered(Stages', Line') /\ Marks' \subseteq Marks
      /\ Marks \subseteq Marks' \cup {MarkOf(w)}
  BY <1>0, LineSent
<1>3. /\ offered \in [Sessions -> WireFrameOut \cup {None}]
      /\ offered'[s] = w /\ \A u \in Sessions \ {s} : offered'[u] = offered[u]
  BY <1>0, <1>1 DEF PipeTypes
<1>f. \A v : MarkOf(v).to = v.to /\ MarkOf(v).frame = v.frame /\ MarkOf(v).mode = v.mode
             /\ MarkOf(v).flags = v.flags
  BY DEF MarkOf
<1>t. /\ Known \subseteq MarkType /\ Marks \subseteq Packets /\ HandedOut \subseteq Packets
      /\ Packets \subseteq Known /\ \A z \in Known : z.frame \in Nat /\ z.to \in Sessions
  <2>1. Known \subseteq MarkType
    BY LineTyped DEF Known, Packets, BoundaryInv, InOrder
  <2> QED BY <2>1 DEF Known, Packets, MarkType
<1>w. MarkOf(w) \in Packets /\ MarkOf(w).to = s
  BY <1>1, <1>f, <1>t
<1> HIDE DEF w, s
<1>4. /\ \A z \in HandedOut : offered[z.to] # None /\ z = MarkOf(offered[z.to])
      /\ \A u \in Sessions : offered[u] # None => MarkOf(offered[u]) \in HandedOut
  BY <1>f DEF HandedOut, BoundaryInv, InOrder
<1>5. \A z \in HandedOut' : \/ z = MarkOf(w)
                            \/ z.to # s /\ z \in HandedOut
  <2> SUFFICES ASSUME NEW u \in Sessions, offered'[u] # None
               PROVE  \/ MarkOf(offered'[u]) = MarkOf(w)
                      \/ MarkOf(offered'[u]).to # s /\ MarkOf(offered'[u]) \in HandedOut
    BY DEF HandedOut
  <2>1. CASE u = s
    BY <1>3, <2>1
  <2>2. CASE u # s
    BY <1>3, <1>4, <1>f, <2>2 DEF BoundaryInv, InOrder
  <2> QED BY <2>1, <2>2
<1>6. MarkOf(w) \in HandedOut' /\ \A z \in HandedOut : z.to # s => z \in HandedOut'
  BY <1>1, <1>3, <1>4, <1>t DEF HandedOut
<1>7. /\ Known' \subseteq Known /\ Packets' \subseteq Packets
      /\ \A x \in Packets' : x.to = s => x \in Marks
      /\ \A z \in Known : z \in Known' \/ (z.to = s /\ offered[s] # None /\ z = old)
  <2>1. Packets' \subseteq Packets /\ \A x \in Packets' : x.to = s => x \in Marks
    BY <1>1, <1>2, <1>5 DEF Packets
  <2>2. Marks \subseteq Packets'
    BY <1>2, <1>6 DEF Packets
  <2>3. ASSUME NEW z \in HandedOut
        PROVE  z \in Packets' \/ (z.to = s /\ offered[s] # None /\ z = old)
    BY <1>4, <1>6 DEF Packets
  <2>4. Known' = Packets' \cup swallowed /\ Known = Marks \cup HandedOut \cup swallowed
    BY <1>0 DEF Known, Packets
  <2> QED BY <2>1, <2>2, <2>3, <2>4 DEF Known
<1>8. ASSUME offered[s] # None, NEW x \in Marks, x.to = s
      PROVE  old.frame <= x.frame /\ (old.frame = x.frame => x = old)
  BY <1>1, <1>8, <1>f DEF BoundaryInv, InOrder
<1>9. \A x \in Packets', z \in Known : x.to = z.to /\ x.frame < z.frame => z \in Known'
  <2> SUFFICES ASSUME NEW x \in Packets', NEW z \in Known, x.to = z.to, x.frame < z.frame,
                      z \notin Known'
               PROVE  FALSE
    OBVIOUS
  <2>1. z.to = s /\ offered[s] # None /\ z = old /\ x \in Marks
    BY <1>7
  <2>2. old.frame <= x.frame /\ x.frame \in Nat /\ z.frame \in Nat
    BY <1>8, <1>t, <2>1
  <2> QED BY <2>1, <2>2
<1>10. Told(offered[s], w)
  <2>1. ASSUME offered[s] = None
        PROVE  "discontinuity" \in w.flags \/ Lost("discontinuity", w.to, 0, w.frame)
    <3>1. PICK z \in Starts(Known, s) : z.frame <= w.frame
      BY <1>f, <1>w, <2>1 DEF BoundaryInv, StartsMarked
    <3>2. /\ z \in Known /\ z.to = s /\ z.frame \in Nat /\ 0 < z.frame
          /\ "discontinuity" \in z.flags
      BY <1>t, <3>1 DEF Starts, BoundaryInv, InOrder
    <3>3. CASE z \in swallowed
      BY <3>1, <3>2, <3>3 DEF Lost, s
    <3>4. CASE z \in Marks
      <4>1. z = MarkOf(w)
        BY <1>1, <3>1, <3>2, <3>4 DEF WireFrameOut
      <4> QED BY <1>f, <3>2, <4>1
    <3>5. z \notin HandedOut
      BY <1>4, <2>1, <3>2
    <3> QED BY <3>2, <3>3, <3>4, <3>5 DEF Known, Packets
  <2>2. ASSUME offered[s] # None, offered[s].mode # w.mode
        PROVE  \/ "config_changed" \in w.flags
               \/ Lost("config_changed", w.to, offered[s].frame, w.frame)
    <3>1. old \in Packets /\ old.to = s /\ old.mode # w.mode /\ old.frame \in Nat
      BY <1>1, <1>4, <1>f, <1>t, <2>2 DEF BoundaryInv, InOrder
    <3>2. old.frame < w.frame
      <4>1. old.frame <= w.frame /\ old.frame # w.frame
        BY <1>1, <1>8, <1>f, <1>w, <2>2, <3>1
      <4> QED BY <1>1, <3>1, <4>1 DEF WireFrameOut
    <3>3. PICK z \in Changes(Known, old) : z.frame <= w.frame
      BY <1>f, <1>w, <3>1, <3>2 DEF BoundaryInv, SwitchesMarked
    <3>4. z \in Known /\ z.to = s /\ old.frame < z.frame /\ "config_changed" \in z.flags
      BY <3>1, <3>3 DEF Changes
    <3>5. CASE z \in swallowed
      BY <1>f, <3>3, <3>4, <3>5 DEF Lost, s
    <3>6. CASE z \in Marks
      <4>1. z = MarkOf(w)
        BY <1>1, <1>t, <3>3, <3>4, <3>6 DEF WireFrameOut
      <4> QED BY <1>f, <3>4, <4>1
    <3>7. CASE z \in HandedOut
      <4>1. z = old
        BY <1>4, <3>4, <3>7
      <4> QED BY <3>1, <3>4, <4>1
    <3> QED BY <3>4, <3>5, <3>6, <3>7 DEF Known, Packets
  <2> QED BY <2>1, <2>2 DEF Told
<1>11. \A u \in Sessions : offered'[u] # offered[u] =>
          offered'[u].to = u /\ Told(offered[u], offered'[u])
  <2>1. w.to = s
    BY DEF s
  <2> QED BY <1>3, <1>10, <2>1
<1>12. InOrder'
  <2>1. /\ \A p \in Known' : 0 < p.frame /\ p.frame <= frames' /\ pc'[p.to] # "idle"
        /\ swallowed' \subseteq MarkType
    BY <1>0, <1>7 DEF BoundaryInv, InOrder
  <2>2. ASSUME NEW u \in Sessions, offered'[u] # None
        PROVE  /\ offered'[u].to = u
               /\ \A p \in Marks' : p.to = u =>
                     /\ offered'[u].frame <= p.frame
                     /\ offered'[u].frame = p.frame => p = MarkOf(offered'[u])
    <3>1. CASE u = s
      BY <1>1, <1>2, <1>3, <3>1 DEF s
    <3>2. CASE u # s
      BY <1>2, <1>3, <2>2, <3>2 DEF BoundaryInv, InOrder
    <3> QED BY <3>1, <3>2
  <2> QED BY <1>2, <2>1, <2>2 DEF InOrder
<1>13. SwitchesMarked'
  <2>1. \A x \in Packets' : Changes(Known, x) \subseteq Changes(Known', x)
    BY <1>9 DEF Changes
  <2> QED BY <1>0, <1>7, <2>1 DEF BoundaryInv, SwitchesMarked
<1>14. StartsMarked'
  <2>1. ASSUME NEW u \in Sessions, offered'[u] = None
        PROVE  u # s /\ offered[u] = None /\ Starts(Known, u) \subseteq Starts(Known', u)
    <3>1. u # s /\ offered[u] = None
      BY <1>1, <1>3, <2>1
    <3> QED BY <1>7, <3>1 DEF Starts
  <2>2. ASSUME NEW y \in Packets', offered'[y.to] = None
        PROVE  \E z \in Starts(Known', y.to) : z.frame <= y.frame
    <3>1. y \in Packets /\ y.to \in Sessions
      BY <1>7, <1>t
    <3>2. PICK z \in Starts(Known, y.to) : z.frame <= y.frame
      BY <2>1, <2>2, <3>1 DEF BoundaryInv, StartsMarked
    <3> QED BY <2>1, <2>2, <3>1, <3>2
  <2>3. ASSUME NEW u \in Sessions, Awaiting(u)', offered'[u] = None
        PROVE  "first_packet" \in handle'[u].pending \/ Starts(Known', u) # {}
    <3>1. Awaiting(u) /\ handle'[u] = handle[u]
      BY <1>0, <2>3 DEF Awaiting
    <3>2. "first_packet" \in handle[u].pending \/ Starts(Known, u) # {}
      BY <2>1, <2>3, <3>1 DEF BoundaryInv, StartsMarked
    <3> QED BY <2>1, <2>3, <3>1, <3>2
  <2> QED BY <2>2, <2>3 DEF StartsMarked
<1> QED BY <1>11, <1>12, <1>13, <1>14

LEMMA BoundaryStart == PipeInit => BoundaryInv
<1> SUFFICES ASSUME PipeInit PROVE BoundaryInv
  OBVIOUS
<1>1. /\ jobs = <<>> /\ work = None /\ results = <<>> /\ batch = <<>> /\ clients = {}
      /\ offered = [u \in Sessions |-> None] /\ handle = [u \in Sessions |-> NoHandle]
      /\ pc = [u \in Sessions |-> "idle"] /\ swallowed = {}
  BY DEF PipeInit, Init
<1>2. Stages = 1 /\ \A k \in 0..1 : Line[k] = {}
  BY <1>1 DEF Stages, StagesOf, Line, LineOf, MarksOfWork, MarksSent
<1>3. Known = {} /\ Packets = {} /\ Marks = {} /\ Ordered(Stages, Line)
  BY <1>1, <1>2 DEF Known, Packets, Marks, All, HandedOut, Ordered
<1>4. NothingWithheld
  BY <1>1 DEF NothingWithheld
<1> QED BY <1>1, <1>3, <1>4 DEF BoundaryInv, InOrder, SwitchesMarked, StartsMarked, Awaiting

LEMMA BoundaryStep ==
    ASSUME PipeInv, PipeInv', BoundaryInv, [PipeNext]_vars
    PROVE  /\ BoundaryInv'
           /\ \A s \in Sessions : offered'[s] # offered[s] =>
                 offered'[s].to = s /\ Told(offered[s], offered'[s])
<1>0. RegistryInv /\ PipeTypes /\ PipeTypes' /\ NothingWithheld /\ Ordered(Stages, Line)
  BY DEF PipeInv, BoundaryInv, InOrder
<1>1. NothingWithheld'
  BY <1>0, WithheldStep
<1>2. CASE CaptureFrame
  <2>1. offered' = offered
    BY <1>2 DEF CaptureFrame
  <2> QED BY <1>0, <1>1, <1>2, <2>1, BoundaryCaptured DEF BoundaryInv
<1>3. CASE SendFrame /\ ~CaptureFrame
  <2>1. \A s \in Sessions : FlagsKept(s)
    BY <1>0, <1>3, FlagsStep
  <2> QED BY <1>0, <1>1, <1>3, <2>1, BoundarySent DEF BoundaryInv
<1>4. CASE ~CaptureFrame /\ ~SendFrame
  <2>1. \A s \in Sessions : FlagsKept(s)
    BY <1>0, <1>4, FlagsStep
  <2>2. Ordered(Stages', Line') /\ MarksPassed(Marks, Marks')
    BY <1>0, <1>4, LineStep
  <2>3. UNCHANGED <<frames, offered>>
    BY <1>4 DEF PipeNext, TierChanges, ControlStep, TakeResult, WorkerTakesJob, WorkerEncodes,
       EncodeGroup, WorkerFansOut, FanOut, WorkerSendsResult, SettleFailure, vars, pipeVars
  <2> QED BY <1>0, <1>1, <2>1, <2>2, <2>3, BoundaryKept DEF BoundaryInv
<1> QED BY <1>2, <1>3, <1>4

\* For every codec, the first packet of a session carries the discontinuity flag
\* and the first one in another mode config_changed, or the Opus encoder only
\* buffered the frame that had the flag, however the snapshots, the worker and
\* the sends are interleaved with switches (take_broadcast_clients,
\* v2_flags_for_frame, OpusFrameBuffer): a flag is consumed by the snapshot that
\* takes the new mode with it, and nothing but that buffer withholds a snapshot.
THEOREM SwitchesAnnounced == PipeSpec => FlagsLostOnlyByBuffering
<1> DEFINE Flagged == \A s \in Sessions :
               LET old == offered[s]  new == offered'[s] IN
               new # old /\ new.data_plane = "v2_header" =>
                   /\ old = None =>
                          "discontinuity" \in new.flags \/ Lost("discontinuity", s, 0, new.frame)
                   /\ old # None /\ old.mode # new.mode =>
                          \/ "config_changed" \in new.flags
                          \/ Lost("config_changed", s, old.frame, new.frame)
<1>1. PipeInit => PipeInv /\ BoundaryInv
  BY PipeStart, BoundaryStart
<1>2. PipeInv /\ BoundaryInv /\ [PipeNext]_vars => (PipeInv /\ BoundaryInv)' /\ [Flagged]_vars
  <2> SUFFICES ASSUME PipeInv, BoundaryInv, [PipeNext]_vars
               PROVE  PipeInv' /\ BoundaryInv' /\ Flagged
    OBVIOUS
  <2>1. PipeInv'
    BY PipeStep
  <2>2. /\ BoundaryInv'
        /\ \A s \in Sessions : offered'[s] # offered[s] =>
              offered'[s].to = s /\ Told(offered[s], offered'[s])
    BY <2>1, BoundaryStep
  <2>3. ASSUME NEW s \in Sessions, offered'[s] # offered[s]
        PROVE  /\ offered[s] = None =>
                      \/ "discontinuity" \in offered'[s].flags
                      \/ Lost("discontinuity", s, 0, offered'[s].frame)
               /\ offered[s] # None /\ offered[s].mode # offered'[s].mode =>
                      \/ "config_changed" \in offered'[s].flags
                      \/ Lost("config_changed", s, offered[s].frame, offered'[s].frame)
    <3>1. PICK new : new = offered'[s] /\ new.to = s /\ Told(offered[s], new)
      BY <2>2, <2>3
    <3>2. /\ Lost("discontinuity", new.to, 0, new.frame) =>
                 Lost("discontinuity", s, 0, new.frame)
          /\ Lost("config_changed", new.to, offered[s].frame, new.frame) =>
                 Lost("config_changed", s, offered[s].frame, new.frame)
      BY <3>1
    <3> QED BY <3>1, <3>2 DEF Told
  <2>4. Flagged
    BY <2>3, Zenon
  <2> QED BY <2>1, <2>2, <2>4
<1> QED BY <1>1, <1>2, PTL DEF PipeSpec, FlagsLostOnlyByBuffering
=============================================================================
