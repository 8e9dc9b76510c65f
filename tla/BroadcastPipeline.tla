-------------------------- MODULE BroadcastPipeline --------------------------
(***************************************************************************)
(* The audio path of the server on top of the control plane: capture and   *)
(* snapshot (BroadcastTransport::run), the encode worker thread            *)
(* (spawn_encode_worker) and the fan-out (dispatch_wire_frames).  The      *)
(* registry is ClientRegistry; its abstract send failures are replaced     *)
(* here by the transport task that notices them.                           *)
(*                                                                         *)
(* The transport task, the worker and the session handlers run             *)
(* concurrently.  A job carries a snapshot of the clients, so it is        *)
(* encoded and sent whatever has happened to them since.                   *)
(*                                                                         *)
(* Data.  A captured frame is its number (its pts in units of 10 ms); the  *)
(* payload is left out.  An Opus packet holds two frames, a PCM24 frame    *)
(* is cut into FRAGS packets, a PCM16 frame is one packet.                 *)
(* Sequence numbers are counted without the wrap of the 32-bit counter,    *)
(* which takes 2^32 packets; the receiver's side of it is JitterBuffer.    *)
(***************************************************************************)
EXTENDS ClientRegistry, FiniteSetsExt

CONSTANTS
    MAX_FRAMES,       \* bound: frames captured in a run
    FRAGS             \* packets a PCM24 frame takes (encode_packets_by_data_plane)

ASSUME FramesBounded == MAX_FRAMES \in Nat /\ FRAGS \in Nat \ {0}

VARIABLES
    frames,           \* frames captured so far
    tier,             \* the tier published by the watchdog
    jobs,             \* job channel, transport task -> worker
    work,             \* the job the worker is encoding, or None
    opus_buffer,      \* OpusFrameBuffer of each mode's encoder: frame held or 0
    sequence,         \* the shared wire sequence counter
    results,          \* result channel, worker -> transport task
    batch,            \* wire frames the transport task still has to send
    failed,           \* clients whose send failed in this batch
    stream,           \* what has happened on each forwarded TCP stream
    offered,          \* last wire frame handed to each session's data plane
    swallowed         \* history: what snapshots that became no packet had to say

pipeVars == <<frames, tier, jobs, work, opus_buffer, sequence, results, batch,
              failed, stream, offered, swallowed>>
vars == <<regVars, pipeVars>>

Tiers == {"green", "red"}

\* The recipient of a frame, as it was when the frame was captured.
BroadcastClient ==
    [id : Sessions, data_plane : DataPlanes, codec : Codecs, mode : AudioModes,
     transport : Streams \cup {Wifi}, pending : SUBSET {"first_packet", "mode_sync"}]

\* A packet, the recipient it is for and where it goes; frame is the one whose
\* job made the packet, pts the timestamp.
WireFrameOut ==
    [to : Sessions, transport : Streams \cup {Wifi}, data_plane : DataPlanes,
     mode : AudioModes, seq : Nat, flags : SUBSET {"config_changed", "discontinuity"},
     frame : Nat, pts : Nat]

\* The worker's local state: the recipients whose groups are not encoded yet,
\* those the last packet still goes to, its number and timestamp, and the wire
\* frames so far.
Work ==
    [frame : Nat, tier : Tiers, todo : SUBSET BroadcastClient,
     to : SUBSET BroadcastClient, seq : Nat, pts : Nat, out : Seq(WireFrameOut)]

ASSUME NothingInHand == None \notin Work /\ None \notin WireFrameOut

\* take_broadcast_clients: what it copies of a handle.
Snapshot(c) ==
    [id |-> c, data_plane |-> handle[c].data_plane, codec |-> handle[c].codec,
     mode |-> handle[c].mode, transport |-> handle[c].transport,
     pending |-> handle[c].pending]

PipeInit ==
    /\ Init
    /\ frames = 0
    /\ tier = "green"
    /\ jobs = <<>>
    /\ work = None
    /\ opus_buffer = [m \in AudioModes |-> 0]
    /\ sequence = 0
    /\ results = <<>>
    /\ batch = <<>>
    /\ failed = {}
    /\ stream = [st \in Streams |-> "open"]
    /\ offered = [s \in Sessions |-> None]
    /\ swallowed = {}

-----------------------------------------------------------------------------
(* The transport task, between two awaits of its select loop.              *)

Idle == batch = <<>> /\ failed = {} /\ victim[Transport] = None

\* EncodeJob: the frame, the recipients and the tier of the moment.
EncodeJob == [frame |-> frames + 1, tier |-> tier,
              clients |-> {Snapshot(c) : c \in Reachable}]

\* A captured frame: snapshot the clients, hand the job to the worker.  A
\* frame nobody can receive is dropped before the worker sees it.
CaptureFrame ==
    /\ Idle
    /\ frames < MAX_FRAMES
    /\ frames' = frames + 1
    /\ TakeBroadcastClients
    /\ jobs' = IF Reachable = {} THEN jobs ELSE Append(jobs, EncodeJob)
    /\ UNCHANGED <<tier, work, opus_buffer, sequence, results, batch, failed,
                   stream, offered, swallowed>>

\* The watchdog task publishes another tier.
TierChanges ==
    /\ tier' \in Tiers \ {tier}
    /\ UNCHANGED <<regVars, frames, jobs, work, opus_buffer, sequence, results,
                   batch, failed, stream, offered, swallowed>>

\* A finished job comes back from the worker.
TakeResult ==
    /\ Idle
    /\ results # <<>>
    /\ batch' = Head(results)
    /\ results' = Tail(results)
    /\ UNCHANGED <<regVars, frames, tier, jobs, work, opus_buffer, sequence,
                   failed, stream, offered, swallowed>>

-----------------------------------------------------------------------------
(* The encode worker.                                                      *)

\* Clients that share an encoder.  The sample rate of the key is left out.
EncoderKey(b) == [codec |-> b.codec, mode |-> b.mode]

WorkerTakesJob ==
    /\ work = None
    /\ jobs # <<>>
    /\ work' = [frame |-> Head(jobs).frame, tier |-> Head(jobs).tier,
                todo |-> Head(jobs).clients, to |-> {}, seq |-> 0, pts |-> 0,
                out |-> <<>>]
    /\ jobs' = Tail(jobs)
    /\ UNCHANGED <<regVars, frames, tier, opus_buffer, sequence, results, batch,
                   failed, stream, offered, swallowed>>

\* apply_tier_profile: at the red tier every encoder falls back to PCM16.
UsedCodec(k) == IF work.tier = "red" THEN "pcm16" ELSE k.codec

\* OpusFrameBuffer::push_10ms: the frames an Opus encoder then holds.
Held(k) == {opus_buffer[k.mode], work.frame} \ {0}

\* OpusFrameBuffer::pop_20ms: two frames make a packet, whose timestamp is
\* that of the older one.
PairReady(held) == Cardinality(held) = 2

\* AudioFrameEncoder::encode: the frames that go into the packet it returns
\* ({}: the Opus encoder only buffers the frame).  When the Opus library
\* fails (ok is FALSE), the packet is PCM16 of this frame alone.
Packed(k, ok) ==
    IF UsedCodec(k) # "opus" THEN {work.frame}
    ELSE IF ~PairReady(Held(k)) THEN {}
    ELSE IF ok THEN Held(k) ELSE {work.frame}

\* encode_packets_by_data_plane: how many packets client b gets for it.
Pieces(b) ==
    IF UsedCodec(EncoderKey(b)) # "pcm24" THEN 1
    ELSE IF b.data_plane = "legacy_las1" THEN 0 ELSE FRAGS

\* (a fault: the two tests in the other order)
FlagsFirstPacketWins(b) ==
    IF "first_packet" \in b.pending THEN {"discontinuity"}
    ELSE IF "mode_sync" \in b.pending THEN {"config_changed", "discontinuity"} ELSE {}

\* v2_flags_for_frame
Flags(b) ==
    IF "mode_sync" \in b.pending THEN {"config_changed", "discontinuity"}
    ELSE IF "first_packet" \in b.pending THEN {"discontinuity"} ELSE {}

\* What the packet of frame f tells client b.
Mark(b, f) == [to |-> b.id, frame |-> f, mode |-> b.mode, flags |-> Flags(b)]

\* One (codec, mode) group of the job, in HashMap order: encode the frame, take
\* a number for the packet (fetch_add(1)).
EncodeGroup(k, ok) ==
    LET R == {b \in work.todo : EncoderKey(b) = k}
        packed == Packed(k, ok)
    IN
    /\ R # {}
    /\ opus_buffer' = IF UsedCodec(k) # "opus" THEN opus_buffer
                      ELSE [opus_buffer EXCEPT ![k.mode] =
                               IF packed = {} THEN work.frame ELSE 0]
    /\ IF packed = {}
       THEN /\ work' = [work EXCEPT !.todo = @ \ R]
            /\ swallowed' = swallowed \cup {Mark(b, work.frame) : b \in R}
            /\ UNCHANGED sequence
       ELSE /\ work' = [work EXCEPT !.todo = @ \ R, !.to = R,
                                    !.seq = sequence, !.pts = Min(packed)]
            /\ sequence' = sequence + 1
            /\ UNCHANGED swallowed
    /\ UNCHANGED <<regVars, frames, tier, jobs, results, batch, failed, stream, offered>>

WorkerEncodes ==
    /\ work # None
    /\ work.to = {}
    /\ \E b \in work.todo, ok \in BOOLEAN : EncodeGroup(EncoderKey(b), ok)

\* What client b is sent: every recipient's packets start at the same number.
WireFrames(b) ==
    [i \in 1..Pieces(b) |->
        [to |-> b.id, transport |-> b.transport, data_plane |-> b.data_plane,
         mode |-> b.mode, seq |-> work.seq + i - 1, flags |-> Flags(b),
         frame |-> work.frame, pts |-> work.pts]]

\* (a fault: the numbers of further fragments are not reserved)
NoExtras(b) == 0

\* The numbers a recipient takes beyond the packet's own.
Extras(b) == Max({Pieces(b) - 1, 0})

\* The packet goes to the next recipient of its group.
FanOut(b) ==
    /\ work' = [work EXCEPT !.to = @ \ {b}, !.out = @ \o WireFrames(b)]
    /\ sequence' = sequence + Extras(b)
    /\ UNCHANGED <<regVars, frames, tier, jobs, opus_buffer, results, batch, failed,
                   stream, offered, swallowed>>

WorkerFansOut ==
    /\ work # None
    /\ \E b \in work.to : FanOut(b)

WorkerSendsResult ==
    /\ work # None
    /\ work.todo = {} /\ work.to = {}
    /\ results' = Append(results, work.out)
    /\ work' = None
    /\ UNCHANGED <<regVars, frames, tier, jobs, opus_buffer, sequence, batch,
                   failed, stream, offered, swallowed>>

-----------------------------------------------------------------------------
(* dispatch_wire_frames.                                                   *)

\* Outcomes of a write on a forwarded stream (write_length_prefixed_frame).
\* The 250 ms timeout may cut a frame in two ("torn"); a later frame that is
\* written behind the stump makes the stream unreadable ("garbled").
AfterWrite == [open    |-> {"open", "torn", "broken"},
               torn    |-> {"garbled", "torn", "broken"},
               garbled |-> {"garbled", "broken"},
               broken  |-> {"broken"}]
WriteFails(after) == after \in {"torn", "broken"}

\* sender_for_client: the data plane of the snapshot the frame was made for.
Sender(w) == IF w.transport = Wifi THEN w.data_plane ELSE "usb_direct"

\* send_frame of LegacyLas1DataPlane and V2HeaderDataPlane: one datagram.
UdpSend(w) ==
    /\ failed' \in {failed, failed \cup {w.to}}
    /\ UNCHANGED stream

\* send_frame of UsbDirectDataPlane: a length prefix and the frame.
UsbSend(w) ==
    \E after \in AfterWrite[stream[w.transport]] :
        /\ stream' = [stream EXCEPT ![w.transport] = after]
        /\ failed' = IF WriteFails(after) THEN failed \cup {w.to} ELSE failed

\* Send the next wire frame of the batch.  A failure is noted and the loop
\* goes on.
SendFrame ==
    LET w == Head(batch) IN
    /\ batch # <<>>
    /\ batch' = Tail(batch)
    /\ offered' = [offered EXCEPT ![w.to] = w]
    /\ IF Sender(w) = "usb_direct" THEN UsbSend(w) ELSE UdpSend(w)
    /\ UNCHANGED <<regVars, frames, tier, jobs, work, opus_buffer, sequence, results,
                   swallowed>>

\* After the batch, the failed clients one by one: a Wi-Fi client is removed,
\* a USB client loses whatever stream it has by now.
SettleFailure(c) ==
    /\ batch = <<>>
    /\ c \in failed
    /\ victim[Transport] = None
    /\ failed' = failed \ {c}
    /\ \/ /\ TRANSPORT_MODE = "wifi"
          /\ RemoveClient(Transport, c)
       \/ /\ TRANSPORT_MODE = "usb"
          /\ MarkUsbTransportLost(c)
          /\ UNCHANGED <<clients, victim>>
    /\ UNCHANGED <<pending_usb_streams, accepted_streams, active_sessions,
                   current_audio_mode, pc, request, bcast, connected, frames, tier,
                   jobs, work, opus_buffer, sequence, results, batch, stream, offered,
                   swallowed>>

-----------------------------------------------------------------------------
ControlStep ==
    /\ \/ \E s \in Sessions : SessionStep(s)
       \/ \E t \in Tasks : Depart(t)
       \/ UsbAcceptStep
    /\ UNCHANGED pipeVars

PipeNext ==
    \/ ControlStep
    \/ CaptureFrame
    \/ TierChanges
    \/ TakeResult
    \/ WorkerTakesJob
    \/ WorkerEncodes
    \/ WorkerFansOut
    \/ WorkerSendsResult
    \/ SendFrame
    \/ \E c \in Sessions : SettleFailure(c)

PipeSpec == PipeInit /\ [][PipeNext]_vars

(***************************************************************************)
(* Properties.                                                             *)
(***************************************************************************)

\* The packets handed to one session's data plane have strictly increasing
\* sequence numbers (the receiver drops a number it has played), although the
\* counter is shared by all groups, every recipient of a group starts at the
\* same number, PCM24 frames take several numbers, and jobs outlive changes of
\* mode and codec.
SequenceIncreases ==
    [][\A s \in Sessions :
          offered'[s] # offered[s] /\ offered[s] # None =>
              offered'[s].seq > offered[s].seq]_vars

\* A snapshot of session t's that became no packet, later than frame a and not
\* later than frame b, had flag g.
Lost(g, t, a, b) == \E z \in swallowed : /\ z.to = t /\ g \in z.flags
                                          /\ a < z.frame /\ z.frame <= b

\* take_broadcast_clients consumes the flags with the snapshot, and the worker
\* sends what a snapshot says.  So the first packet of a session carries
\* discontinuity and the first one in another mode config_changed, unless the
\* Opus encoder only buffered the frame that took the flag: however many jobs
\* and results from before the switch are queued, a flag gets lost no other way.
\* (docs/protocol.md knows no exception; the code has this one.)
FlagsLostOnlyByBuffering ==
    [][\A s \in Sessions :
          LET old == offered[s]  new == offered'[s] IN
          new # old /\ new.data_plane = "v2_header" =>
              /\ old = None =>
                     "discontinuity" \in new.flags \/ Lost("discontinuity", s, 0, new.frame)
              /\ old # None /\ old.mode # new.mode =>
                     \/ "config_changed" \in new.flags
                     \/ Lost("config_changed", s, old.frame, new.frame)]_vars

\* Between two batches no registered client keeps a stream on which a write has
\* failed, although failures are noted during a batch, acted on by client id
\* after it, and the client may have been given another stream meanwhile.
BrokenStreamsReleased ==
    Idle => \A c \in clients : handle[c].transport \in Streams =>
                stream[handle[c].transport] = "open"

\* docs/protocol.md: a USB stream is a sequence of frames "4-byte big-endian
\* length + frame payload": no frame is written behind a frame that was cut.
StreamsWellFramed == \A st \in Streams : stream[st] # "garbled"
=============================================================================
