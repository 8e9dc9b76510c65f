--------------------------- MODULE LoopbackCapture ---------------------------
(***************************************************************************)
(* Audio capture: the capture source (WindowsLoopbackCapture over a        *)
(* PcmFrameAccumulator, or SyntheticAudioSource), the capture task that    *)
(* reads it, the bounded channel to the broadcast loop, and the end of a   *)
(* run, in which the broadcast loop aborts the task that may be telling    *)
(* its source to stop.                                                     *)
(*                                                                         *)
(* Data.  A sample is the flag the accumulator keeps for it: TRUE when the *)
(* device called its packet silent.  A padding frame, which carries no     *)
(* captured sample, is the empty sequence.  Levels, time stamps and the    *)
(* counters of the metrics are left out.                                   *)
(***************************************************************************)
EXTENDS Integers, Sequences

CONSTANTS
    FRAME,           \* samples of a frame (total_samples_per_frame)
    MAX_PACKET,      \* samples of the largest packet the device delivers
    ENDPOINT_CAP,    \* packets the device keeps until they are read
    QUEUE_CAP,       \* capacity of the channel to the broadcast loop
    WAV_MAX,         \* max_samples of the debug wav
    MAX_CAPTURED     \* bound: samples the device captures

ASSUME CaptureSizes ==
    /\ FRAME \in Nat \ {0} /\ MAX_PACKET \in Nat \ {0} /\ QUEUE_CAP \in Nat \ {0}
    /\ ENDPOINT_CAP \in Nat /\ WAV_MAX \in Nat /\ MAX_CAPTURED \in Nat

CaptureSourceState ==
    {"Created", "DeviceResolved", "ClientInitialized", "Started", "Stopped", "Failed"}

VARIABLES
    source,          \* "none", "synthetic" or "windows_loopback"
    state,           \* CaptureSourceState
    running,         \* the device is capturing
    endpoint,        \* packets the device holds for us
    acc,             \* the accumulator
    wav,             \* the debug wav: on, written, file, header, finalized
    task,            \* where the capture task is
    late,            \* the deadline of the current read has passed
    frame,           \* the frame the task is about to send
    queue,           \* frames in the channel
    broadcasting,    \* the broadcast loop runs
    shutdown,        \* the shutdown signal was sent
    captured, delivered   \* history: samples captured, samples sent on

deviceVars == <<source, state, running, endpoint, wav>>
readVars == <<acc, late, frame, captured, delivered>>
vars == <<deviceVars, readVars, task, queue, broadcasting, shutdown>>

Packet == [n : 1..MAX_PACKET, silent : BOOLEAN]
NoWav == [on |-> FALSE, written |-> 0, file |-> 0, header |-> 0, finalized |-> FALSE]

Init ==
    /\ source = "none" /\ state = "Created" /\ running = FALSE
    /\ endpoint = <<>> /\ acc = <<>> /\ frame = <<>>
    /\ wav = NoWav
    /\ task = "start" /\ late = FALSE /\ queue = 0
    /\ broadcasting = TRUE /\ shutdown = FALSE
    /\ captured = <<>> /\ delivered = <<>>

(***************************************************************************)
(* The debug wav.                                                          *)
(***************************************************************************)
MinOf(a, b) == IF a < b THEN a ELSE b

\* finalize: the header is written once, for the samples written so far.  The
\* disk may refuse; finalize is then tried again when the source is dropped.
Finalized(w) ==
    IF ~w.on \/ w.finalized THEN {w}
    ELSE {[w EXCEPT !.header = w.written, !.finalized = TRUE], w}

\* (a fault: the cap is not looked at)
WavWriteUncapped(w, n) ==
    IF ~w.on THEN {w}
    ELSE LET done == [w EXCEPT !.written = @ + n, !.file = @ + n]
         IN IF done.written >= WAV_MAX THEN Finalized(done) ELSE {done}

\* write_samples: up to the cap, at which the file is finalized.  When the disk
\* refuses, the samples already written are not counted.
WavWrite(w, n) ==
    IF ~w.on \/ w.written >= WAV_MAX THEN {w}
    ELSE LET take == MinOf(WAV_MAX - w.written, n)
             done == [w EXCEPT !.written = @ + take, !.file = @ + take]
         IN (IF done.written >= WAV_MAX THEN Finalized(done) ELSE {done})
            \cup {[w EXCEPT !.file = @ + k] : k \in 0..(take - 1)}

(***************************************************************************)
(* Building, starting and stopping a source.                               *)
(***************************************************************************)

\* do_stop, also called by drop
DoStop ==
    /\ running' = FALSE
    /\ endpoint' = <<>>
    /\ state' = "Stopped"
    /\ wav' \in Finalized(wav)

\* The run ends before a capture task exists; the source is dropped.
RunFails ==
    /\ DoStop
    /\ task' = "ended"
    /\ broadcasting' = FALSE
    /\ UNCHANGED <<source, readVars, queue, shutdown>>

\* build_capture_source: the configured source, or the synthetic one when the
\* loopback source (with its debug wav, if asked for) cannot be built and a
\* fallback is allowed, or an error.
BuildSource ==
    /\ task = "start" /\ source = "none"
    /\ \/ /\ source' = "synthetic"
          /\ UNCHANGED <<state, running, endpoint, wav, readVars, task, queue,
                         broadcasting, shutdown>>
       \/ /\ source' = "windows_loopback"
          /\ wav' \in {NoWav, [NoWav EXCEPT !.on = TRUE]}
          /\ UNCHANGED <<state, running, endpoint, readVars, task, queue, broadcasting,
                         shutdown>>
       \/ RunFails

\* The mix formats init_audio_clients accepts: 32 bit float and 16 bit PCM, plain
\* or extensible.
SampleKind(mix) ==
    LET kind == IF mix.tag = "extensible" THEN mix.sub ELSE mix.tag
    IN IF mix.tag = "extensible" /\ mix.cb < 22 THEN "unsupported"
       ELSE IF kind = "float" /\ mix.bits = 32 THEN "F32"
       ELSE IF kind = "pcm" /\ mix.bits = 16 THEN "I16" ELSE "unsupported"

MixFormats ==
    [tag : {"float", "pcm", "extensible"}, sub : {"float", "pcm", "other"},
     bits : {16, 24, 32}, cb : {0, 22}]

\* resolve_default_output_device
ResolveDevice ==
    /\ task = "start" /\ source = "windows_loopback" /\ state = "Created"
    /\ \/ /\ state' = "DeviceResolved"
          /\ UNCHANGED <<source, running, endpoint, wav, readVars, task, queue,
                         broadcasting, shutdown>>
       \/ RunFails

\* init_audio_clients: a new accumulator for the device's format
InitAudioClients(mix) ==
    /\ task = "start" /\ state = "DeviceResolved"
    /\ \/ /\ SampleKind(mix) # "unsupported"
          /\ state' = "ClientInitialized"
          /\ acc' = <<>>
          /\ UNCHANGED <<source, running, endpoint, wav, late, frame, captured, delivered,
                         task, queue, broadcasting, shutdown>>
       \/ RunFails

\* start, the last step: the device runs, and the capture task is spawned
DoStart ==
    /\ task = "start"
    /\ \/ /\ source = "windows_loopback" /\ state = "ClientInitialized"
          /\ running' = TRUE
       \/ /\ source = "synthetic"
          /\ UNCHANGED running
    /\ state' = "Started"
    /\ task' = "loop"
    /\ UNCHANGED <<source, endpoint, wav, readVars, queue, broadcasting, shutdown>>

DoStartFails ==
    /\ task = "start" /\ state = "ClientInitialized"
    /\ RunFails

(***************************************************************************)
(* The device.                                                             *)
(***************************************************************************)
DeviceDelivers(p) ==
    /\ running
    /\ Len(endpoint) < ENDPOINT_CAP
    /\ Len(captured) + p.n <= MAX_CAPTURED
    /\ endpoint' = Append(endpoint, p)
    /\ captured' = captured \o [i \in 1..p.n |-> p.silent]
    /\ UNCHANGED <<source, state, running, wav, acc, late, frame, delivered, task, queue,
                   broadcasting, shutdown>>

(***************************************************************************)
(* Reading a frame.  A read polls the device until it has a frame or its   *)
(* deadline passes, and yields to the runtime between two polls.           *)
(***************************************************************************)

\* read_frame on a source that is not started
ReadNotStarted ==
    /\ task = "loop" /\ state # "Started"
    /\ task' = "sleep"
    /\ UNCHANGED <<deviceVars, readVars, queue, broadcasting, shutdown>>

BeginRead ==
    /\ task = "loop" /\ state = "Started" /\ source = "windows_loopback"
    /\ task' = "fill"
    /\ late' = FALSE
    /\ UNCHANGED <<deviceVars, acc, frame, captured, delivered, queue, broadcasting, shutdown>>

\* SyntheticAudioSource::read_frame, once its tick has come
SyntheticRead ==
    /\ task = "loop" /\ state = "Started" /\ source = "synthetic"
    /\ task' = "send"
    /\ frame' = <<>>
    /\ UNCHANGED <<deviceVars, acc, late, captured, delivered, queue, broadcasting, shutdown>>

\* pop_frame: what is left, and what is taken.  What is taken is a whole frame,
\* the only thing into_audio_frame accepts.
Rest(s) == IF Len(s) < FRAME THEN s ELSE SubSeq(s, FRAME + 1, Len(s))
Popped(s) == IF Len(s) < FRAME THEN <<>> ELSE SubSeq(s, 1, FRAME)

\* (a fault: a frame is taken only when more than one is there)
FillPacketLate ==
    /\ task = "fill" /\ endpoint # <<>>
    /\ LET p == Head(endpoint)
           all == acc \o [i \in 1..p.n |-> p.silent]
           full == Len(all) > FRAME
       IN /\ acc' = IF full THEN Rest(all) ELSE all
          /\ frame' = IF full THEN Popped(all) ELSE <<>>
          /\ task' = IF full THEN "send" ELSE "fill"
          /\ wav' \in IF full THEN WavWrite(wav, FRAME) ELSE {wav}
    /\ endpoint' = Tail(endpoint)
    /\ UNCHANGED <<source, state, running, late, captured, delivered, queue, broadcasting,
                   shutdown>>

\* fill_accumulator_from_packets: one packet is read, pushed and released; the
\* read ends with the first frame there is.
FillPacket ==
    /\ task = "fill" /\ endpoint # <<>>
    /\ LET p == Head(endpoint)
           all == acc \o [i \in 1..p.n |-> p.silent]
           full == Len(all) >= FRAME
       IN /\ acc' = Rest(all)
          /\ frame' = Popped(all)
          /\ task' = IF full THEN "send" ELSE "fill"
          /\ wav' \in IF full THEN WavWrite(wav, FRAME) ELSE {wav}
    /\ endpoint' = Tail(endpoint)
    /\ UNCHANGED <<source, state, running, late, captured, delivered, queue, broadcasting,
                   shutdown>>

\* (a fault: the deadline is looked at only after a packet was seen)
FillEmptyForever ==
    /\ task = "fill" /\ endpoint = <<>>
    /\ task' = IF late /\ acc # <<>> THEN "send" ELSE "yield"
    /\ frame' = <<>>
    /\ UNCHANGED <<deviceVars, acc, late, captured, delivered, queue, broadcasting, shutdown>>

\* (a fault: the padding frame replaces what the accumulator holds)
FillEmptyDropping ==
    /\ task = "fill" /\ endpoint = <<>>
    /\ task' = IF late THEN "send" ELSE "yield"
    /\ acc' = IF late THEN <<>> ELSE acc
    /\ frame' = <<>>
    /\ UNCHANGED <<deviceVars, late, captured, delivered, queue, broadcasting, shutdown>>

\* No packet is left and there is no frame yet: poll again, or pad with silence.
FillEmpty ==
    /\ task = "fill" /\ endpoint = <<>>
    /\ task' = IF late THEN "send" ELSE "yield"
    /\ frame' = <<>>
    /\ UNCHANGED <<deviceVars, acc, late, captured, delivered, queue, broadcasting, shutdown>>

\* set_failed: the source stays failed; the read returns the error and the task
\* sleeps before it asks the source again.
SetFailed ==
    /\ state' = "Failed"
    /\ task' = "sleep"
    /\ UNCHANGED <<source, running, wav, late, frame, captured, delivered, queue, broadcasting,
                   shutdown>>

\* GetNextPacketSize or GetBuffer fails.
FillFails ==
    /\ task = "fill"
    /\ SetFailed
    /\ UNCHANGED <<endpoint, acc>>

\* A packet with sound has no data: it is given back, which may fail unnoticed,
\* and its samples are gone.
NullBuffer ==
    /\ task = "fill" /\ endpoint # <<>> /\ ~Head(endpoint).silent
    /\ SetFailed
    /\ endpoint' \in {endpoint, Tail(endpoint)}
    /\ UNCHANGED acc

\* (a fault: the source is not marked failed, and the packet is read again)
ReleaseFailsRetried ==
    /\ task = "fill" /\ endpoint # <<>>
    /\ task' = "sleep"
    /\ acc' = acc \o [i \in 1..Head(endpoint).n |-> Head(endpoint).silent]
    /\ UNCHANGED <<deviceVars, late, frame, captured, delivered, queue, broadcasting, shutdown>>

\* ReleaseBuffer fails: the samples were pushed, and the device keeps the packet.
ReleaseFails ==
    /\ task = "fill" /\ endpoint # <<>>
    /\ SetFailed
    /\ acc' = acc \o [i \in 1..Head(endpoint).n |-> Head(endpoint).silent]
    /\ UNCHANGED endpoint

PollAgain ==
    /\ task = "yield"
    /\ task' = "fill"
    /\ UNCHANGED <<deviceVars, readVars, queue, broadcasting, shutdown>>

DeadlinePasses ==
    /\ task \in {"fill", "yield"} /\ ~late
    /\ late' = TRUE
    /\ UNCHANGED <<deviceVars, acc, frame, captured, delivered, task, queue, broadcasting,
                   shutdown>>

(***************************************************************************)
(* The capture task and the broadcast loop.                                *)
(***************************************************************************)

TaskEnds ==
    /\ DoStop
    /\ task' = "ended"
    /\ UNCHANGED <<source, readVars, queue, broadcasting, shutdown>>

\* frame_tx.send waits while the channel is full
SendFrame ==
    /\ task = "send" /\ queue < QUEUE_CAP
    /\ queue' = queue + 1
    /\ delivered' = delivered \o frame
    /\ frame' = <<>>
    /\ task' = "loop"
    /\ UNCHANGED <<deviceVars, acc, late, captured, broadcasting, shutdown>>

\* The receiver went away with the run: the task breaks, and drops its source.
SendFails ==
    /\ task = "send" /\ ~broadcasting
    /\ TaskEnds

SleepEnds ==
    /\ task = "sleep"
    /\ task' = "loop"
    /\ UNCHANGED <<deviceVars, readVars, queue, broadcasting, shutdown>>

\* select!: between two polls of the read the shutdown signal is heard
HearShutdown ==
    /\ shutdown /\ task \in {"loop", "yield"}
    /\ TaskEnds

\* (a fault: the task is not aborted when the broadcast loop ends)
AbortForgotten == FALSE

\* capture_handle.abort, which takes effect where the task waits; the source is
\* dropped with the task
Abort ==
    /\ ~broadcasting /\ task \in {"loop", "yield", "send", "sleep"}
    /\ TaskEnds

Broadcast ==
    /\ broadcasting /\ queue > 0
    /\ queue' = queue - 1
    /\ UNCHANGED <<deviceVars, readVars, task, broadcasting, shutdown>>

\* The loop ends at the signal, or because the encode worker is gone.
BroadcastEnds ==
    /\ broadcasting /\ task # "start"
    /\ broadcasting' = FALSE
    /\ queue' = 0
    /\ UNCHANGED <<deviceVars, readVars, task, shutdown>>

Shutdown ==
    /\ ~shutdown
    /\ shutdown' = TRUE
    /\ UNCHANGED <<deviceVars, readVars, task, queue, broadcasting>>

-----------------------------------------------------------------------------
StartStep ==
    BuildSource \/ ResolveDevice \/ (\E mix \in MixFormats : InitAudioClients(mix))
    \/ DoStart \/ DoStartFails

ReadStep ==
    BeginRead \/ ReadNotStarted \/ SyntheticRead \/ FillPacket \/ FillEmpty \/ FillFails
    \/ NullBuffer \/ ReleaseFails \/ PollAgain \/ SleepEnds

Next ==
    \/ StartStep \/ ReadStep \/ SendFrame \/ SendFails \/ DeadlinePasses
    \/ HearShutdown \/ Abort \/ Broadcast \/ BroadcastEnds \/ Shutdown
    \/ \E p \in Packet : DeviceDelivers(p)

Spec == Init /\ [][Next]_vars

\* The runtime schedules the task and the loop, time passes, and the loop hears
\* the signal it is subscribed to.
Fairness ==
    /\ WF_vars(StartStep)
    /\ WF_vars(ReadStep)
    /\ WF_vars(DeadlinePasses)
    /\ WF_vars(SendFrame)
    /\ WF_vars(shutdown /\ BroadcastEnds)
    /\ SF_vars(Abort)

FairSpec == Spec /\ Fairness

(***************************************************************************)
(* Properties.                                                             *)
(***************************************************************************)
TypeOK ==
    /\ source \in {"none", "synthetic", "windows_loopback"}
    /\ state \in CaptureSourceState
    /\ running \in BOOLEAN /\ late \in BOOLEAN
    /\ broadcasting \in BOOLEAN /\ shutdown \in BOOLEAN
    /\ endpoint \in Seq(Packet)
    /\ acc \in Seq(BOOLEAN) /\ frame \in Seq(BOOLEAN)
    /\ captured \in Seq(BOOLEAN) /\ delivered \in Seq(BOOLEAN)
    /\ task \in {"start", "loop", "fill", "yield", "send", "sleep", "ended"}
    /\ queue \in 0..QUEUE_CAP

\* The samples that have left the device: sent on, about to be sent, accumulated.
Taken == delivered \o frame \o acc

\* at says where among the captured samples each packet still in the device
\* begins: the packets follow what was taken, and each other, without a gap, and
\* every one holds the samples that were captured there.
Placed(at) ==
    /\ at[1] = Len(Taken)
    /\ at[Len(endpoint) + 1] = Len(captured)
    /\ \A i \in 1..Len(endpoint) :
           /\ at[i + 1] = at[i] + endpoint[i].n
           /\ \A k \in 1..endpoint[i].n : captured[at[i] + k] = endpoint[i].silent

\* Nothing the device captured is lost, repeated or moved on its way to the
\* channel: not by a read that is cancelled between two polls, by a padding
\* frame sent while the accumulator holds part of a frame, or by a packet that
\* ends inside a frame.  After a device error, which drops a packet or leaves one
\* both pushed and held, nothing more is sent, so that what was sent is a
\* beginning of what was captured whatever failed.  (read_frame, pop_frame,
\* set_failed)
NoSampleLost ==
    /\ Len(delivered \o frame) <= Len(captured)
    /\ \A k \in 1..Len(delivered \o frame) : (delivered \o frame)[k] = captured[k]
    /\ state = "Started" =>
           /\ Len(Taken) <= Len(captured)
           /\ \A k \in 1..Len(Taken) : Taken[k] = captured[k]
           /\ \E at \in [1..(Len(endpoint) + 1) -> 0..Len(captured)] : Placed(at)

\* The backlog of a source that runs grows only by what a packet has more than a
\* frame: whole frames stay behind in the accumulator only where the device's
\* packets are larger than the frames, as with the 5 ms frames of
\* ultra_low_latency.  (fill_accumulator_from_packets takes at most one frame per
\* packet.)
BacklogGrowth ==
    [][state' = "Started" /\ Len(acc') >= FRAME /\ acc' # acc
         => Len(acc') - Len(acc) <= MAX_PACKET - FRAME]_vars

\* A finished debug wav says how many samples it has: none are counted after the
\* header was written, whichever of the cap, stop and drop came first.
WavHeaderTrue == wav.finalized => wav.header = wav.written /\ wav.header <= wav.file

\* A read comes back, with a frame or an error, also when the device delivers
\* nothing at all.
ReadReturns == task = "fill" ~> task \in {"send", "sleep", "ended"}

\* When a run ends, whatever ended it, the device is released: also when the
\* task was blocked on a full channel that nobody reads any more, or was waiting
\* to ask a failed source again.
DeviceReleased == ~broadcasting ~> ~running /\ task = "ended"
=============================================================================
