--------------------------- MODULE ReverseChannel ---------------------------
(***************************************************************************)
(* The reverse channel of the server (reverse_channel.rs): a listener for  *)
(* the phone's microphone and a listener for control messages, each with   *)
(* one handler task per connection, over one shared ReverseChannelState.   *)
(* The desktop queues volume commands in that state                        *)
(* (LanAudioService::send_android_volume); the phone's side of the control *)
(* connection is ControlChannelService, that of the microphone             *)
(* MicCaptureService.                                                      *)
(*                                                                         *)
(* Data.  Volume commands are numbered in the order in which they are      *)
(* queued, and the number is also the volume, so that the volume a phone   *)
(* has tells which command it applied last.  A byte stream is a sequence   *)
(* of length headers (1..PHONE_FRAME, what the phone's encoder may return) *)
(* and payloads (DATA).  Levels, names, the warning about the virtual      *)
(* device and the volume that the desktop shows, which nothing here reads, *)
(* are left out.                                                           *)
(***************************************************************************)
EXTENDS Integers, Sequences

CONSTANTS
    Mics,            \* microphone connections, in the order of their use
    Controls,        \* control connections, in the order of their use
    MAX_COMMANDS,    \* bound: volume commands the user issues
    MAX_FRAMES,      \* bound: microphone frames on one connection
    PHONE_FRAME,     \* size of the phone's opusBuffer
    FRAME_BUF        \* size of the server's frame_buf

ASSUME BoundsTyped == /\ MAX_COMMANDS \in Nat /\ MAX_FRAMES \in Nat
                      /\ PHONE_FRAME \in Nat \ {0} /\ FRAME_BUF \in Nat \ {0}
ASSUME ConnectionsNumbered == Mics \subseteq Nat \ {0} /\ Controls \subseteq Nat \ {0}
ASSUME FrameFits == PHONE_FRAME <= FRAME_BUF

VARIABLES
    listening,       \* the listeners that accept: a subset of {"audio", "control"}
    stopped,         \* ReverseChannelServer::stop was called
    mic_active,      \* ReverseChannelState
    pending_volume_command,  \* ReverseChannelState (0: None)
    said_active,     \* the last writer of mic_active was a control message
    mic,             \* where the handler of each microphone connection is
    bytes,           \* what the phone sent and the handler has not read
    frames,          \* frames the phone has begun on a connection
    announced,       \* the phone wrote a length, and not yet its payload
    ctl,             \* where the handler of each control connection is
    taken,           \* the command a handler took from the state
    to_phone,        \* what is in flight to the phone on a control connection
    phone,           \* the connection ControlChannelService uses, 0 if none
    volume,          \* the phone's volume
    issued           \* commands issued so far

DATA == -1           \* a payload, as opposed to a length

sharedVars == <<mic_active, said_active>>
micVars == <<mic, bytes, frames, announced>>
ctlVars == <<ctl, taken, to_phone, phone, volume>>
vars == <<listening, stopped, sharedVars, pending_volume_command, micVars, ctlVars, issued>>

Init ==
    /\ listening \in SUBSET {"audio", "control"}   \* start: a bind may fail
    /\ stopped = FALSE
    /\ mic_active = FALSE /\ said_active = FALSE
    /\ pending_volume_command = 0
    /\ mic = [m \in Mics |-> "none"]
    /\ bytes = [m \in Mics |-> <<>>]
    /\ frames = [m \in Mics |-> 0]
    /\ announced = [m \in Mics |-> FALSE]
    /\ ctl = [c \in Controls |-> "none"]
    /\ taken = [c \in Controls |-> 0]
    /\ to_phone = [c \in Controls |-> <<>>]
    /\ phone = 0
    /\ volume = 0
    /\ issued = 0

(***************************************************************************)
(* Start and stop.                                                         *)
(***************************************************************************)

\* stop: signal both channels, abort the listeners, clear the flag.  Handlers
\* are not aborted: they see the closed channel when they next wait for it.  A
\* listener that another thread is running when it is aborted may still accept.
Stop ==
    /\ ~stopped
    /\ stopped' = TRUE
    /\ listening' \in SUBSET listening
    /\ mic_active' = FALSE
    /\ said_active' = FALSE
    /\ UNCHANGED <<pending_volume_command, micVars, ctlVars, issued>>

\* What is left of the listeners once one has accepted a connection.
AfterAccept(l) == IF stopped THEN listening \ {l} ELSE listening

(***************************************************************************)
(* Microphone connections.                                                 *)
(***************************************************************************)

\* The phone connects; the listener sets the flag and spawns a handler.
AcceptMic(m) ==
    /\ "audio" \in listening
    /\ mic[m] = "none"
    /\ \A k \in Mics : k < m => mic[k] # "none"
    /\ mic' = [mic EXCEPT ![m] = "opening"]
    /\ mic_active' = TRUE
    /\ said_active' = FALSE
    /\ listening' = AfterAccept("audio")
    /\ UNCHANGED <<stopped, pending_volume_command, bytes, frames, announced, ctlVars, issued>>

\* handle_audio_client has its decoder, and the named pipe if somebody serves it.
OpenPipe(m) ==
    /\ mic[m] = "opening"
    /\ mic' = [mic EXCEPT ![m] = "header"]
    /\ UNCHANGED <<listening, stopped, sharedVars, pending_volume_command, bytes, frames,
                   announced, ctlVars, issued>>

\* MicCaptureService writes the length of a frame ...
PhoneSendsLength(m, n) ==
    /\ mic[m] \in {"opening", "header", "payload"}
    /\ ~announced[m]
    /\ frames[m] < MAX_FRAMES
    /\ bytes' = [bytes EXCEPT ![m] = Append(@, n)]
    /\ frames' = [frames EXCEPT ![m] = @ + 1]
    /\ announced' = [announced EXCEPT ![m] = TRUE]
    /\ UNCHANGED <<listening, stopped, sharedVars, pending_volume_command, mic, ctlVars, issued>>

\* ... and then, in a second write, the frame.  The phone may stall or vanish
\* between the two.
PhoneSendsPayload(m) ==
    /\ mic[m] \in {"opening", "header", "payload"}
    /\ announced[m]
    /\ bytes' = [bytes EXCEPT ![m] = Append(@, DATA)]
    /\ announced' = [announced EXCEPT ![m] = FALSE]
    /\ UNCHANGED <<listening, stopped, sharedVars, pending_volume_command, mic, frames, ctlVars,
                   issued>>

\* (a fault: a frame that fills the buffer is refused)
ValidStrictly(n) == n # 0 /\ n < FRAME_BUF
ValidLength(n) == n # 0 /\ n <= FRAME_BUF

\* The handler reads four bytes as a length.  After a length it refuses it
\* goes on with the bytes that follow.
ReadHeader(m) ==
    /\ mic[m] = "header"
    /\ bytes[m] # <<>>
    /\ bytes' = [bytes EXCEPT ![m] = Tail(@)]
    /\ mic' = [mic EXCEPT ![m] = IF Head(bytes[m]) # DATA /\ ValidLength(Head(bytes[m]))
                                 THEN "payload" ELSE "header"]
    /\ UNCHANGED <<listening, stopped, sharedVars, pending_volume_command, frames, announced,
                   ctlVars, issued>>

\* The payload is read, decoded and written to the pipe; when one of the last
\* two fails the handler goes on.  The read does not listen to the shutdown
\* channel.
ReadPayload(m) ==
    /\ mic[m] = "payload"
    /\ bytes[m] # <<>>
    /\ bytes' = [bytes EXCEPT ![m] = Tail(@)]
    /\ mic' = [mic EXCEPT ![m] = "header"]
    /\ UNCHANGED <<listening, stopped, sharedVars, pending_volume_command, frames, announced,
                   ctlVars, issued>>

\* (a fault: the flag is cleared only when the handler was told to stop)
MicEndsKeepingFlag(m) ==
    /\ mic' = [mic EXCEPT ![m] = "ended"]
    /\ mic_active' = (mic_active /\ ~stopped)
    /\ said_active' = FALSE
    /\ bytes' = [bytes EXCEPT ![m] = <<>>]
    /\ frames' = [frames EXCEPT ![m] = 0]
    /\ announced' = [announced EXCEPT ![m] = FALSE]
    /\ UNCHANGED <<listening, stopped, pending_volume_command, ctlVars, issued>>

\* The handler returns, and its task clears the flag.
MicEnds(m) ==
    /\ mic' = [mic EXCEPT ![m] = "ended"]
    /\ mic_active' = FALSE
    /\ said_active' = FALSE
    /\ bytes' = [bytes EXCEPT ![m] = <<>>]
    /\ frames' = [frames EXCEPT ![m] = 0]
    /\ announced' = [announced EXCEPT ![m] = FALSE]
    /\ UNCHANGED <<listening, stopped, pending_volume_command, ctlVars, issued>>

\* (a fault: a handler that waits for the next frame is not told)
MicToldNever(m) == FALSE

\* Between two frames the handler hears of the shutdown.
MicTold(m) ==
    /\ stopped
    /\ mic[m] = "header"
    /\ MicEnds(m)

\* The phone closes the connection, it breaks, or no decoder can be made.
MicBreaks(m) ==
    /\ mic[m] \in {"opening", "header", "payload"}
    /\ MicEnds(m)

(***************************************************************************)
(* Control connections and the volume.                                     *)
(***************************************************************************)

\* send_android_volume
QueueVolume ==
    /\ issued < MAX_COMMANDS
    /\ ~stopped
    /\ issued' = issued + 1
    /\ pending_volume_command' = issued + 1
    /\ UNCHANGED <<listening, stopped, sharedVars, micVars, ctlVars>>

\* ControlChannelService connects, after its old connection ended, (and reports
\* the volume it has).
PhoneConnects(c) ==
    /\ "control" \in listening
    /\ phone = 0
    /\ ctl[c] = "none"
    /\ \A k \in Controls : k < c => ctl[k] # "none"
    /\ phone' = c
    /\ ctl' = [ctl EXCEPT ![c] = "flush"]
    /\ listening' = AfterAccept("control")
    /\ UNCHANGED <<stopped, sharedVars, pending_volume_command, micVars, taken, to_phone,
                   volume, issued>>

\* The handler takes the pending command out of the state ...
TakePending(c) ==
    /\ ctl[c] = "flush"
    /\ taken' = [taken EXCEPT ![c] = pending_volume_command]
    /\ pending_volume_command' = 0
    /\ ctl' = [ctl EXCEPT ![c] = IF pending_volume_command = 0 THEN "loop" ELSE "writing"]
    /\ UNCHANGED <<listening, stopped, sharedVars, micVars, to_phone, phone, volume, issued>>

\* ... and writes it.  When the write fails the command is lost.
WriteFails(c) ==
    /\ ctl[c] = "writing"
    /\ ctl' = [ctl EXCEPT ![c] = "loop"]
    /\ taken' = [taken EXCEPT ![c] = 0]
    /\ UNCHANGED <<listening, stopped, sharedVars, pending_volume_command, micVars,
                   to_phone, phone, volume, issued>>

WriteCommand(c) ==
    /\ ctl[c] = "writing"
    /\ ctl' = [ctl EXCEPT ![c] = "loop"]
    /\ taken' = [taken EXCEPT ![c] = 0]
    /\ to_phone' = [to_phone EXCEPT ![c] = Append(@, taken[c])]
    /\ UNCHANGED <<listening, stopped, sharedVars, pending_volume_command, micVars,
                   phone, volume, issued>>

\* A mic_active message.  The others change the levels, the device name and the
\* volume that the desktop shows, which nothing here reads.
ReadMicActive(c, active) ==
    /\ ctl[c] = "loop"
    /\ mic_active' = active
    /\ said_active' = active
    /\ UNCHANGED <<listening, stopped, pending_volume_command, micVars, ctlVars, issued>>

\* (a fault: the listener of a connection that was left goes on)
PhoneAppliesAnywhere(c) ==
    /\ to_phone[c] # <<>>
    /\ volume' = Head(to_phone[c])
    /\ to_phone' = [to_phone EXCEPT ![c] = Tail(@)]
    /\ UNCHANGED <<listening, stopped, sharedVars, pending_volume_command, micVars, ctl, taken,
                   phone, issued>>

\* The phone applies a set_volume command.
PhoneApplies(c) ==
    /\ phone = c
    /\ to_phone[c] # <<>>
    /\ volume' = Head(to_phone[c])
    /\ to_phone' = [to_phone EXCEPT ![c] = Tail(@)]
    /\ UNCHANGED <<listening, stopped, sharedVars, pending_volume_command, micVars, ctl, taken,
                   phone, issued>>

\* The phone leaves its connection: what was sent to it there is lost.  The
\* handler finds out when it reads or writes next.
PhoneLeaves(c) ==
    /\ phone = c
    /\ phone' = 0
    /\ to_phone' = [to_phone EXCEPT ![c] = <<>>]
    /\ UNCHANGED <<listening, stopped, sharedVars, pending_volume_command, micVars, ctl, taken,
                   volume, issued>>

\* End of file, a read error, or the shutdown.
ControlEnds(c) ==
    /\ ctl[c] = "loop"
    /\ phone # c \/ stopped
    /\ ctl' = [ctl EXCEPT ![c] = "ended"]
    /\ UNCHANGED <<listening, stopped, sharedVars, pending_volume_command, micVars, taken, to_phone,
                   phone, volume, issued>>

-----------------------------------------------------------------------------
MicStep(m) ==
    \/ AcceptMic(m) \/ OpenPipe(m) \/ ReadHeader(m) \/ ReadPayload(m)
    \/ MicTold(m) \/ MicBreaks(m) \/ PhoneSendsPayload(m)
    \/ \E n \in 1..PHONE_FRAME : PhoneSendsLength(m, n)

ControlStep(c) ==
    \/ PhoneConnects(c) \/ TakePending(c) \/ WriteFails(c) \/ WriteCommand(c)
    \/ PhoneApplies(c) \/ PhoneLeaves(c) \/ ControlEnds(c)
    \/ \E active \in BOOLEAN : ReadMicActive(c, active)

Next == \/ Stop
        \/ QueueVolume
        \/ \E m \in Mics : MicStep(m)
        \/ \E c \in Controls : ControlStep(c)

Spec == Init /\ [][Next]_vars

\* Handler tasks are scheduled; nothing is assumed about when a phone connects,
\* writes or leaves, nor that a frame it has begun arrives.
Fairness ==
    /\ \A m \in Mics : /\ WF_vars(OpenPipe(m))
                       /\ WF_vars(ReadHeader(m) \/ ReadPayload(m))
                       /\ SF_vars(MicTold(m))
    /\ \A c \in Controls : /\ WF_vars(TakePending(c) \/ WriteCommand(c) \/ WriteFails(c))
                           /\ WF_vars(ControlEnds(c))

FairSpec == Spec /\ Fairness

(***************************************************************************)
(* Properties.                                                             *)
(***************************************************************************)

\* Whenever a handler waits for a length, what comes next in its stream is a
\* length, and where it waits for a payload, the payload comes next or is still
\* to be written: no frame the phone can send makes the reader lose the framing,
\* although a refused length is followed by no skip of its payload.
FramingKept ==
    \A m \in Mics :
        /\ mic[m] = "header" /\ bytes[m] # <<>> => Head(bytes[m]) # DATA
        /\ mic[m] = "payload" => IF bytes[m] = <<>> THEN announced[m] ELSE Head(bytes[m]) = DATA

\* The microphone is not shown as active when no handler serves one, unless a
\* control message said so: every way out of a handler, and a stop that races
\* the acceptance of a connection, clears the flag.
MicFlagCleared ==
    mic_active /\ ~said_active => \E m \in Mics : mic[m] \in {"opening", "header", "payload"}

\* The phone never applies an older volume command after a newer one, although
\* several handlers may hold commands at the same time and a write may take
\* arbitrarily long.
CommandsInOrder == [][volume' >= volume]_vars

\* A handler that waits for a payload the phone has announced and not written.
InsideFrame(m) == mic[m] = "payload" /\ bytes[m] = <<>>

\* After stop all handlers end, whatever they were doing when the signal was sent
\* (accepting, opening the pipe, between two frames, in the middle of one that
\* has arrived), except those that the phone leaves waiting inside a frame: the
\* payload read does not listen to the shutdown channel, although stop says
\* "Signal all tasks to stop and abort them".
StopHeard ==
    stopped ~> /\ \A m \in Mics : mic[m] \in {"none", "ended"} \/ InsideFrame(m)
               /\ \A c \in Controls : ctl[c] \in {"none", "ended"}
=============================================================================
