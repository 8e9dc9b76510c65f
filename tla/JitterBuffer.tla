---------------------------- MODULE JitterBuffer ----------------------------
(***************************************************************************)
(* The receiving side on Android: PlaybackJitterBuffer between the thread  *)
(* that receives packets (handleUdpPacket) and the playout thread          *)
(* (playoutTick), fed by a network that loses, duplicates and reorders.    *)
(* The methods of the buffer are synchronized, so each call is one step,   *)
(* and the two threads interleave between calls.                           *)
(*                                                                         *)
(* Data.  A frame is the number the server produced it under; its wire     *)
(* sequence is that number modulo MOD (2^32 in the code).  Durations are   *)
(* counted in frames.  The clock only matters to the 250 ms observation    *)
(* window of the latency trim: whether it has passed is left free.         *)
(* Statistics are left out.                                                *)
(***************************************************************************)
EXTENDS Integers, FiniteSets, Functions

CONSTANTS
    MOD,              \* size of the sequence space, even
    FIRST,            \* number of the first frame
    MAX_PRODUCED,     \* bound: number of the last frame
    Profiles,         \* buffer profiles of the audio modes
    BATCH,            \* PlaybackOptions.batchFrames
    MAX_DROP,         \* most frames the latency guard drops at once
    None

HALF == MOD \div 2
Seqs == 0..(MOD - 1)

\* floor is the largest fill at which pop holds (HARD_FLOOR_MS); -1 when the
\* session is not low_latency over USB.
Profile == [start : Nat, max : Nat, threshold : Nat, floor : Nat \cup {-1}]

ASSUME SpaceEven == MOD \in Nat /\ MOD > 2 /\ MOD = 2 * HALF
ASSUME BoundsNat == FIRST \in Nat /\ MAX_PRODUCED \in Nat /\ MAX_DROP \in Nat \ {0}
                    /\ BATCH \in Nat \ {0}
\* reconfigure coerces the profile it is given to this; the start buffer of
\* low_latency over USB (100 ms) is above the hard floor (8 ms).
ASSUME ProfilesCoerced ==
    /\ Profiles \subseteq Profile
    /\ \A p \in Profiles : /\ p.start >= 1 /\ p.start > p.floor
                          /\ p.max >= p.start /\ p.threshold >= p.start
ASSUME NoneIsNoSequence == None \notin Nat

VARIABLES
    produced,         \* number of the newest frame produced
    marked,           \* frames sent with the discontinuity flag
    net,              \* frames on their way
    receiving,        \* the packet handleUdpPacket is working on, or None
    frames,           \* the TreeMap: sequence -> frame
    playoutStarted,
    expectedSequence,
    overflow,         \* overflowSinceMs # 0
    profile,
    batch,            \* frames popped in the current playoutTick, 0 between ticks
    last              \* history: newest frame played in this run, or None

netVars == <<produced, marked, net, receiving>>
vars == <<netVars, frames, playoutStarted, expectedSequence, overflow, profile,
          batch, last>>

-----------------------------------------------------------------------------
(* Serial number arithmetic.                                               *)

\* compareSeq(a, b) = -1
Before(a, b) == a # b /\ (a - b) % MOD >= HALF

\* (a fault: numbers compared as they are)
IsOlderNoWrap(a, b) == a < b

IsOlder(a, b) == (a - b) % MOD > HALF

\* (a fault: the next number does not wrap)
NextSeqNoWrap(a) == a + 1

NextSeq(a) == (a + 1) % MOD

\* firstKey of the TreeMap
FirstKey(f) == CHOOSE k \in DOMAIN f : \A j \in DOMAIN f \ {k} : Before(k, j)

Size(f) == Cardinality(DOMAIN f)

\* pollFirstEntry until at most n entries are left
Newest(f, n) ==
    Restrict(f, {k \in DOMAIN f : Cardinality({j \in DOMAIN f : Before(k, j)}) < n})

Without(f, k) == Restrict(f, DOMAIN f \ {k})

-----------------------------------------------------------------------------
NoFrames == [k \in {} |-> 0]

Init ==
    /\ produced = FIRST
    /\ marked = {FIRST}
    /\ net = {FIRST}
    /\ receiving = None
    /\ frames = NoFrames
    /\ playoutStarted = FALSE
    /\ expectedSequence = None
    /\ overflow = FALSE
    /\ profile \in Profiles
    /\ batch = 0
    /\ last = None

(***************************************************************************)
(* The server and the network.                                             *)
(***************************************************************************)

\* The number behind expectedSequence, which is at most one ahead.
ExpectedFrame == CHOOSE n \in (produced + 2 - MOD)..(produced + 1) :
                     n % MOD = expectedSequence

\* Frames the receiver may still be confronted with.
InPlay == net \cup Range(frames) \cup ({receiving} \ {None})
          \cup (IF expectedSequence = None THEN {} ELSE {ExpectedFrame})

\* Serial numbers only make sense while everything in play spans less than
\* half of the sequence space, the expected frame (one ahead) included: 2^31
\* packets, some 248 days, in the code.
Produce(mark) ==
    /\ produced < MAX_PRODUCED
    /\ \A n \in InPlay : produced + 2 - n < HALF
    /\ produced' = produced + 1
    /\ net' = net \cup {produced + 1}
    /\ marked' = IF mark THEN marked \cup {produced + 1} ELSE marked
    /\ UNCHANGED <<receiving, frames, playoutStarted, expectedSequence, overflow,
                   profile, batch, last>>

Lose(n) ==
    /\ n \in net
    /\ net' = net \ {n}
    /\ UNCHANGED <<produced, marked, receiving, frames, playoutStarted,
                   expectedSequence, overflow, profile, batch, last>>

(***************************************************************************)
(* The receiving thread.                                                   *)
(***************************************************************************)

\* clear
ClearBuffer ==
    /\ frames' = NoFrames
    /\ playoutStarted' = FALSE
    /\ expectedSequence' = None
    /\ overflow' = FALSE
    /\ last' = None

\* (a fault: the latency tail is not looked at)
TrimFramesOnly(f, p, elapsed) ==
    /\ frames' = Newest(f, p.max)
    /\ UNCHANGED <<expectedSequence, overflow>>

\* trimIfNeeded, then trimLatencyTailIfNeeded, on the frames f; elapsed says
\* that the observation window has passed.  The threshold is at least one
\* frame, so some frame is always left.
Trim(f, p, elapsed) ==
    LET g == Newest(f, p.max)
        h == Newest(g, p.threshold)
        oldest == FirstKey(h)
    IN
    IF Size(g) <= p.threshold
    THEN /\ frames' = g
         /\ overflow' = FALSE
         /\ UNCHANGED expectedSequence
    ELSE IF ~overflow \/ ~elapsed
    THEN /\ frames' = g
         /\ overflow' = TRUE
         /\ UNCHANGED expectedSequence
    ELSE /\ frames' = h
         /\ overflow' = FALSE
         /\ expectedSequence' =
                IF expectedSequence = None \/ IsOlder(expectedSequence, oldest)
                THEN oldest ELSE expectedSequence

\* push: a duplicate or a late frame is ignored.  (It still sets frameDurationMs,
\* which durations are converted with; here every frame has the same one.)
Push(n, elapsed) ==
    LET seq == n % MOD IN
    IF \/ seq \in DOMAIN frames
       \/ expectedSequence # None /\ IsOlder(seq, expectedSequence)
    THEN UNCHANGED <<frames, expectedSequence, overflow>>
    ELSE Trim([k \in DOMAIN frames \cup {seq} |-> IF k = seq THEN n ELSE frames[k]],
              profile, elapsed)

\* The next packet, which may be delivered again later.  One with a flag
\* (discontinuity, config_changed) clears the buffer before it is decoded.
Receive(n, again) ==
    /\ receiving = None
    /\ n \in net
    /\ receiving' = n
    /\ net' = IF again THEN net ELSE net \ {n}
    /\ IF n \in marked
       THEN ClearBuffer
       ELSE UNCHANGED <<frames, playoutStarted, expectedSequence, overflow, last>>
    /\ UNCHANGED <<produced, marked, profile, batch>>

\* Its frame is pushed, unless it cannot be decoded.
PushDecoded(elapsed) ==
    /\ receiving # None
    /\ receiving' = None
    /\ Push(receiving, elapsed)
    /\ UNCHANGED <<produced, marked, net, playoutStarted, profile, batch, last>>

DecodeFails ==
    /\ receiving # None
    /\ receiving' = None
    /\ UNCHANGED <<produced, marked, net, frames, playoutStarted, expectedSequence,
                   overflow, profile, batch, last>>

(***************************************************************************)
(* The playout thread.                                                     *)
(***************************************************************************)

Starting == ~playoutStarted /\ Size(frames) >= profile.start
PopKey == IF Starting THEN FirstKey(frames) ELSE expectedSequence

\* The hard floor of low_latency over USB: pop then returns without a change,
\* because playout is never started that low.
Held == Size(frames) <= profile.floor

\* pop takes the expected frame, or skips to the oldest one there is.
PopFrame ==
    LET k == IF PopKey \in DOMAIN frames THEN PopKey ELSE FirstKey(frames) IN
    /\ batch = 0
    /\ playoutStarted \/ Starting
    /\ ~Held
    /\ frames # NoFrames
    /\ playoutStarted' = TRUE
    /\ frames' = Without(frames, k)
    /\ expectedSequence' = NextSeq(k)
    /\ last' = frames[k]
    /\ batch' = 1
    /\ UNCHANGED <<netVars, overflow, profile>>

\* (a fault: playout stays started without an expected frame)
PopUnderrunStarted ==
    /\ batch = 0
    /\ playoutStarted
    /\ ~Held
    /\ frames = NoFrames
    /\ expectedSequence' = None
    /\ last' = None
    /\ UNCHANGED <<netVars, playoutStarted, frames, overflow, profile, batch>>

\* Nothing left: playout stops and buffers again.
PopUnderrun ==
    /\ batch = 0
    /\ playoutStarted
    /\ ~Held
    /\ frames = NoFrames
    /\ playoutStarted' = FALSE
    /\ expectedSequence' = None
    /\ last' = None
    /\ UNCHANGED <<netVars, frames, overflow, profile, batch>>

\* collectWritePayload: more frames for the same write, if contiguous.
PopContiguousForBatch ==
    /\ batch \in 1..(BATCH - 1)
    /\ playoutStarted
    /\ expectedSequence \in DOMAIN frames
    /\ frames' = Without(frames, expectedSequence)
    /\ expectedSequence' = NextSeq(expectedSequence)
    /\ last' = frames[expectedSequence]
    /\ batch' = batch + 1
    /\ UNCHANGED <<netVars, playoutStarted, overflow, profile>>

\* The end of a tick without overflow, and with it: dropOldestMs of the
\* latency guard, d frames.
EndTick ==
    /\ batch > 0
    /\ batch' = 0
    /\ UNCHANGED <<netVars, frames, playoutStarted, expectedSequence, overflow,
                   profile, last>>

DropOldest(d) ==
    LET left == Newest(frames, Size(frames) - d) IN
    /\ batch > 0
    /\ frames # NoFrames
    /\ batch' = 0
    /\ frames' = left
    /\ IF expectedSequence = None \/ left # NoFrames
       THEN /\ expectedSequence' =
                   IF expectedSequence # None /\ IsOlder(expectedSequence, FirstKey(left))
                   THEN FirstKey(left) ELSE expectedSequence
            /\ UNCHANGED <<playoutStarted, last>>
       ELSE /\ expectedSequence' = None
            /\ playoutStarted' = FALSE
            /\ last' = None
    /\ UNCHANGED <<netVars, overflow, profile>>

(***************************************************************************)
(* The control thread.                                                     *)
(***************************************************************************)

\* reconfigure: another mode's profile, a larger start buffer, or the same
\* profile again (PlaybackSessionRuntime calls it whenever it applies a mode).
Reconfigure(p, elapsed) ==
    /\ profile' = p
    /\ Trim(frames, p, elapsed)
    /\ UNCHANGED <<netVars, playoutStarted, batch, last>>

\* clear on reconnect, on stop and when the audio backend is rebuilt
Clear == ClearBuffer /\ UNCHANGED <<netVars, profile, batch>>

-----------------------------------------------------------------------------
Network == \/ \E mark \in BOOLEAN : Produce(mark)
           \/ \E n \in net : Lose(n)

Receiving == \/ \E n \in net, again \in BOOLEAN : Receive(n, again)
             \/ \E elapsed \in BOOLEAN : PushDecoded(elapsed)
             \/ DecodeFails

Playing == \/ PopFrame \/ PopUnderrun
           \/ PopContiguousForBatch
           \/ EndTick
           \/ \E d \in 1..MAX_DROP : DropOldest(d)

Controlling == \/ \E p \in Profiles, elapsed \in BOOLEAN : Reconfigure(p, elapsed)
               \/ Clear

Next == Network \/ Receiving \/ Playing \/ Controlling

Spec == Init /\ [][Next]_vars

(***************************************************************************)
(* Properties.                                                             *)
(***************************************************************************)

\* Type invariant.
TypeOK ==
    /\ produced \in Nat
    /\ marked \subseteq Nat /\ net \subseteq Nat
    /\ receiving \in Nat \cup {None}
    /\ DOMAIN frames \subseteq Seqs
    /\ frames \in [DOMAIN frames -> Nat]
    /\ playoutStarted \in BOOLEAN
    /\ expectedSequence \in Seqs \cup {None}
    /\ overflow \in BOOLEAN
    /\ profile \in Profiles
    /\ batch \in 0..BATCH
    /\ last \in Nat \cup {None}

\* The listener's promise: between two resets of the buffer, frames are played
\* in the order they were produced and none twice, whatever is lost,
\* duplicated or reordered, although trims and drops move the expected frame
\* and sequence numbers wrap (push, pop, dropOldestMs, trimLatencyTailIfNeeded).
Promise == INSTANCE OrderedPlayout WITH produced <- produced, last <- last
PlaysInOrder == Promise!Spec

\* Once playout has started there is an expected frame.  Without one, pop
\* would return null on every tick from then on ("expectedSequence ?: return
\* null") and the phone would stay silent with a full buffer.
PlayoutNeverStuck == playoutStarted => expectedSequence # None

\* The buffer never holds more than the profile in force allows, also right
\* after a switch to a smaller one, and while it holds more than the drop
\* threshold the observation window is running that will trim it.
LatencyBounded ==
    /\ Size(frames) <= profile.max
    /\ Size(frames) > profile.threshold => overflow
=============================================================================
