--------------------------- MODULE AdaptiveRuntime ---------------------------
(***************************************************************************)
(* Adaptive degradation: the watchdog that chooses a tier from predicted   *)
(* load (CpuWatchdog::tick, called by AdaptiveRuntime::tick every 500 ms), *)
(* the slot it publishes the tier in, the transport task that stamps it    *)
(* on each encode job, and the encode worker that re-baselines its pool of *)
(* encoders when the stamp changes.                                        *)
(*                                                                         *)
(* Data.  A tier is its tier_index (0 green, 1 yellow, 2 red).  An encoder *)
(* is the settings of its Opus library encoder and its PCM16 override; the *)
(* codec and the sample rate of the pool's key are left out.  The load     *)
(* signals are reduced to the zone of each against its thresholds; the     *)
(* predictor and the Kalman filter are not modelled, so any forecast may   *)
(* follow any other.  healthy_streak counts ticks and stops at             *)
(* UPGRADE_HOLD, because it is only ever compared with it.                 *)
(***************************************************************************)
EXTENDS Integers, Sequences

CONSTANTS
    Modes,            \* audio modes some client uses
    UPGRADE_HOLD,     \* upgrade_hold / cadence (6 in the code)
    MAX_JOBS,         \* bound: jobs queued for the worker
    None

ASSUME HoldPositive == UPGRADE_HOLD \in Nat \ {0}
ASSUME JobsBounded == MAX_JOBS \in Nat \ {0}

AudioModes == {"ultra_low_latency", "low_latency", "balanced", "high_quality"}
ASSUME ModesAreAudioModes == Modes \subseteq AudioModes

Green == 0
Yellow == 1
Red == 2
Tiers == Green..Red

\* predicted_cpu below, in or above the yellow band; a drop streak of
\* red_drop_streak frames or not; the queue fill ratio likewise.
Signals == [cpu : Tiers, drop_streak : {"short", "long"}, queue : Tiers]

VARIABLES
    tier,             \* CpuWatchdog.tier
    healthy_streak,
    integral_frozen,  \* ResamplePidController.integral_frozen, as 0 or 1
    current_tier,     \* the published slot
    jobs,             \* jobs queued for the worker
    last_applied_tier,
    encoders,         \* each mode's encoder, None if not built
    demand,           \* history: the tier the last tick's load called for
    settled,          \* history: ticks since the tier last changed
    clock             \* the interval timer: flips with every tick

watchdogVars == <<tier, healthy_streak, integral_frozen, current_tier, demand,
                  settled, clock>>
poolVars == <<jobs, last_applied_tier, encoders>>
vars == <<watchdogVars, poolVars>>

AtMost(n, cap) == IF n > cap THEN cap ELSE n

\* apply_opus_mode_settings, opus_application: what an Opus encoder of a mode
\* is set to.
ModeSettings(m) ==
    CASE m = "ultra_low_latency" ->
            [application |-> "low_delay", bitrate_bps |-> 48000, complexity |-> 0, use_vbr |-> FALSE]
      [] m = "low_latency" ->
            [application |-> "low_delay", bitrate_bps |-> 64000, complexity |-> 1, use_vbr |-> FALSE]
      [] m = "balanced" ->
            [application |-> "audio", bitrate_bps |-> 96000, complexity |-> 2, use_vbr |-> TRUE]
      [] m = "high_quality" ->
            [application |-> "audio", bitrate_bps |-> 128000, complexity |-> 4, use_vbr |-> TRUE]

\* The baseline table of tier_encoder_profile, which repeats those settings.
Baseline(m) ==
    CASE m = "ultra_low_latency" -> [bitrate_bps |-> 48000, complexity |-> 0, use_vbr |-> FALSE]
      [] m = "low_latency"       -> [bitrate_bps |-> 64000, complexity |-> 1, use_vbr |-> FALSE]
      [] m = "balanced"          -> [bitrate_bps |-> 96000, complexity |-> 2, use_vbr |-> TRUE]
      [] m = "high_quality"      -> [bitrate_bps |-> 128000, complexity |-> 4, use_vbr |-> TRUE]

\* tier_encoder_profile
TierEncoderProfile(t, m) ==
    LET base == Baseline(m) IN
    CASE t = Green  -> [bitrate_bps |-> base.bitrate_bps, complexity |-> base.complexity,
                        use_vbr |-> base.use_vbr, force_pcm16_fallback |-> FALSE]
      [] t = Yellow -> [bitrate_bps |-> AtMost(base.bitrate_bps, 96000),
                        complexity |-> AtMost(base.complexity, 2),
                        use_vbr |-> FALSE, force_pcm16_fallback |-> FALSE]
      [] t = Red    -> [bitrate_bps |-> 64000, complexity |-> 1,
                        use_vbr |-> FALSE, force_pcm16_fallback |-> TRUE]

\* AudioFrameEncoder::new: an encoder no profile has been applied to.
NewEncoder(m) ==
    LET opus == ModeSettings(m) IN
    [application |-> opus.application, bitrate_bps |-> opus.bitrate_bps,
     complexity |-> opus.complexity, use_vbr |-> opus.use_vbr,
     force_pcm16_fallback |-> FALSE]

\* apply_tier_profile: the settings of the mode, then the profile over them.
ApplyTierProfile(profile, m) ==
    [application |-> ModeSettings(m).application, bitrate_bps |-> profile.bitrate_bps,
     complexity |-> profile.complexity, use_vbr |-> profile.use_vbr,
     force_pcm16_fallback |-> profile.force_pcm16_fallback]

EncoderAt(t, m) == ApplyTierProfile(TierEncoderProfile(t, m), m)

Encoders == [application : {"low_delay", "audio"}, bitrate_bps : {48000, 64000, 96000, 128000},
             complexity : {0, 1, 2, 4}, use_vbr : BOOLEAN, force_pcm16_fallback : BOOLEAN]
ASSUME NoneIsNoEncoder == None \notin Encoders

\* set_green, set_yellow: the PID's integrator is frozen off green.
Frozen(t) == IF t = Green THEN 0 ELSE 1

\* compute_desired_tier
DesiredTier(sig) ==
    IF sig.cpu = Red \/ sig.drop_streak = "long" \/ sig.queue = Red THEN Red
    ELSE IF sig.cpu = Yellow \/ sig.queue = Yellow THEN Yellow
    ELSE Green

\* (a fault: a demotion needs the hold too)
NextTierSlow(desired) ==
    IF desired = tier THEN <<tier, healthy_streak>>
    ELSE IF healthy_streak + 1 >= UPGRADE_HOLD THEN <<desired, 0>>
    ELSE <<tier, healthy_streak + 1>>

\* (a fault: the streak survives a change of tier)
NextTierKeepingStreak(desired) ==
    LET streak == AtMost(healthy_streak + 1, UPGRADE_HOLD) IN
    CASE desired > tier -> <<desired, healthy_streak>>
      [] desired < tier -> IF streak >= UPGRADE_HOLD THEN <<desired, streak>>
                                                     ELSE <<tier, streak>>
      [] desired = tier -> IF tier = Green THEN <<tier, 0>> ELSE <<tier, streak>>

\* (a fault: a tick that does not call for a promotion resets the streak, and
\* so does one that does)
NextTierNeverUp(desired) ==
    IF desired > tier THEN <<desired, 0>> ELSE <<tier, 0>>

\* The match in CpuWatchdog::tick: the new tier and the new streak.
NextTier(desired) ==
    LET streak == AtMost(healthy_streak + 1, UPGRADE_HOLD) IN
    CASE desired > tier -> <<desired, 0>>
      [] desired < tier -> IF streak >= UPGRADE_HOLD THEN <<desired, 0>>
                                                     ELSE <<tier, streak>>
      [] desired = tier -> IF tier = Green THEN <<tier, 0>> ELSE <<tier, streak>>

Init ==
    /\ tier = Green
    /\ healthy_streak = 0
    /\ integral_frozen = 0
    /\ current_tier = Green
    /\ jobs = <<>>
    /\ last_applied_tier = Green
    /\ encoders = [m \in Modes |-> None]
    /\ demand = Green
    /\ settled = 0
    /\ clock = 0

\* One tick of the watchdog task: decide, tune the PID, publish.
Tick(sig) ==
    LET next == NextTier(DesiredTier(sig)) IN
    /\ tier' = next[1]
    /\ healthy_streak' = next[2]
    /\ integral_frozen' = Frozen(next[1])
    /\ current_tier' = next[1]
    /\ demand' = DesiredTier(sig)
    /\ settled' = IF next[1] = tier THEN AtMost(settled + 1, UPGRADE_HOLD) ELSE 0
    /\ clock' = 1 - clock
    /\ UNCHANGED poolVars

\* The transport task stamps a job for clients of some modes with the
\* published tier.
Capture(ms) ==
    /\ Len(jobs) < MAX_JOBS
    /\ jobs' = Append(jobs, [modes |-> ms, tier |-> current_tier])
    /\ UNCHANGED <<watchdogVars, last_applied_tier, encoders>>

\* (a fault: a new encoder keeps the settings of its mode)
EncoderPoolNewAtBaseline(job) ==
    [m \in Modes |->
        IF encoders[m] # None
        THEN IF job.tier # last_applied_tier THEN EncoderAt(job.tier, m) ELSE encoders[m]
        ELSE IF m \in job.modes THEN NewEncoder(m) ELSE None]

\* The pool after a job: every encoder is re-baselined when the stamp differs
\* from the last one, and a missing encoder is built with the stamp's profile.
EncoderPool(job) ==
    [m \in Modes |->
        IF encoders[m] # None
        THEN IF job.tier # last_applied_tier THEN EncoderAt(job.tier, m) ELSE encoders[m]
        ELSE IF m \in job.modes THEN EncoderAt(job.tier, m) ELSE None]

Encode ==
    /\ jobs # <<>>
    /\ encoders' = EncoderPool(Head(jobs))
    /\ last_applied_tier' = Head(jobs).tier
    /\ jobs' = Tail(jobs)
    /\ UNCHANGED watchdogVars

Next ==
    \/ \E sig \in Signals : Tick(sig)
    \/ \E ms \in (SUBSET Modes) \ {{}} : Capture(ms)
    \/ Encode

\* The watchdog task is driven by an interval timer, the capture loop by the
\* audio device and the worker by its channel: none of them stops.  Because
\* clock flips, a tick that decides nothing new still counts as one.
Fairness ==
    /\ WF_vars(\E sig \in Signals : Tick(sig))
    /\ WF_vars(\E ms \in (SUBSET Modes) \ {{}} : Capture(ms))
    /\ WF_vars(Encode)

Spec == Init /\ [][Next]_vars
FairSpec == Spec /\ Fairness

(***************************************************************************)
(* Properties.                                                             *)
(***************************************************************************)

\* Type invariant.
TypeOK ==
    /\ tier \in Tiers /\ current_tier \in Tiers /\ demand \in Tiers
    /\ last_applied_tier \in Tiers
    /\ healthy_streak \in 0..UPGRADE_HOLD
    /\ settled \in 0..UPGRADE_HOLD
    /\ clock \in {0, 1}
    /\ integral_frozen \in {0, 1}
    /\ jobs \in Seq([modes : SUBSET Modes, tier : Tiers])
    /\ encoders \in [Modes -> Encoders \cup {None}]

\* Degradation is always immediate (tick): the published tier is never better
\* than what the load of the last tick called for, whatever came before.
NeverBelowDemand == tier >= demand /\ current_tier = tier

\* A promotion never follows the last change of tier within the hold window
\* (upgrade_hold), so the tier cannot flap however the load oscillates.
PromotionSpaced == [][tier' < tier => settled + 1 >= UPGRADE_HOLD]_vars

\* Every encoder of the pool has the profile of the tier applied last, however
\* jobs stamped with different tiers, new modes and old encoders interleave:
\* no client keeps a stale bitrate or a stale PCM16 fallback.
PoolAtAppliedTier ==
    \A m \in Modes : encoders[m] # None => encoders[m] = EncoderAt(last_applied_tier, m)

\* Once the load stays low, the watchdog comes back to green and the worker's
\* encoders to the settings their mode had before any degradation: the two
\* tables of settings (transport.rs, adaptive_runtime.rs) agree.
Recovers ==
    <>[](demand = Green) =>
        <>[](tier = Green /\ \A m \in Modes : encoders[m] \in {None, NewEncoder(m)})

\* The invariant behind the theorems of AdaptiveRuntimeProofs.
WatchdogInv ==
    /\ TypeOK
    /\ NeverBelowDemand
    /\ PoolAtAppliedTier
    /\ healthy_streak <= settled
=============================================================================
