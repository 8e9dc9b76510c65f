------------------------ MODULE AdaptiveRuntimeProofs ------------------------
(***************************************************************************)
(* Theorems about AdaptiveRuntime for every set of modes, every hold       *)
(* window and every queue bound.  The history variable settled bounds the  *)
(* streak from above: both grow by at most one per tick, and a change of   *)
(* tier resets both.                                                       *)
(***************************************************************************)
EXTENDS AdaptiveRuntime, TLAPS

\* The load always calls for one of the three tiers.
LEMMA DesiredTierType ==
    ASSUME NEW sig \in Signals
    PROVE  DesiredTier(sig) \in Tiers
BY DEF DesiredTier, Tiers, Green, Yellow, Red

\* What one tick may do to tier and streak: it never ends below the demand, a
\* promotion needs a full streak, and the streak grows by at most one and is
\* zero after a change.
LEMMA NextTierFacts ==
    ASSUME TypeOK, NEW d \in Tiers
    PROVE  LET n == NextTier(d) IN
           /\ n[1] \in Tiers /\ n[2] \in 0..UPGRADE_HOLD
           /\ n[1] >= d
           /\ n[1] < tier => healthy_streak + 1 >= UPGRADE_HOLD
           /\ n[1] # tier => n[2] = 0
           /\ n[2] <= healthy_streak + 1
<1> DEFINE streak == AtMost(healthy_streak + 1, UPGRADE_HOLD)
<1>1. /\ tier \in 0..2 /\ d \in 0..2 /\ healthy_streak \in 0..UPGRADE_HOLD
      /\ UPGRADE_HOLD \in Nat \ {0}
  BY HoldPositive DEF TypeOK, Tiers, Green, Red
<1>2. /\ streak \in 0..UPGRADE_HOLD
      /\ streak <= healthy_streak + 1
      /\ streak >= UPGRADE_HOLD => healthy_streak + 1 >= UPGRADE_HOLD
  BY <1>1 DEF AtMost
<1> HIDE DEF streak
<1>3. CASE d > tier
  <2>1. NextTier(d) = <<d, 0>>
    BY <1>1, <1>3 DEF NextTier
  <2> QED BY <1>1, <1>3, <2>1 DEF Tiers, Green, Red
<1>4. CASE d < tier
  <2>1. NextTier(d) = IF streak >= UPGRADE_HOLD THEN <<d, 0>> ELSE <<tier, streak>>
    BY <1>1, <1>4 DEF NextTier, streak
  <2> QED BY <1>1, <1>2, <1>4, <2>1 DEF Tiers, Green, Red
<1>5. CASE d = tier
  <2>1. NextTier(d) = IF tier = Green THEN <<tier, 0>> ELSE <<tier, streak>>
    BY <1>1, <1>5 DEF NextTier, streak
  <2> QED BY <1>1, <1>2, <1>5, <2>1 DEF Tiers, Green, Red
<1> QED BY <1>1, <1>3, <1>4, <1>5

\* The profiles of every tier and mode are settings an encoder can have.
LEMMA EncoderAtType ==
    ASSUME NEW t \in Tiers, NEW m \in Modes
    PROVE  EncoderAt(t, m) \in Encoders /\ EncoderAt(t, m) # None
<1> DEFINE p == TierEncoderProfile(t, m)
<1>1. m \in AudioModes /\ t \in {Green, Yellow, Red}
  BY ModesAreAudioModes DEF Tiers, Green, Yellow, Red
<1>2. /\ Baseline(m).bitrate_bps \in {48000, 64000, 96000, 128000}
      /\ Baseline(m).complexity \in {0, 1, 2, 4}
      /\ Baseline(m).use_vbr \in BOOLEAN
  <2>1. CASE m = "ultra_low_latency"
    <3>1. Baseline(m) = [bitrate_bps |-> 48000, complexity |-> 0, use_vbr |-> FALSE]
      BY <2>1 DEF Baseline
    <3> QED BY <3>1
  <2>2. CASE m = "low_latency"
    <3>1. Baseline(m) = [bitrate_bps |-> 64000, complexity |-> 1, use_vbr |-> FALSE]
      BY <2>2 DEF Baseline
    <3> QED BY <3>1
  <2>3. CASE m = "balanced"
    <3>1. Baseline(m) = [bitrate_bps |-> 96000, complexity |-> 2, use_vbr |-> TRUE]
      BY <2>3 DEF Baseline
    <3> QED BY <3>1
  <2>4. CASE m = "high_quality"
    <3>1. Baseline(m) = [bitrate_bps |-> 128000, complexity |-> 4, use_vbr |-> TRUE]
      BY <2>4 DEF Baseline
    <3> QED BY <3>1
  <2> QED BY <1>1, <2>1, <2>2, <2>3, <2>4 DEF AudioModes
<1>3. /\ p.bitrate_bps \in {48000, 64000, 96000, 128000}
      /\ p.complexity \in {0, 1, 2, 4}
      /\ p.use_vbr \in BOOLEAN
      /\ p.force_pcm16_fallback \in BOOLEAN
  <2>1. CASE t = Green
    <3>1. p = [bitrate_bps |-> Baseline(m).bitrate_bps, complexity |-> Baseline(m).complexity,
               use_vbr |-> Baseline(m).use_vbr, force_pcm16_fallback |-> FALSE]
      BY <2>1 DEF TierEncoderProfile, Green, Yellow, Red
    <3> QED BY <3>1, <1>2
  <2>2. CASE t = Yellow
    <3>1. p = [bitrate_bps |-> AtMost(Baseline(m).bitrate_bps, 96000),
               complexity |-> AtMost(Baseline(m).complexity, 2),
               use_vbr |-> FALSE, force_pcm16_fallback |-> FALSE]
      BY <2>2 DEF TierEncoderProfile, Green, Yellow, Red
    <3>2. /\ AtMost(Baseline(m).bitrate_bps, 96000) \in {48000, 64000, 96000}
          /\ AtMost(Baseline(m).complexity, 2) \in {0, 1, 2}
      BY <1>2 DEF AtMost
    <3> QED BY <3>1, <3>2
  <2>3. CASE t = Red
    <3>1. p = [bitrate_bps |-> 64000, complexity |-> 1,
               use_vbr |-> FALSE, force_pcm16_fallback |-> TRUE]
      BY <2>3 DEF TierEncoderProfile, Green, Yellow, Red
    <3> QED BY <3>1
  <2> QED BY <1>1, <2>1, <2>2, <2>3
<1>4. ModeSettings(m).application \in {"low_delay", "audio"}
  BY <1>1 DEF ModeSettings, AudioModes
<1> HIDE DEF p
<1>5. EncoderAt(t, m) = ApplyTierProfile(p, m)
  BY DEF EncoderAt, p
<1>6. ApplyTierProfile(p, m) \in Encoders
  BY <1>3, <1>4 DEF ApplyTierProfile, Encoders
<1> QED BY <1>5, <1>6, NoneIsNoEncoder

\* The two tables of settings agree in every mode: an encoder at green has
\* exactly the settings apply_opus_mode_settings gave it when it was built.
LEMMA GreenIsBaseline ==
    ASSUME NEW m \in Modes
    PROVE  EncoderAt(Green, m) = NewEncoder(m)
<1>1. m \in AudioModes
  BY ModesAreAudioModes
<1>2. TierEncoderProfile(Green, m) =
        [bitrate_bps |-> Baseline(m).bitrate_bps, complexity |-> Baseline(m).complexity,
         use_vbr |-> Baseline(m).use_vbr, force_pcm16_fallback |-> FALSE]
  BY DEF TierEncoderProfile, Green, Yellow, Red
<1>3. CASE m = "ultra_low_latency"
  <2>1. Baseline(m) = [bitrate_bps |-> 48000, complexity |-> 0, use_vbr |-> FALSE]
    BY <1>3 DEF Baseline
  <2>2. ModeSettings(m) = [application |-> "low_delay", bitrate_bps |-> 48000, complexity |-> 0,
                           use_vbr |-> FALSE]
    BY <1>3 DEF ModeSettings
  <2> QED BY <1>2, <2>1, <2>2 DEF EncoderAt, ApplyTierProfile, NewEncoder
<1>4. CASE m = "low_latency"
  <2>1. Baseline(m) = [bitrate_bps |-> 64000, complexity |-> 1, use_vbr |-> FALSE]
    BY <1>4 DEF Baseline
  <2>2. ModeSettings(m) = [application |-> "low_delay", bitrate_bps |-> 64000, complexity |-> 1,
                           use_vbr |-> FALSE]
    BY <1>4 DEF ModeSettings
  <2> QED BY <1>2, <2>1, <2>2 DEF EncoderAt, ApplyTierProfile, NewEncoder
<1>5. CASE m = "balanced"
  <2>1. Baseline(m) = [bitrate_bps |-> 96000, complexity |-> 2, use_vbr |-> TRUE]
    BY <1>5 DEF Baseline
  <2>2. ModeSettings(m) = [application |-> "audio", bitrate_bps |-> 96000, complexity |-> 2,
                           use_vbr |-> TRUE]
    BY <1>5 DEF ModeSettings
  <2> QED BY <1>2, <2>1, <2>2 DEF EncoderAt, ApplyTierProfile, NewEncoder
<1>6. CASE m = "high_quality"
  <2>1. Baseline(m) = [bitrate_bps |-> 128000, complexity |-> 4, use_vbr |-> TRUE]
    BY <1>6 DEF Baseline
  <2>2. ModeSettings(m) = [application |-> "audio", bitrate_bps |-> 128000, complexity |-> 4,
                           use_vbr |-> TRUE]
    BY <1>6 DEF ModeSettings
  <2> QED BY <1>2, <2>1, <2>2 DEF EncoderAt, ApplyTierProfile, NewEncoder
<1> QED BY <1>1, <1>3, <1>4, <1>5, <1>6 DEF AudioModes

\* A fresh runtime satisfies the invariant.
LEMMA InitInv == Init => WatchdogInv
BY HoldPositive, NoneIsNoEncoder
   DEF Init, WatchdogInv, TypeOK, NeverBelowDemand, PoolAtAppliedTier, Tiers, Green, Red

\* A tick keeps the invariant and promotes only after the hold window.
LEMMA TickInv ==
    ASSUME WatchdogInv, NEW sig \in Signals, Tick(sig)
    PROVE  WatchdogInv' /\ (tier' < tier => settled + 1 >= UPGRADE_HOLD)
<1> DEFINE d == DesiredTier(sig)
           n == NextTier(d)
<1>1. d \in Tiers
  BY DesiredTierType
<1>2. /\ n[1] \in Tiers /\ n[2] \in 0..UPGRADE_HOLD
      /\ n[1] >= d
      /\ n[1] < tier => healthy_streak + 1 >= UPGRADE_HOLD
      /\ n[1] # tier => n[2] = 0
      /\ n[2] <= healthy_streak + 1
  BY <1>1, NextTierFacts DEF WatchdogInv
<1>3. /\ tier' = n[1] /\ healthy_streak' = n[2] /\ current_tier' = n[1] /\ demand' = d
      /\ integral_frozen' = Frozen(n[1])
      /\ settled' = IF n[1] = tier THEN AtMost(settled + 1, UPGRADE_HOLD) ELSE 0
      /\ clock' = 1 - clock
      /\ UNCHANGED <<jobs, last_applied_tier, encoders>>
  BY DEF Tick, poolVars
<1> HIDE DEF d, n
<1>4. /\ healthy_streak \in Nat /\ settled \in 0..UPGRADE_HOLD
      /\ healthy_streak <= settled /\ UPGRADE_HOLD \in Nat \ {0}
  BY HoldPositive DEF WatchdogInv, TypeOK
<1>5. /\ settled' \in 0..UPGRADE_HOLD
      /\ healthy_streak' <= settled'
  BY <1>2, <1>3, <1>4 DEF AtMost
<1>6. TypeOK'
  BY <1>1, <1>2, <1>3, <1>5 DEF WatchdogInv, TypeOK, Frozen
<1>7. NeverBelowDemand' /\ PoolAtAppliedTier'
  BY <1>2, <1>3 DEF WatchdogInv, NeverBelowDemand, PoolAtAppliedTier
<1>8. tier' < tier => settled + 1 >= UPGRADE_HOLD
  BY <1>2, <1>3, <1>4
<1> QED BY <1>5, <1>6, <1>7, <1>8 DEF WatchdogInv

\* A job keeps every encoder at the tier applied last.
LEMMA EncodeInv ==
    ASSUME WatchdogInv, Encode
    PROVE  WatchdogInv'
<1> DEFINE job == Head(jobs)
<1>1. /\ jobs \in Seq([modes : SUBSET Modes, tier : Tiers]) /\ jobs # <<>>
      /\ encoders \in [Modes -> Encoders \cup {None}]
  BY DEF WatchdogInv, TypeOK, Encode
<1>2. job \in [modes : SUBSET Modes, tier : Tiers] /\ jobs' \in Seq([modes : SUBSET Modes, tier : Tiers])
  <2>1. \A S : jobs \in Seq(S) => Head(jobs) \in S /\ Tail(jobs) \in Seq(S)
    BY <1>1
  <2>2. Head(jobs) \in [modes : SUBSET Modes, tier : Tiers]
        /\ Tail(jobs) \in Seq([modes : SUBSET Modes, tier : Tiers])
    BY <1>1, <2>1
  <2> QED BY <2>2 DEF Encode
<1>3. /\ encoders' = EncoderPool(job) /\ last_applied_tier' = job.tier
      /\ UNCHANGED <<tier, healthy_streak, integral_frozen, current_tier, demand, settled,
                   clock>>
  BY DEF Encode, watchdogVars
<1> HIDE DEF job
<1>4. encoders' \in [Modes -> Encoders \cup {None}]
  BY <1>1, <1>2, <1>3, EncoderAtType DEF EncoderPool
<1>5. PoolAtAppliedTier'
  BY <1>1, <1>2, <1>3 DEF EncoderPool, PoolAtAppliedTier, WatchdogInv
<1>6. TypeOK'
  BY <1>2, <1>3, <1>4 DEF WatchdogInv, TypeOK
<1>7. NeverBelowDemand' /\ healthy_streak' <= settled'
  BY <1>3 DEF WatchdogInv, NeverBelowDemand
<1> QED BY <1>5, <1>6, <1>7 DEF WatchdogInv

\* Every step keeps the invariant; only a tick changes the tier.
LEMMA NextInv ==
    ASSUME WatchdogInv, [Next]_vars
    PROVE  WatchdogInv' /\ [tier' < tier => settled + 1 >= UPGRADE_HOLD]_vars
<1>0. tier \in 0..2
  BY DEF WatchdogInv, TypeOK, Tiers, Green, Red
<1>1. CASE \E sig \in Signals : Tick(sig)
  BY <1>1, TickInv
<1>2. CASE \E ms \in (SUBSET Modes) \ {{}} : Capture(ms)
  <2>1. PICK ms \in SUBSET Modes : Capture(ms)
    BY <1>2
  <2>2. [modes |-> ms, tier |-> current_tier] \in [modes : SUBSET Modes, tier : Tiers]
    BY DEF WatchdogInv, TypeOK
  <2>3. jobs' \in Seq([modes : SUBSET Modes, tier : Tiers])
    BY <2>1, <2>2 DEF Capture, WatchdogInv, TypeOK
  <2>4. UNCHANGED <<tier, healthy_streak, integral_frozen, current_tier, demand,
                    settled, clock, last_applied_tier, encoders>>
    BY <2>1 DEF Capture, watchdogVars
  <2> QED BY <1>0, <2>3, <2>4 DEF WatchdogInv, TypeOK, NeverBelowDemand, PoolAtAppliedTier
<1>3. CASE Encode
  <2>1. tier' = tier
    BY <1>3 DEF Encode, watchdogVars
  <2> QED BY <1>0, <1>3, <2>1, EncodeInv
<1>4. CASE UNCHANGED vars
  BY <1>4 DEF vars, watchdogVars, poolVars, WatchdogInv, TypeOK, NeverBelowDemand,
     PoolAtAppliedTier
<1> QED BY <1>1, <1>2, <1>3, <1>4 DEF Next

\* The tier is never better than the last load called for, and the encoders
\* never lag behind the tier applied last.
THEOREM WatchdogSafe == Spec => [](TypeOK /\ NeverBelowDemand /\ PoolAtAppliedTier)
<1>1. WatchdogInv => TypeOK /\ NeverBelowDemand /\ PoolAtAppliedTier
  BY DEF WatchdogInv
<1> QED BY <1>1, InitInv, NextInv, PTL DEF Spec

\* The watchdog never runs at a better tier than the load it measured last called
\* for: no streak, freeze or hold delays a demotion.
THEOREM DemandMet == Spec => []NeverBelowDemand
<1>1. WatchdogInv => NeverBelowDemand
  BY DEF WatchdogInv
<1> QED BY <1>1, InitInv, NextInv, PTL DEF Spec

\* Two changes of tier, the second a promotion, are a hold window apart.
THEOREM PromotionsSpaced == Spec => PromotionSpaced
BY InitInv, NextInv, PTL DEF Spec, PromotionSpaced
=============================================================================
