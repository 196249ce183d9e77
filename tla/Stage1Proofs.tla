---------------------------- MODULE Stage1Proofs ----------------------------
(***************************************************************************)
(* The safety properties of Stage1 for every ring and delay shorter than   *)
(* it, every frame, every hold and every capacity of the link.             *)
(***************************************************************************)
EXTENDS Stage1Props, TLAPS

(* A frame on its way carries a flag that tells what stage 1 did to it.    *)
Consistent(f) ==
    /\ f.cancelled = f.ref_active_flag
    /\ ~ f.ref_active_flag => f.samples = Filled("mic")
    /\ f.present /\ ~ f.estimating => f.samples = Filled("aec")

LinkInv ==
    alt_arch => /\ \A i \in 1 .. Len(link) : Consistent(link[i])
                /\ Consistent(out) /\ ic_bypass = out.ref_active_flag

(* The alternating architecture processes one channel, and the other       *)
(* pipeline all of them outside the estimation.                            *)
ChannelsInv ==
    num_y_channels = IF delay_estimator_enabled THEN DeChannels ELSE NormalChannels

(* The hold counts only frames without reference, in a row.                *)
HoldInv ==
    /\ hold_aec_count <= absent /\ HoldRespected
    /\ ~ alt_arch => hold_aec_count = 0

(* A cycle disarms the trigger, and only in a cycle the delay changes.     *)
CycleInv ==
    /\ delay_estimator_enabled => cycles = 1
    /\ cycles = IF force_de_cycle_trigger THEN 0 ELSE 1

(* The slots before the index hold what was taken since the delay was set  *)
(* and, further back, the silence that setting it has left.                *)
Stamp(t) == IF delay_samples >= 0 THEN Mic(t) ELSE Ref(t)

RingInv ==
    \A ch \in Channel, j \in Index :
        j < since + Abs(delay_samples) =>
            delay_buffer[ch][Before(ch, j + 1)] =
                IF j < since THEN Stamp(Ago(now, j)) ELSE Zero

DelayTypeOK ==
    /\ delay_buffer \in [Channel -> [Index -> Sample]]
    /\ curr_idx \in [Channel -> Index]
    /\ delay_samples \in Delays \cup {0}
    /\ y \in [Channel -> Sample] /\ x \in [Channel -> Sample]
    /\ now \in Clock /\ since \in 0 .. MaxDelay

AecTypeOK ==
    /\ alt_arch \in BOOLEAN /\ taken \in 0 .. FrameAdvance
    /\ num_y_channels \in {1, YChannels}
    /\ bypass \in BOOLEAN /\ hold_aec_count \in 0 .. HoldLimit + 1
    /\ delay_estimator_enabled \in BOOLEAN /\ force_de_cycle_trigger \in BOOLEAN
    /\ link \in Seq(Frame) /\ Len(link) <= LinkLength
    /\ ic_bypass \in BOOLEAN /\ out \in Frame
    /\ absent \in 0 .. HoldLimit + 1 /\ cycles \in 0 .. 2

LEMMA TypeParts == Stage1TypeOK <=> DelayTypeOK /\ AecTypeOK
BY Zenon DEF Stage1TypeOK, DelayTypeOK, AecTypeOK
-----------------------------------------------------------------------------
(* The ring.                                                               *)

(* The code's remainder is a step back, around the start of the ring.      *)
LEMMA StepBack ==
    ASSUME NEW c \in Index, NEW n \in 0 .. MaxDelay
    PROVE  (MaxDelay + c - n) % MaxDelay = IF n <= c THEN c - n ELSE MaxDelay + c - n
<1>1. MaxDelay \in Nat \ {0} /\ c \in Int /\ n \in Int /\ 0 <= c /\ c < MaxDelay
      /\ 0 <= n /\ n <= MaxDelay
  BY DelayBufferAssumption DEF Index
<1>2. CASE n <= c
  <2>1. \A m \in Nat : m < MaxDelay => ((MaxDelay + m) % MaxDelay) = m
    BY <1>1
  <2>. QED BY <1>1, <1>2, <2>1
<1>3. CASE ~ n <= c
  <2>1. \A m \in Nat : m < MaxDelay => (m % MaxDelay) = m
    BY <1>1
  <2>. QED BY <1>1, <1>3, <2>1
<1>. QED BY <1>2, <1>3

LEMMA StepOn ==
    ASSUME NEW c \in Index
    PROVE  ((c + 1) % MaxDelay) = IF c + 1 = MaxDelay THEN 0 ELSE c + 1
BY DelayBufferAssumption DEF Index

(* Steps back from an index and from the next one.                         *)
Back(c, n) == IF n <= c THEN c - n ELSE MaxDelay + c - n
On(c)      == IF c + 1 = MaxDelay THEN 0 ELSE c + 1

LEMMA BackFacts ==
    ASSUME NEW c \in Index
    PROVE  /\ On(c) \in Index /\ Back(On(c), 1) = c
           /\ \A n \in 0 .. MaxDelay : Back(c, n) \in Index
           /\ \A j \in Index : j # 0 => /\ Back(On(c), j + 1) = Back(c, j)
                                        /\ Back(c, j) # c
BY DelayBufferAssumption DEF Index, Back, On

LEMMA BeforeIsBack ==
    ASSUME DelayTypeOK, NEW ch \in Channel, NEW n \in 0 .. MaxDelay
    PROVE  Before(ch, n) = Back(curr_idx[ch], n)
BY StepBack DEF Before, Back, DelayTypeOK

LEMMA AgoFacts ==
    ASSUME now \in Clock
    PROVE  /\ Tick \in Clock /\ Ago(Tick, 0) = Tick
           /\ \A j \in Index : j # 0 => Ago(Tick, j) = Ago(now, j - 1)
BY DelayBufferAssumption DEF Clock, Index, Tick, Ago

LEMMA DelayFacts ==
    ASSUME NEW d \in Delays \cup {0}
    PROVE  d \in Int /\ Abs(d) \in Index /\ (d # 0 => Abs(d) # 0)
BY DelayBufferAssumption DEF Abs, Index

LEMMA SamplesAre ==
    ASSUME NEW t \in Clock
    PROVE  Mic(t) \in Sample /\ Ref(t) \in Sample /\ Zero \in Sample
<1>1. 0 \in Clock
  BY DelayBufferAssumption DEF Clock
<1>. QED BY <1>1 DEF Mic, Ref, Zero, Sample

(* What one sample of every channel does, all channels being processed.    *)
LEMMA OneSample ==
    ASSUME DelayTypeOK, GetDelayedSamples
    PROVE  LET new == Stamp(Tick)
               old(ch) == Back(curr_idx[ch], Abs(delay_samples)) IN
           /\ now' = Tick /\ delay_samples' = delay_samples
           /\ since' = IF since = MaxDelay THEN since ELSE since + 1
           /\ curr_idx' = [ch \in Channel |-> On(curr_idx[ch])]
           /\ delay_buffer' = [ch \in Channel |->
                                  [delay_buffer[ch] EXCEPT ![curr_idx[ch]] = new]]
           /\ y' = [ch \in Channel |-> IF delay_samples >= 0
                                       THEN delay_buffer'[ch][old(ch)] ELSE Mic(Tick)]
           /\ x' = [ch \in Channel |-> IF delay_samples >= 0
                                       THEN Ref(Tick) ELSE delay_buffer'[ch][old(ch)]]
<1>. DEFINE new == Stamp(Tick)
<1>. DEFINE old(ch) == Back(curr_idx[ch], Abs(delay_samples))
<1>1. NumChannels = YChannels /\ \A ch \in Channel : ch < NumChannels
  BY DelayBufferAssumption DEF NumChannels, Channel
<1>2. Stored(NumChannels, new) =
          [ch \in Channel |-> [delay_buffer[ch] EXCEPT ![curr_idx[ch]] = new]]
  BY <1>1 DEF Stored
<1>3. delay_buffer' = Stored(NumChannels, new)
  BY DEF GetDelayedSamples, Stamp
<1>4. \A ch \in Channel : DelayIndex(ch) = old(ch)
  <2>1. Abs(delay_samples) \in 0 .. MaxDelay
    BY DelayFacts, DelayBufferAssumption DEF DelayTypeOK, Index
  <2>. QED BY <2>1, BeforeIsBack DEF DelayIndex
<1>5. Delayed(NumChannels, new) = [ch \in Channel |-> delay_buffer'[ch][old(ch)]]
  BY <1>1, <1>3, <1>4 DEF Delayed
<1>6. y' = [ch \in Channel |-> IF delay_samples >= 0
                               THEN delay_buffer'[ch][old(ch)] ELSE Mic(Tick)]
  BY <1>5 DEF GetDelayedSamples, Stamp
<1>7. x' = [ch \in Channel |-> IF delay_samples >= 0
                               THEN Ref(Tick) ELSE delay_buffer'[ch][old(ch)]]
  BY <1>5 DEF GetDelayedSamples, Stamp
<1>8. curr_idx' = [ch \in Channel |-> On(curr_idx[ch])]
  BY <1>1, StepOn DEF GetDelayedSamples, Advanced, On, DelayTypeOK
<1>9. now' = Tick /\ delay_samples' = delay_samples
      /\ since' = IF since = MaxDelay THEN since ELSE since + 1
  BY DEF GetDelayedSamples
<1>. QED BY <1>2, <1>3, <1>6, <1>7, <1>8, <1>9

LEMMA SampleType == DelayTypeOK /\ GetDelayedSamples => DelayTypeOK'
<1>. SUFFICES ASSUME DelayTypeOK, GetDelayedSamples PROVE DelayTypeOK'
  OBVIOUS
<1>1. Tick \in Clock
  BY AgoFacts DEF DelayTypeOK
<1>2. Stamp(Tick) \in Sample /\ Mic(Tick) \in Sample /\ Ref(Tick) \in Sample
  BY <1>1, SamplesAre DEF Stamp
<1>3. delay_buffer' \in [Channel -> [Index -> Sample]]
  <2>1. \A ch \in Channel : delay_buffer[ch] \in [Index -> Sample]
    BY DEF DelayTypeOK
  <2>2. delay_buffer' = [ch \in Channel |->
                            [delay_buffer[ch] EXCEPT ![curr_idx[ch]] = Stamp(Tick)]]
    BY OneSample
  <2>. QED BY <1>2, <2>1, <2>2
<1>4. Abs(delay_samples) \in 0 .. MaxDelay
  BY DelayFacts, DelayBufferAssumption DEF DelayTypeOK, Index
<1>5. curr_idx' \in [Channel -> Index]
  BY OneSample, BackFacts DEF DelayTypeOK
<1>6. \A ch \in Channel : Back(curr_idx[ch], Abs(delay_samples)) \in Index
  BY <1>4, BackFacts DEF DelayTypeOK
<1>7. y' \in [Channel -> Sample] /\ x' \in [Channel -> Sample]
  BY OneSample, <1>2, <1>3, <1>6
<1>8. now' \in Clock /\ since' \in 0 .. MaxDelay /\ delay_samples' \in Delays \cup {0}
  BY OneSample, <1>1, DelayBufferAssumption DEF DelayTypeOK
<1>. QED BY <1>3, <1>5, <1>7, <1>8 DEF DelayTypeOK

LEMMA UpdateType ==
    ASSUME DelayTypeOK, NEW d \in Delays, UpdateDelay(d)
    PROVE  DelayTypeOK'
<1>1. Zero \in Sample
  BY SamplesAre DEF DelayTypeOK
<1>2. delay_buffer' \in [Channel -> [Index -> Sample]]
  BY <1>1 DEF UpdateDelay, DelayTypeOK
<1>. QED BY <1>2, DelayBufferAssumption DEF UpdateDelay, DelayTypeOK

(* One sample keeps the ring and hands over the right samples.             *)
LEMMA SampleRing ==
    ASSUME DelayTypeOK, RingInv, GetDelayedSamples
    PROVE  RingInv' /\ DelayedExactly'
<1>. DEFINE d == Abs(delay_samples)
<1>1. d \in Index /\ since \in 0 .. MaxDelay /\ now \in Clock
  BY DelayFacts DEF DelayTypeOK
<1>2. now' = Tick /\ delay_samples' = delay_samples
      /\ since' = IF since = MaxDelay THEN since ELSE since + 1
  BY OneSample
<1>3. \A t : Stamp(t)' = Stamp(t)
  BY <1>2 DEF Stamp
<1>4. ASSUME NEW ch \in Channel
      PROVE  /\ curr_idx[ch] \in Index /\ curr_idx'[ch] = On(curr_idx[ch])
             /\ delay_buffer'[ch][curr_idx[ch]] = Stamp(Tick)
             /\ \A j \in Index : j # 0 =>
                    delay_buffer'[ch][Back(curr_idx[ch], j)] =
                        delay_buffer[ch][Back(curr_idx[ch], j)]
  <2>1. curr_idx[ch] \in Index /\ delay_buffer[ch] \in [Index -> Sample]
    BY DEF DelayTypeOK
  <2>2. delay_buffer'[ch] = [delay_buffer[ch] EXCEPT ![curr_idx[ch]] = Stamp(Tick)]
        /\ curr_idx'[ch] = On(curr_idx[ch])
    BY OneSample
  <2>. QED BY <2>1, <2>2, BackFacts
<1>5. \A ch \in Channel, j \in Index :
          /\ Before(ch, j + 1) = Back(curr_idx[ch], j + 1)
          /\ Before(ch, j + 1)' = Back(curr_idx'[ch], j + 1)
  <2>1. \A j \in Index : j + 1 \in 0 .. MaxDelay
    BY DelayBufferAssumption DEF Index
  <2>2. curr_idx \in [Channel -> Index] /\ curr_idx' \in [Channel -> Index]
    BY SampleType DEF DelayTypeOK
  <2>3. \A c \in Index, j \in Index : ((MaxDelay + c - (j + 1)) % MaxDelay) = Back(c, j + 1)
    BY <2>1, StepBack DEF Back
  <2>. QED BY <2>2, <2>3 DEF Before
(* The slot j + 1 steps back holds what was stored j samples ago.          *)
<1>6. ASSUME NEW ch \in Channel, NEW j \in Index, j < since + d
      PROVE  delay_buffer[ch][Back(curr_idx[ch], j + 1)] =
                 IF j < since THEN Stamp(Ago(now, j)) ELSE Zero
  BY <1>5, <1>6 DEF RingInv
<1>7. RingInv'
  <2>. SUFFICES ASSUME NEW ch \in Channel, NEW j \in Index, j < since' + d
                PROVE  delay_buffer'[ch][Back(curr_idx'[ch], j + 1)] =
                           IF j < since' THEN Stamp(Ago(Tick, j)) ELSE Zero
    BY <1>2, <1>3, <1>5 DEF RingInv
  <2>1. CASE j = 0
    <3>1. Back(curr_idx'[ch], j + 1) = curr_idx[ch]
      BY <2>1, <1>4, BackFacts
    <3>2. j < since'
      BY <2>1, <1>1, <1>2, DelayBufferAssumption
    <3>. QED BY <2>1, <3>1, <3>2, <1>1, <1>4, AgoFacts
  <2>2. CASE j # 0
    <3>1. j - 1 \in Index /\ j - 1 < since + d /\ (j - 1) + 1 = j
          /\ (j < since' <=> j - 1 < since)
      BY <2>2, <1>1, <1>2, DelayBufferAssumption DEF Index
    <3>2. Back(curr_idx'[ch], j + 1) = Back(curr_idx[ch], j)
      BY <2>2, <1>4, BackFacts
    <3>3. delay_buffer'[ch][Back(curr_idx[ch], j)] =
              IF j - 1 < since THEN Stamp(Ago(now, j - 1)) ELSE Zero
      BY <2>2, <3>1, <1>4, <1>6
    <3>. QED BY <2>2, <3>1, <3>2, <3>3, <1>1, AgoFacts
  <2>. QED BY <2>1, <2>2
<1>8. ASSUME NEW ch \in Channel
      PROVE  delay_buffer'[ch][Back(curr_idx[ch], d)] =
                 IF since' > d THEN Stamp(Ago(Tick, d)) ELSE Zero
  <2>1. CASE d = 0
    <3>1. Back(curr_idx[ch], d) = curr_idx[ch] /\ since' > d
      BY <2>1, <1>1, <1>2, <1>4, DelayBufferAssumption DEF Back, Index
    <3>. QED BY <2>1, <3>1, <1>1, <1>4, AgoFacts
  <2>2. CASE d # 0
    <3>1. d - 1 \in Index /\ d - 1 < since + d /\ (d - 1) + 1 = d
          /\ (since' > d <=> d - 1 < since)
      BY <2>2, <1>1, <1>2, DelayBufferAssumption DEF Index
    <3>2. delay_buffer'[ch][Back(curr_idx[ch], d)] =
              IF d - 1 < since THEN Stamp(Ago(now, d - 1)) ELSE Zero
      BY <2>2, <3>1, <1>1, <1>4, <1>6
    <3>. QED BY <2>2, <3>1, <3>2, <1>1, AgoFacts
  <2>. QED BY <2>1, <2>2
<1>9. DelayedExactly'
  <2>1. Abs(delay_samples') = d /\ now' = Tick
    BY <1>2
  <2>2. CASE delay_samples >= 0
    <3>1. \A ch \in Channel : /\ y'[ch] = delay_buffer'[ch][Back(curr_idx[ch], d)]
                              /\ x'[ch] = Ref(Tick)
      BY <2>2, OneSample
    <3>2. \A ch \in Channel : y'[ch] = IF since' > d THEN Mic(Ago(Tick, d)) ELSE Zero
      BY <2>2, <3>1, <1>8 DEF Stamp
    <3>. QED BY <2>1, <2>2, <3>1, <3>2, <1>2 DEF DelayedExactly, Mic
  <2>3. CASE ~ delay_samples >= 0
    <3>1. \A ch \in Channel : /\ x'[ch] = delay_buffer'[ch][Back(curr_idx[ch], d)]
                              /\ y'[ch] = Mic(Tick)
      BY <2>3, OneSample
    <3>2. \A ch \in Channel : x'[ch] = IF since' > d THEN Ref(Ago(Tick, d)) ELSE Zero
      BY <2>3, <3>1, <1>8 DEF Stamp
    <3>. QED BY <2>1, <2>3, <3>1, <3>2, <1>2 DEF DelayedExactly, Ref
  <2>. QED BY <2>2, <2>3
<1>. QED BY <1>7, <1>9

(* The spans that are cleared are the slots that are read first.           *)
LEMMA ClearedSpan ==
    ASSUME DelayTypeOK, NEW ch \in Channel, NEW n \in Index, n # 0,
           NEW j \in Index, j < n
    PROVE  Before(ch, j + 1) \in Cleared(ch, n)
<1>1. Before(ch, j + 1) = Back(curr_idx[ch], j + 1) /\ Before(ch, n) = Back(curr_idx[ch], n)
  BY BeforeIsBack, DelayBufferAssumption DEF Index
<1>2. curr_idx[ch] \in Index
  BY DEF DelayTypeOK
<1>. DEFINE c == curr_idx[ch]
<1>3. /\ MaxDelay \in Nat /\ c \in Nat /\ n \in Nat /\ j \in Nat
      /\ c < MaxDelay /\ 0 < n /\ n < MaxDelay /\ j < n
  BY <1>2, DelayBufferAssumption DEF Index
<1>4. CASE n <= c
  <2>1. Before(ch, n) = c - n /\ Before(ch, j + 1) = c - (j + 1)
    BY <1>1, <1>3, <1>4 DEF Back
  <2>2. Cleared(ch, n) = c - n .. c - n + n - 1
    BY <1>3, <2>1 DEF Cleared
  <2>. QED BY <1>3, <2>1, <2>2
<1>5. CASE n > c
  <2>1. Before(ch, n) = MaxDelay + c - n
    BY <1>1, <1>3, <1>5 DEF Back
  <2>2. Cleared(ch, n) = (0 .. c - 1) \cup (MaxDelay - (n - c) .. MaxDelay - 1)
    BY <1>3, <2>1 DEF Cleared
  <2>3. Before(ch, j + 1) = IF j + 1 <= c THEN c - (j + 1) ELSE MaxDelay + c - (j + 1)
    BY <1>1 DEF Back
  <2>. QED BY <1>3, <1>5, <2>2, <2>3
<1>. QED BY <1>3, <1>4, <1>5

LEMMA UpdateRing ==
    ASSUME DelayTypeOK, NEW d \in Delays, UpdateDelay(d)
    PROVE  RingInv' /\ DelayedExactly'
<1>1. Abs(d) \in Index /\ (d # 0 => Abs(d) # 0) /\ (d = 0 => Abs(d) = 0)
  BY DelayFacts DEF Abs
<1>2. since' = 0 /\ delay_samples' = d /\ curr_idx' = curr_idx
  BY DEF UpdateDelay
<1>3. ASSUME NEW ch \in Channel, NEW j \in Index, j < since' + Abs(d)
      PROVE  delay_buffer'[ch][Before(ch, j + 1)] = Zero
  <2>1. d # 0 /\ j < Abs(d)
    BY <1>1, <1>2, <1>3 DEF Index
  <2>2. Before(ch, j + 1) \in Cleared(ch, Abs(d))
    BY <2>1, <1>1, ClearedSpan
  <2>3. Before(ch, j + 1) \in Index
    <3>1. j + 1 \in 0 .. MaxDelay
      BY DelayBufferAssumption DEF Index
    <3>2. Before(ch, j + 1) = Back(curr_idx[ch], j + 1)
      BY <3>1, BeforeIsBack
    <3>3. curr_idx[ch] \in Index
      BY DEF DelayTypeOK
    <3>4. \A n \in 0 .. MaxDelay : Back(curr_idx[ch], n) \in Index
      BY <3>3, BackFacts
    <3>. QED BY <3>1, <3>2, <3>4
  <2>. QED BY <2>1, <2>2, <2>3 DEF UpdateDelay
<1>4. RingInv'
  <2>1. \A ch, n : Before(ch, n)' = Before(ch, n)
    BY <1>2 DEF Before
  <2>2. \A j \in Index : ~ j < since'
    BY <1>2 DEF Index
  <2>. QED BY <1>2, <1>3, <2>1, <2>2 DEF RingInv
<1>. QED BY <1>2, <1>4 DEF DelayedExactly
-----------------------------------------------------------------------------
(* Every variable keeps its type: also, the hold count cannot run away and *)
(* no index leaves the ring.                                               *)

(* The frame that stage 1 sends is a frame, and in the alternating         *)
(* architecture consistent.                                                *)
LEMMA SentFrame ==
    ASSUME AecTypeOK, NEW present \in BOOLEAN, NEW de \in BOOLEAN,
           NEW flag \in FlagsLeft(present)
    PROVE  LET f == [samples         |-> Output(de, NextBypass(present)),
                     ref_active_flag |-> flag,
                     present         |-> present,
                     cancelled       |-> ~ NextBypass(present),
                     estimating      |-> delay_estimator_enabled] IN
           /\ f \in Frame
           /\ ChannelsInv => \A ch \in Channel : f.samples[ch] # "junk"
           /\ ChannelsInv /\ alt_arch => Consistent(f)
<1>1. NextBypass(present) \in BOOLEAN /\ NextFlag(present) \in BOOLEAN
  BY DEF NextBypass, NextFlag, Holding, AecTypeOK
<1>2. flag \in BOOLEAN
  BY <1>1 DEF FlagsLeft
<1>3. Output(de, NextBypass(present)) \in [Channel -> Content]
  BY DEF Output, Rewritten, Filled, Processed, Content
<1>4. delay_estimator_enabled \in BOOLEAN /\ (~ NextBypass(present)) \in BOOLEAN
  BY <1>1 DEF AecTypeOK
<1>5. ASSUME ChannelsInv
      PROVE  /\ alt_arch => num_y_channels = 1
             /\ ~ alt_arch /\ ~ delay_estimator_enabled => num_y_channels = YChannels
  BY <1>5 DEF ChannelsInv, NormalChannels, DeChannels
<1>6. ASSUME ChannelsInv, NEW ch \in Channel
      PROVE  Output(de, NextBypass(present))[ch] # "junk"
  <2>1. CASE delay_estimator_enabled
    BY <2>1 DEF Output, Filled
  <2>2. CASE ~ delay_estimator_enabled /\ alt_arch
    BY <2>2, <1>5, <1>6, Stage1Assumption DEF Output, Filled, Rewritten
  <2>3. CASE ~ delay_estimator_enabled /\ ~ alt_arch
    <3>1. Output(de, NextBypass(present)) = Processed
      BY <2>3 DEF Output, Rewritten
    <3>2. ch < num_y_channels
      BY <2>3, <1>5, <1>6, DelayBufferAssumption DEF Channel
    <3>. QED BY <3>1, <3>2 DEF Processed
  <2>. QED BY <2>1, <2>2, <2>3
<1>7. ASSUME ChannelsInv, alt_arch
      PROVE  flag = NextFlag(present) /\ NextFlag(present) = ~ NextBypass(present)
  BY <1>5, <1>7, <1>1 DEF FlagsLeft, NextFlag, NextBypass, Holding
<1>8. ASSUME ChannelsInv, alt_arch, ~ delay_estimator_enabled
      PROVE  Output(de, NextBypass(present)) =
                 Filled(IF NextBypass(present) THEN "mic" ELSE "aec")
  BY <1>5, <1>8, Stage1Assumption DEF Output, Rewritten
<1>9. delay_estimator_enabled => Output(de, NextBypass(present)) = Filled("mic")
  BY DEF Output
<1>10. present => ~ NextBypass(present)
  BY DEF NextBypass
<1>. DEFINE f == [samples         |-> Output(de, NextBypass(present)),
                  ref_active_flag |-> flag,
                  present         |-> present,
                  cancelled       |-> ~ NextBypass(present),
                  estimating      |-> delay_estimator_enabled]
<1>11. f \in Frame
  BY <1>2, <1>3, <1>4 DEF Frame
<1>12. ChannelsInv => \A ch \in Channel : f.samples[ch] # "junk"
  BY <1>6
<1>13. ASSUME ChannelsInv, alt_arch PROVE Consistent(f)
  <2>1. f.cancelled = f.ref_active_flag
    BY <1>7, <1>13
  <2>2. ~ f.ref_active_flag => f.samples = Filled("mic")
    BY <1>7, <1>8, <1>9, <1>13
  <2>3. f.present /\ ~ f.estimating => f.samples = Filled("aec")
    BY <1>8, <1>10, <1>13
  <2>. QED BY <2>1, <2>2, <2>3 DEF Consistent
<1>. QED BY <1>11, <1>12, <1>13

LEMMA InitType == Init => Stage1TypeOK
<1>. SUFFICES ASSUME Init PROVE DelayTypeOK /\ AecTypeOK
  BY TypeParts
<1>1. 0 \in Clock /\ 0 \in Index /\ 0 \in 0 .. MaxDelay
  BY DelayBufferAssumption DEF Clock, Index
<1>2. DelayTypeOK
  BY <1>1, SamplesAre DEF Init, DelayInit, DelayTypeOK
<1>3. Silence \in Frame
  BY DEF Silence, Frame, Filled, Content
<1>4. <<>> \in Seq(Frame) /\ Len(<<>>) = 0
  OBVIOUS
<1>5. link \in Seq(Frame) /\ Len(link) <= LinkLength
  BY <1>4, Stage1Assumption DEF Init
<1>6. /\ alt_arch \in BOOLEAN /\ bypass \in BOOLEAN
      /\ delay_estimator_enabled \in BOOLEAN /\ force_de_cycle_trigger \in BOOLEAN
      /\ ic_bypass \in BOOLEAN
  BY Zenon DEF Init, ForcedCycle
<1>7. /\ taken \in 0 .. FrameAdvance /\ num_y_channels \in {1, YChannels}
      /\ hold_aec_count \in 0 .. HoldLimit + 1 /\ absent \in 0 .. HoldLimit + 1
      /\ cycles \in 0 .. 2
  BY Stage1Assumption DEF Init, NormalChannels
<1>8. out \in Frame
  BY <1>3 DEF Init
<1>9. AecTypeOK
  BY <1>5, <1>6, <1>7, <1>8, Zenon DEF AecTypeOK
<1>. QED BY <1>2, <1>9

LEMMA StepType == Stage1TypeOK /\ [Next]_vars => Stage1TypeOK'
<1>. SUFFICES ASSUME DelayTypeOK, AecTypeOK, [Next]_vars
              PROVE  DelayTypeOK' /\ AecTypeOK'
  BY Zenon DEF Stage1TypeOK, DelayTypeOK, AecTypeOK
<1>1. CASE TakeSample
  <2>1. DelayTypeOK'
    BY <1>1, SampleType DEF TakeSample
  <2>2. taken' \in 0 .. FrameAdvance
    BY <1>1, Stage1Assumption DEF TakeSample, AecTypeOK
  <2>. QED BY <1>1, <2>1, <2>2 DEF TakeSample, AecTypeOK, aecVars, tile0Vars
<1>2. ASSUME NEW present \in BOOLEAN, NEW de \in BOOLEAN,
             NEW flag \in FlagsLeft(present), ProcessFrame(present, de, flag)
      PROVE  DelayTypeOK' /\ AecTypeOK'
  <2>1. DelayTypeOK'
    <3>1. CASE UNCHANGED delayVars
      BY <3>1 DEF delayVars, DelayTypeOK
    <3>2. CASE \E d \in Delays : UpdateDelay(d)
      BY <3>2, UpdateType
    <3>. QED BY <1>2, <3>1, <3>2 DEF ProcessFrame, DelayChange
  <2>2. /\ bypass' \in BOOLEAN /\ delay_estimator_enabled' \in BOOLEAN
        /\ force_de_cycle_trigger' \in BOOLEAN
        /\ num_y_channels' \in {1, YChannels}
    BY <1>2 DEF ProcessFrame, SwitchConfiguration, DeChannels, NormalChannels
  <2>3. hold_aec_count' \in 0 .. HoldLimit + 1 /\ absent' \in 0 .. HoldLimit + 1
    BY <1>2, Stage1Assumption DEF ProcessFrame, NextCount, Holding, AecTypeOK
  <2>4. cycles' \in 0 .. 2 /\ taken' \in 0 .. FrameAdvance
    BY <1>2, Stage1Assumption DEF ProcessFrame, AecTypeOK
  <2>5. link' \in Seq(Frame) /\ Len(link') <= LinkLength
    <3>1. PICK f \in Frame : link' = Append(link, f)
      BY <1>2, SentFrame DEF ProcessFrame
    <3>2. Len(link) < LinkLength
      BY <1>2 DEF ProcessFrame
    <3>. QED BY <3>1, <3>2, Stage1Assumption DEF AecTypeOK
  <2>6. alt_arch' \in BOOLEAN /\ ic_bypass' \in BOOLEAN /\ out' \in Frame
    BY <1>2 DEF ProcessFrame, tile0Vars, AecTypeOK
  <2>. QED BY <2>1, <2>2, <2>3, <2>4, <2>5, <2>6 DEF AecTypeOK
<1>3. CASE StageVnrAndIc
  <2>1. /\ Head(link) \in Frame /\ Tail(link) \in Seq(Frame)
        /\ Len(Tail(link)) <= LinkLength
    BY <1>3, Stage1Assumption DEF StageVnrAndIc, AecTypeOK
  <2>2. ic_bypass' \in BOOLEAN /\ out' \in Frame
    BY <1>3, <2>1 DEF StageVnrAndIc, Frame
  <2>3. DelayTypeOK'
    BY <1>3 DEF StageVnrAndIc, delayVars, DelayTypeOK
  <2>. QED BY <1>3, <2>1, <2>2, <2>3 DEF StageVnrAndIc, AecTypeOK, aecVars
<1>4. CASE UNCHANGED vars
  BY <1>4 DEF vars, delayVars, aecVars, tile0Vars, DelayTypeOK, AecTypeOK
<1>. QED BY <1>1, <1>2, <1>3, <1>4 DEF Next, Tile1

(* Every variable keeps its type.                                          *)
THEOREM Stage1TypeCorrect == Spec => []Stage1TypeOK
BY InitType, StepType, PTL DEF Spec
-----------------------------------------------------------------------------
(* The delayed signal is exactly as old as the delay in force says.        *)
THEOREM DelaySafe == Spec => []DelayedExactly
<1>1. Init => RingInv /\ DelayedExactly
  <2>1. Init => since = 0 /\ Abs(delay_samples) = 0
    BY DEF Init, DelayInit, Abs
  <2>2. Init => RingInv
    BY <2>1 DEF RingInv, Index
  <2>. QED BY <2>1, <2>2 DEF DelayedExactly
<1>2. /\ Stage1TypeOK /\ RingInv /\ DelayedExactly /\ [Next]_vars
      => RingInv' /\ DelayedExactly'
  <2>. SUFFICES ASSUME DelayTypeOK, RingInv, DelayedExactly, [Next]_vars
                PROVE  RingInv' /\ DelayedExactly'
    BY TypeParts
  <2>1. CASE UNCHANGED delayVars
    <3>1. RingInv'
      BY <2>1 DEF delayVars, RingInv, Before, Stamp, Ago
    <3>2. DelayedExactly'
      BY <2>1 DEF delayVars, DelayedExactly, Ago
    <3>. QED BY <3>1, <3>2
  <2>2. CASE GetDelayedSamples
    BY <2>2, SampleRing
  <2>3. CASE \E d \in Delays : UpdateDelay(d)
    BY <2>3, UpdateRing
  <2>. QED BY <2>1, <2>2, <2>3
           DEF Next, Tile1, TakeSample, ProcessFrame, DelayChange, StageVnrAndIc, vars
<1>. QED BY <1>1, <1>2, Stage1TypeCorrect, PTL DEF Spec

(* The AEC is configured for the channels that its mode has.               *)
LEMMA ChannelsSafe == Spec => []ChannelsInv
<1>1. Init => ChannelsInv
  BY DEF Init, ChannelsInv, NormalChannels
<1>2. ChannelsInv /\ [Next]_vars => ChannelsInv'
  <2>. SUFFICES ASSUME ChannelsInv, [Next]_vars PROVE ChannelsInv'
    OBVIOUS
  <2>1. ASSUME NEW present \in BOOLEAN, NEW de \in BOOLEAN, NEW flag,
               ProcessFrame(present, de, flag)
        PROVE  ChannelsInv'
    BY <2>1 DEF ProcessFrame, SwitchConfiguration, ChannelsInv, NormalChannels, DeChannels
  <2>2. CASE UNCHANGED <<alt_arch, aecVars>>
    BY <2>2 DEF aecVars, ChannelsInv, NormalChannels, DeChannels
  <2>. QED BY <2>1, <2>2 DEF Next, Tile1, TakeSample, StageVnrAndIc, vars
<1>. QED BY <1>1, <1>2, PTL DEF Spec

(* Every frame that leaves stage 1 has been written on every channel.      *)
THEOREM OutputSafe == Spec => []OutputDefined
<1>1. Init => OutputDefined
  BY DEF Init, OutputDefined
<1>2. Stage1TypeOK /\ ChannelsInv /\ OutputDefined /\ [Next]_vars => OutputDefined'
  <2>. SUFFICES ASSUME AecTypeOK, ChannelsInv, OutputDefined, [Next]_vars
                PROVE  OutputDefined'
    BY TypeParts
  <2>1. ASSUME NEW present \in BOOLEAN, NEW de \in BOOLEAN,
               NEW flag \in FlagsLeft(present), ProcessFrame(present, de, flag)
        PROVE  OutputDefined'
    <3>1. PICK f : /\ link' = Append(link, f)
                   /\ \A ch \in Channel : f.samples[ch] # "junk"
      BY <2>1, SentFrame DEF ProcessFrame
    <3>. QED BY <3>1 DEF OutputDefined, AecTypeOK
  <2>2. CASE StageVnrAndIc
    BY <2>2 DEF StageVnrAndIc, OutputDefined, AecTypeOK
  <2>3. CASE UNCHANGED link
    BY <2>3 DEF OutputDefined
  <2>. QED BY <2>1, <2>2, <2>3 DEF Next, Tile1, TakeSample, vars
<1>. QED BY <1>1, <1>2, ChannelsSafe, Stage1TypeCorrect, PTL DEF Spec

(* The link delivers what stage 1 sent, and IC obeys the frame it has.     *)
LEMMA StepLink == Stage1TypeOK /\ ChannelsInv /\ LinkInv /\ [Next]_vars => LinkInv'
<1>. SUFFICES ASSUME AecTypeOK, ChannelsInv, LinkInv, alt_arch, [Next]_vars, alt_arch' = alt_arch
              PROVE  LinkInv'
  <2>1. [Next]_vars => alt_arch' = alt_arch
    BY DEF Next, Tile1, TakeSample, ProcessFrame, StageVnrAndIc, vars
  <2>. QED BY <2>1, TypeParts DEF LinkInv
<1>1. ASSUME NEW present \in BOOLEAN, NEW de \in BOOLEAN,
             NEW flag \in FlagsLeft(present), ProcessFrame(present, de, flag)
      PROVE  LinkInv'
  <2>1. PICK f : Consistent(f) /\ link' = Append(link, f)
    BY <1>1, SentFrame DEF ProcessFrame
  <2>2. \A i \in 1 .. Len(link') : Consistent(link'[i])
    BY <2>1 DEF LinkInv, AecTypeOK
  <2>. QED BY <1>1, <2>2 DEF ProcessFrame, tile0Vars, LinkInv
<1>2. CASE StageVnrAndIc
  <2>1. Consistent(Head(link)) /\ \A i \in 1 .. Len(Tail(link)) : Consistent(Tail(link)[i])
    BY <1>2 DEF StageVnrAndIc, LinkInv, AecTypeOK
  <2>2. Head(link) \in Frame
    BY <1>2 DEF StageVnrAndIc, AecTypeOK
  <2>3. Head(link).ref_active_flag \in BOOLEAN
    BY <2>2 DEF Frame
  <2>. QED BY <1>2, <2>1, <2>3 DEF StageVnrAndIc, LinkInv
<1>3. CASE UNCHANGED <<link, tile0Vars>>
  BY <1>3 DEF tile0Vars, LinkInv
<1>. QED BY <1>1, <1>2, <1>3 DEF Next, Tile1, TakeSample, vars

(* On every frame that tile 0 handles exactly one canceller works.         *)
THEOREM OneCancellerSafe == Spec => []OneCanceller
<1>1. Init => LinkInv
  <2>1. Consistent(Silence) /\ Silence.ref_active_flag = FALSE
    BY Zenon DEF Consistent, Silence
  <2>2. Init => \A i \in 1 .. Len(link) : Consistent(link[i])
    BY DEF Init
  <2>3. Init => out = Silence /\ ic_bypass = FALSE
    BY DEF Init
  <2>. QED BY <2>1, <2>2, <2>3, Zenon DEF LinkInv
<1>2. LinkInv => OneCanceller
  BY DEF LinkInv, Consistent, OneCanceller
<1>. QED BY <1>1, <1>2, StepLink, ChannelsSafe, Stage1TypeCorrect, PTL DEF Spec

(* The hold is never cut short: the count is at most the frames of silence.*)
THEOREM HoldSafe == Spec => []HoldRespected
<1>1. Init => HoldInv
  BY DEF Init, HoldInv, HoldRespected
<1>2. Stage1TypeOK /\ HoldInv /\ [Next]_vars => HoldInv'
  <2>. SUFFICES ASSUME AecTypeOK, HoldInv, [Next]_vars PROVE HoldInv'
    BY TypeParts
  <2>1. ASSUME NEW present \in BOOLEAN, NEW de \in BOOLEAN, NEW flag,
               ProcessFrame(present, de, flag)
        PROVE  HoldInv'
    <3>1. hold_aec_count' = NextCount(present) /\ (bypass' => NextBypass(present))
          /\ alt_arch' = alt_arch
      BY <2>1 DEF ProcessFrame, SwitchConfiguration
    <3>2. absent' = IF present THEN 0
                    ELSE IF absent > HoldLimit THEN absent ELSE absent + 1
      BY <2>1 DEF ProcessFrame
    <3>3. CASE ~ alt_arch
      BY <3>1, <3>2, <3>3, Stage1Assumption
         DEF NextCount, NextBypass, HoldInv, HoldRespected, AecTypeOK
    <3>4. CASE alt_arch
      BY <3>1, <3>2, <3>4, Stage1Assumption
         DEF NextCount, NextBypass, Holding, HoldInv, HoldRespected, AecTypeOK
    <3>. QED BY <3>3, <3>4
  <2>2. CASE UNCHANGED <<alt_arch, aecVars, absent>>
    BY <2>2 DEF aecVars, HoldInv, HoldRespected
  <2>. QED BY <2>1, <2>2 DEF Next, Tile1, TakeSample, StageVnrAndIc, vars
<1>3. HoldInv => HoldRespected
  BY DEF HoldInv
<1>. QED BY <1>1, <1>2, <1>3, Stage1TypeCorrect, PTL DEF Spec

(* There is one cycle, and the delay changes only in it.                   *)
THEOREM DelayOnceSafe == Spec => DelayCorrectedOnce
<1>1. Init => CycleInv
  BY DEF Init, CycleInv, ForcedCycle
<1>2. Stage1TypeOK /\ CycleInv /\ [Next]_vars
      => /\ CycleInv'
         /\ [/\ cycles' <= 1
             /\ cycles = 1 /\ ~ delay_estimator_enabled
                => delay_samples' = delay_samples]_vars
  <2>. SUFFICES ASSUME AecTypeOK, CycleInv, [Next]_vars
                PROVE  /\ CycleInv' /\ cycles' <= 1
                       /\ cycles = 1 /\ ~ delay_estimator_enabled
                          => delay_samples' = delay_samples
    BY TypeParts
  <2>1. ASSUME NEW present \in BOOLEAN, NEW de \in BOOLEAN, NEW flag,
               ProcessFrame(present, de, flag)
        PROVE  /\ CycleInv' /\ cycles' <= 1
               /\ cycles = 1 /\ ~ delay_estimator_enabled
                  => delay_samples' = delay_samples
    <3>1. /\ delay_estimator_enabled' = de
          /\ force_de_cycle_trigger' =
                 (force_de_cycle_trigger /\ (delay_estimator_enabled \/ ~ de))
      BY <2>1 DEF ProcessFrame, SwitchConfiguration
    <3>2. de => delay_estimator_enabled \/ force_de_cycle_trigger
      BY <2>1 DEF ProcessFrame, AdecEnables
    <3>3. cycles' = IF de /\ ~ delay_estimator_enabled /\ cycles < 2 THEN cycles + 1
                    ELSE cycles
      BY <2>1 DEF ProcessFrame
    <3>4. CycleInv' /\ cycles' <= 1
      BY <3>1, <3>2, <3>3 DEF CycleInv, AecTypeOK
    <3>5. ~ delay_estimator_enabled /\ ~ de => delay_samples' = delay_samples
      BY <2>1 DEF ProcessFrame, DelayChange, delayVars
    <3>6. cycles = 1 => ~ force_de_cycle_trigger
      BY DEF CycleInv
    <3>. QED BY <3>2, <3>4, <3>5, <3>6 DEF AecTypeOK
  <2>2. CASE UNCHANGED <<aecVars, cycles, delay_samples>>
    BY <2>2 DEF aecVars, CycleInv, AecTypeOK
  <2>. QED BY <2>1, <2>2 DEF Next, Tile1, TakeSample, GetDelayedSamples, StageVnrAndIc,
                             vars, delayVars
<1>. QED BY <1>1, <1>2, Stage1TypeCorrect, PTL DEF Spec, DelayCorrectedOnce
=============================================================================
