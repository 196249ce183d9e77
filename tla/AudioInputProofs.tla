-------------------------- MODULE AudioInputProofs --------------------------
(***************************************************************************)
(* The start and the pairing of microphones and reference for every frame  *)
(* and every ring of two to three frames, however late the task is.        *)
(***************************************************************************)
EXTENDS AudioInputProps, TLAPS

(* Tile 0 has set the pin before it sends, and tile 1 gets what was sent.  *)
CodecInv ==
    /\ tile0 # "codec" => rst_dac
    /\ port0 > 0 \/ tile1 # "codec" => tile0 = "up"

(* The next block to be paired: the one in hand, 0, or the place in        *)
(* mic_buf; the block after the last is the one the microphones fill.      *)
First == IF input = "i2s" THEN 0 ELSE IF input = "mic" THEN 1 ELSE 2

Block(j) == IF j = 0 THEN mic_frame
            ELSE IF j <= Len(mic_buf) THEN mic_buf[j] ELSE now - block_time

(* The ring has, in time, at least what the blocks to be paired have.      *)
Ahead == SamplePeriod * Len(i2s_buf) + phase
            >= BlockPeriod * (Len(mic_buf) + 1 - First) + block_time

(* No sample of the ring is newer than the one of a block that it meets.   *)
Place(j, k) == FrameAdvance * (j - First) + k
Older ==
    \A j \in First .. Len(mic_buf) + 1, k \in Sample :
        Place(j, k) <= Len(i2s_buf) => i2s_buf[Place(j, k)] <= Block(j) + SamplePeriod * k

Paired == IF input = "wait" THEN mic_buf # <<>> ELSE Flushed /\ ~ i2s_lost

PairInv ==
    /\ input # "none" => tile1 = "up"
    /\ \A n \in 1 .. Len(i2s_buf) : i2s_buf[n] <= now
    /\ RingRefusesFirst /\ ReferenceNotNewer
    /\ Paired => Ahead /\ Older

(* What the drivers hold beyond the blocks to be paired: what the clock    *)
(* adds to the ring it adds to the blocks.                                 *)
Drift == SamplePeriod * Len(i2s_buf) + phase
            - BlockPeriod * (Len(mic_buf) + 1 - First) - block_time

(* What came in since the flush is told in time by its place: a sample     *)
(* whose place, with the frames taken, is past what the ring could hold    *)
(* before the flush, and a block behind the first that was kept.           *)
RingDated ==
    \A n \in 1 .. Len(i2s_buf) :
        n + FrameAdvance * frames > I2sSamples =>
            i2s_buf[n] = now - phase - SamplePeriod * (Len(i2s_buf) - n)

BlocksDated ==
    \A j \in First .. Len(mic_buf) :
        frames > 0 \/ j > First =>
            Block(j) = now - block_time - BlockPeriod * (Len(mic_buf) + 1 - j)

MaxLag == SamplePeriod * (I2sSamples - FrameAdvance + 1)

LagInv ==
    /\ ~ Flushed => frames = 0
    /\ ~ i2s_lost =>
          /\ RingDated
          /\ Flushed => BlocksDated
          /\ frames > StaleFrames =>
                \A k \in Sample : Lag(frame, k) = Drift /\ Lag(frame, k) < MaxLag
-----------------------------------------------------------------------------
LEMMA Periods == BlockPeriod = 3 * FrameAdvance /\ BlockPeriod \in Nat \ {0}
BY AudioInputAssumption DEF BlockPeriod, SamplePeriod

(* Queues.                                                                 *)
LEMMA TailOf ==
    ASSUME NEW S, NEW q \in Seq(S), q # <<>>
    PROVE  /\ Tail(q) \in Seq(S) /\ Len(Tail(q)) = Len(q) - 1 /\ Len(q) \in Nat \ {0}
           /\ Head(q) = q[1] /\ Head(q) \in S
           /\ \A i \in 1 .. Len(q) - 1 : Tail(q)[i] = q[i + 1]
OBVIOUS

LEMMA AppendOf ==
    ASSUME NEW S, NEW q \in Seq(S), NEW e \in S
    PROVE  /\ Append(q, e) \in Seq(S) /\ Len(Append(q, e)) = Len(q) + 1
           /\ \A i \in 1 .. Len(q) : Append(q, e)[i] = q[i]
           /\ Append(q, e)[Len(q) + 1] = e
OBVIOUS

LEMMA SplitOf ==
    ASSUME NEW S, NEW q \in Seq(S), NEW n \in Nat, n <= Len(q)
    PROVE  /\ SubSeq(q, 1, n) \in Seq(S)
           /\ \A i \in 1 .. n : SubSeq(q, 1, n)[i] = q[i]
           /\ SubSeq(q, n + 1, Len(q)) \in Seq(S)
           /\ Len(SubSeq(q, n + 1, Len(q))) = Len(q) - n
           /\ \A i \in 1 .. Len(q) - n : SubSeq(q, n + 1, Len(q))[i] = q[n + i]
OBVIOUS
-----------------------------------------------------------------------------
(* Types.                                                                  *)
LEMMA InitType == Init => AudioInputTypeOK
<1>1. /\ <<>> \in Seq(Int) /\ <<>> \in Seq(Nat) /\ Len(<<>>) = 0
  OBVIOUS
<1>2. 0 \in 0 .. BlockPeriod - 1 /\ 0 <= MicBlocks /\ 0 <= I2sSamples
  BY AudioInputAssumption, Periods DEF MicBlocks
<1>3. NoFrame \in [mic : Int, ref : Seq(Nat)]
  BY <1>1 DEF NoFrame
<1> SUFFICES ASSUME Init PROVE AudioInputTypeOK
  OBVIOUS
<1>4. rst_dac \in BOOLEAN /\ mic_lost \in BOOLEAN /\ i2s_lost \in BOOLEAN
  BY Zenon DEF Init
<1>5. /\ port0 \in Nat /\ now \in Nat /\ phase \in 0 .. 2 /\ frames \in Nat
      /\ mic_frame \in Int
  BY DEF Init
<1> QED BY <1>1, <1>2, <1>3, <1>4, <1>5, Zenon DEF Init, AudioInputTypeOK

LEMMA TickType == AudioInputTypeOK /\ Tick => AudioInputTypeOK'
<1> SUFFICES ASSUME AudioInputTypeOK, Tick PROVE AudioInputTypeOK'
  OBVIOUS
<1> USE AudioInputAssumption, Periods
<1>1. now' = now + 1 /\ now' \in Nat /\ UNCHANGED <<startVars, inputVars>>
  BY DEF Tick, AudioInputTypeOK
<1>2. /\ block_time' \in 0 .. BlockPeriod - 1 /\ mic_lost' \in BOOLEAN
      /\ mic_buf' \in Seq(Int) /\ Len(mic_buf') <= MicBlocks
  <2>1. CASE block_time = BlockPeriod - 1 /\ MicHasRoom
    <3>1. mic_buf' = Append(mic_buf, now' - BlockPeriod) /\ now' - BlockPeriod \in Int
      BY <1>1, <2>1 DEF Tick, MicTick
    <3>2. mic_buf' \in Seq(Int) /\ Len(mic_buf') = Len(mic_buf) + 1
      BY <3>1, AppendOf DEF AudioInputTypeOK
    <3> QED BY <2>1, <3>2 DEF Tick, MicTick, AudioInputTypeOK, MicHasRoom, MicBlocks
  <2>2. CASE block_time = BlockPeriod - 1 /\ ~ MicHasRoom
    BY <2>2 DEF Tick, MicTick, AudioInputTypeOK
  <2>3. CASE block_time # BlockPeriod - 1
    BY <2>3 DEF Tick, MicTick, AudioInputTypeOK
  <2> QED BY <2>1, <2>2, <2>3
<1>3. /\ phase' \in 0 .. 2 /\ i2s_lost' \in BOOLEAN
      /\ i2s_buf' \in Seq(Nat) /\ Len(i2s_buf') <= I2sSamples
  <2>1. CASE I2sRunning /\ phase = 2 /\ I2sHasRoom
    <3>1. i2s_buf' = Append(i2s_buf, now')
      BY <2>1 DEF Tick, I2sTick
    <3>2. i2s_buf' \in Seq(Nat) /\ Len(i2s_buf') = Len(i2s_buf) + 1
      BY <1>1, <3>1, AppendOf DEF AudioInputTypeOK
    <3> QED BY <2>1, <3>2 DEF Tick, I2sTick, AudioInputTypeOK, I2sHasRoom, NextPhase
  <2>2. CASE I2sRunning /\ ~ (phase = 2 /\ I2sHasRoom)
    <3>1. i2s_buf' = i2s_buf /\ phase' = NextPhase
      BY <2>2 DEF Tick, I2sTick
    <3>2. i2s_lost' \in BOOLEAN
      BY <2>2 DEF Tick, I2sTick, AudioInputTypeOK
    <3> QED BY <3>1, <3>2 DEF AudioInputTypeOK, NextPhase
  <2>3. CASE ~ I2sRunning
    BY <2>3 DEF Tick, I2sTick, AudioInputTypeOK
  <2> QED BY <2>1, <2>2, <2>3
<1> QED BY <1>1, <1>2, <1>3 DEF AudioInputTypeOK, startVars, inputVars

LEMMA NextType == AudioInputTypeOK /\ [Next]_vars => AudioInputTypeOK'
<1> SUFFICES ASSUME AudioInputTypeOK, [Next]_vars PROVE AudioInputTypeOK'
  OBVIOUS
<1> USE DEF AudioInputTypeOK, startVars, clockVars, inputVars
<1>1. CASE StartupTask
  <2>1. UNCHANGED <<clockVars, mic_buf, i2s_buf, mic_frame, frame, frames>>
    BY <1>1 DEF StartupTask, CodecStartTile0, CodecStartTile1, MicsStart, I2sStart,
                PipelineInit, Start
  <2>2. rst_dac' \in BOOLEAN
    BY <1>1, Zenon DEF StartupTask, CodecStartTile0, CodecStartTile1, MicsStart, I2sStart,
                       PipelineInit, Start
  <2>3. CASE CodecStartTile0
    BY <2>1, <2>2, <2>3 DEF CodecStartTile0
  <2>4. CASE CodecStartTile1
    BY <2>1, <2>2, <2>4 DEF CodecStartTile1
  <2>5. CASE MicsStart \/ I2sStart \/ PipelineInit
    BY <2>1, <2>2, <2>5 DEF MicsStart, I2sStart, PipelineInit, Start
  <2> QED BY <1>1, <2>3, <2>4, <2>5 DEF StartupTask
<1>2. CASE Tick
  BY <1>2, TickType
<1>3. CASE FlushPoll \/ FlushWait
  <2>1. mic_buf' = mic_buf \/ (mic_buf # <<>> /\ mic_buf' = Tail(mic_buf))
    BY <1>3 DEF FlushPoll, FlushWait
  <2>2. mic_buf' \in Seq(Int) /\ Len(mic_buf') <= MicBlocks
    <3>1. CASE mic_buf' = mic_buf
      BY <3>1
    <3>2. CASE mic_buf # <<>> /\ mic_buf' = Tail(mic_buf)
      <4>1. mic_buf' \in Seq(Int) /\ Len(mic_buf') = Len(mic_buf) - 1 /\ Len(mic_buf) \in Nat
        BY <3>2, TailOf
      <4> QED BY <4>1 DEF MicBlocks
    <3> QED BY <2>1, <3>1, <3>2
  <2> QED BY <1>3, <2>2 DEF FlushPoll, FlushWait
<1>4. CASE MicRx
  <2>1. mic_buf' \in Seq(Int) /\ Len(mic_buf') <= MicBlocks /\ mic_frame' \in Int
    <3>1. /\ mic_buf' \in Seq(Int) /\ Len(mic_buf') = Len(mic_buf) - 1
          /\ Len(mic_buf) \in Nat /\ mic_frame' \in Int
      BY <1>4, TailOf DEF MicRx
    <3> QED BY <3>1 DEF MicBlocks
  <2> QED BY <1>4, <2>1 DEF MicRx
<1>5. CASE I2sRx
  <2>1. /\ i2s_buf' \in Seq(Nat) /\ Len(i2s_buf') <= I2sSamples
        /\ SubSeq(i2s_buf, 1, FrameAdvance) \in Seq(Nat)
    <3>1. FrameAdvance \in Nat /\ FrameAdvance <= Len(i2s_buf) /\ Len(i2s_buf) \in Nat
      BY <1>5, AudioInputAssumption DEF I2sRx, I2sReady
    <3>2. /\ i2s_buf' \in Seq(Nat) /\ Len(i2s_buf') = Len(i2s_buf) - FrameAdvance
          /\ SubSeq(i2s_buf, 1, FrameAdvance) \in Seq(Nat)
      BY <1>5, <3>1, SplitOf DEF I2sRx, LeftInRing
    <3>3. I2sSamples \in Nat
      BY AudioInputAssumption
    <3> QED BY <3>1, <3>2, <3>3
  <2> QED BY <1>5, <2>1 DEF I2sRx
<1>6. CASE UNCHANGED vars
  BY <1>6 DEF vars
<1> QED BY <1>1, <1>2, <1>3, <1>4, <1>5, <1>6 DEF Next, InputTask

(* No variable leaves its type, and no driver's buffer its bound.          *)
THEOREM AudioInputTypeCorrect == Spec => []AudioInputTypeOK
BY InitType, NextType, PTL DEF Spec
-----------------------------------------------------------------------------
(* The start.                                                              *)
LEMMA NextCodec ==
    AudioInputTypeOK /\ CodecInv /\ [Next]_vars => CodecInv'
<1> SUFFICES ASSUME AudioInputTypeOK, CodecInv, [Next]_vars PROVE CodecInv'
  OBVIOUS
<1> USE DEF CodecInv, startVars
<1>1. CASE StartupTask
  BY <1>1 DEF StartupTask, CodecStartTile0, CodecStartTile1, MicsStart, I2sStart,
              PipelineInit, Start, AudioInputTypeOK
<1>2. CASE UNCHANGED startVars
  BY <1>2
<1> QED BY <1>1, <1>2 DEF Next, Tick, InputTask, FlushPoll, FlushWait, MicRx, I2sRx, vars

(* The audio of tile 1 starts after the codec is out of reset.             *)
THEOREM CodecSafe == Spec => []CodecBeforeAudio
<1>1. Init => CodecInv
  BY DEF Init, CodecInv
<1>2. AudioInputTypeOK /\ CodecInv => CodecBeforeAudio
  BY DEF CodecInv, CodecBeforeAudio, MicsRunning, AudioInputTypeOK
<1> QED BY <1>1, <1>2, NextCodec, AudioInputTypeCorrect, PTL DEF Spec
-----------------------------------------------------------------------------
(* The pairing.  Blocks are counted from the next to be paired.            *)
LEMMA Monotone ==
    ASSUME NEW a \in Int, NEW b \in Int, a <= b, NEW c \in Nat
    PROVE  c * a \in Int /\ c * b \in Int /\ c * a <= c * b
<1>1. b - a \in Nat /\ c * (b - a) \in Nat
  OBVIOUS
<1>2. c * b = c * a + c * (b - a)
  OBVIOUS
<1> QED BY <1>1, <1>2

LEMMA OneMore ==
    ASSUME NEW a \in Int, NEW c \in Int
    PROVE  c * (a + 1) = c * a + c
OBVIOUS

LEMMA StepUp ==
    ASSUME NEW r \in Int, NEW m \in Int, NEW n \in Int, r >= m, n <= m + 1
    PROVE  r + 1 >= n
OBVIOUS

LEMMA PlaceTime ==
    ASSUME NEW d \in Int, NEW k \in Int
    PROVE  /\ FrameAdvance * d + k \in Int
           /\ 3 * (FrameAdvance * d + k) = BlockPeriod * d + 3 * k
<1>1. BlockPeriod * d = 3 * (FrameAdvance * d) /\ FrameAdvance * d \in Int
  BY Periods, AudioInputAssumption
<1> QED BY <1>1

(* What a period does to the microphones' blocks and to the ring.          *)
LEMMA MicStep ==
    ASSUME AudioInputTypeOK, Tick
    PROVE  /\ block_time < BlockPeriod - 1 =>
                block_time' = block_time + 1 /\ mic_buf' = mic_buf /\ mic_lost' = mic_lost
           /\ block_time = BlockPeriod - 1 /\ Len(mic_buf) < 2 =>
                /\ block_time' = 0 /\ mic_lost' = mic_lost
                /\ Len(mic_buf') = Len(mic_buf) + 1
                /\ \A j \in 1 .. Len(mic_buf) : mic_buf'[j] = mic_buf[j]
                /\ mic_buf'[Len(mic_buf) + 1] = now - block_time
           /\ block_time = BlockPeriod - 1 /\ ~ (Len(mic_buf) < 2) =>
                /\ block_time' = 0 /\ mic_buf' = mic_buf
                /\ mic_lost' = (mic_lost \/ Flushed)
<1>1. /\ now \in Nat /\ now' = now + 1 /\ BlockPeriod \in Nat
      /\ block_time \in 0 .. BlockPeriod - 1 /\ mic_buf \in Seq(Int)
      /\ mic_lost \in BOOLEAN
  BY Periods DEF Tick, AudioInputTypeOK
<1>2. CASE block_time < BlockPeriod - 1
  BY <1>1, <1>2 DEF Tick, MicTick
<1>3. CASE block_time = BlockPeriod - 1 /\ Len(mic_buf) < 2
  <2>1. /\ MicHasRoom /\ block_time' = 0 /\ now' - BlockPeriod = now - block_time
        /\ mic_buf' = Append(mic_buf, now' - BlockPeriod) /\ now' - BlockPeriod \in Int
    BY <1>1, <1>3 DEF Tick, MicTick, MicHasRoom, MicBlocks
  <2>2. mic_lost' = mic_lost
    BY <1>1, <1>3, <2>1 DEF Tick, MicTick
  <2> QED BY <1>1, <1>3, <2>1, <2>2, AppendOf
<1>4. CASE block_time = BlockPeriod - 1 /\ ~ (Len(mic_buf) < 2)
  BY <1>1, <1>4 DEF Tick, MicTick, MicHasRoom, MicBlocks
<1> QED BY <1>1, <1>2, <1>3, <1>4

LEMMA RingStep ==
    ASSUME AudioInputTypeOK, Tick, I2sRunning
    PROVE  /\ phase # 2 => phase' = phase + 1 /\ i2s_buf' = i2s_buf /\ i2s_lost' = i2s_lost
           /\ phase = 2 /\ Len(i2s_buf) < I2sSamples =>
                /\ phase' = 0 /\ i2s_lost' = i2s_lost
                /\ Len(i2s_buf') = Len(i2s_buf) + 1
                /\ \A n \in 1 .. Len(i2s_buf) : i2s_buf'[n] = i2s_buf[n]
                /\ i2s_buf'[Len(i2s_buf) + 1] = now + 1
           /\ phase = 2 /\ Len(i2s_buf) = I2sSamples =>
                /\ phase' = 0 /\ i2s_buf' = i2s_buf /\ i2s_lost' = (i2s_lost \/ Flushed)
<1>1. /\ now' = now + 1 /\ now' \in Nat /\ phase \in 0 .. 2 /\ i2s_buf \in Seq(Nat)
      /\ i2s_lost \in BOOLEAN
  BY DEF Tick, AudioInputTypeOK
<1>2. CASE phase # 2
  BY <1>1, <1>2 DEF Tick, I2sTick, NextPhase
<1>3. CASE phase = 2 /\ Len(i2s_buf) < I2sSamples
  <2>1. I2sHasRoom /\ phase' = 0 /\ i2s_buf' = Append(i2s_buf, now')
    BY <1>3 DEF Tick, I2sTick, NextPhase, I2sHasRoom
  <2>2. i2s_lost' = i2s_lost
    BY <1>1, <1>3, <2>1 DEF Tick, I2sTick
  <2> QED BY <1>1, <1>3, <2>1, <2>2, AppendOf
<1>4. CASE phase = 2 /\ Len(i2s_buf) = I2sSamples
  <2>1. ~ I2sHasRoom
    BY <1>4, AudioInputAssumption DEF I2sHasRoom
  <2> QED BY <1>1, <1>4, <2>1 DEF Tick, I2sTick, NextPhase
<1> QED BY <1>1, <1>2, <1>3, <1>4

LEMMA Ranges ==
    ASSUME AudioInputTypeOK
    PROVE  /\ FrameAdvance \in Nat \ {0} /\ BlockPeriod = 3 * FrameAdvance
           /\ I2sSamples \in Nat /\ 2 * FrameAdvance <= I2sSamples
           /\ I2sSamples <= 3 * FrameAdvance - 1
           /\ Len(mic_buf) \in Nat /\ Len(mic_buf) <= 2
           /\ Len(i2s_buf) \in Nat /\ Len(i2s_buf) <= I2sSamples
           /\ now \in Nat /\ block_time \in 0 .. BlockPeriod - 1 /\ phase \in 0 .. 2
           /\ First \in 0 .. 2 /\ First \in Int
<1>1. First \in 0 .. 2 /\ First \in Int
  BY DEF First
<1>2. Len(mic_buf) \in Nat /\ Len(mic_buf) <= 2 /\ Len(i2s_buf) \in Nat
  <2>1. mic_buf \in Seq(Int) /\ i2s_buf \in Seq(Nat) /\ Len(mic_buf) <= 2
    BY DEF AudioInputTypeOK, MicBlocks
  <2> QED BY <2>1
<1>3. /\ I2sSamples \in Nat /\ 2 * FrameAdvance <= I2sSamples
      /\ I2sSamples <= 3 * FrameAdvance - 1
  BY AudioInputAssumption
<1> QED BY <1>1, <1>2, <1>3, Periods, AudioInputAssumption DEF AudioInputTypeOK

(* The microphones gain a period, or lose a block.                         *)
LEMMA MicGain ==
    ASSUME AudioInputTypeOK, Tick
    PROVE  /\ Len(mic_buf') \in Nat /\ Len(mic_buf') <= 2 /\ block_time' \in 0 .. BlockPeriod - 1
           /\ \/ /\ block_time < BlockPeriod - 1
                 /\ block_time' = block_time + 1 /\ Len(mic_buf') = Len(mic_buf)
              \/ /\ block_time = BlockPeriod - 1
                 /\ block_time' = 0 /\ Len(mic_buf') = Len(mic_buf) + 1
              \/ /\ block_time = BlockPeriod - 1
                 /\ block_time' = 0 /\ Len(mic_buf') = Len(mic_buf)
<1>1. /\ Len(mic_buf) \in Nat /\ Len(mic_buf) <= 2 /\ block_time \in 0 .. BlockPeriod - 1
      /\ BlockPeriod \in Nat \ {0}
  BY Ranges, Periods
<1>2. CASE block_time < BlockPeriod - 1
  BY <1>1, <1>2, MicStep
<1>3. CASE block_time = BlockPeriod - 1 /\ Len(mic_buf) < 2
  BY <1>1, <1>3, MicStep
<1>4. CASE block_time = BlockPeriod - 1 /\ ~ (Len(mic_buf) < 2)
  <2>1. block_time' = 0 /\ mic_buf' = mic_buf
    BY <1>4, MicStep
  <2> QED BY <1>1, <1>4, <2>1
<1>5. \/ block_time < BlockPeriod - 1
      \/ block_time = BlockPeriod - 1 /\ Len(mic_buf) < 2
      \/ block_time = BlockPeriod - 1 /\ ~ (Len(mic_buf) < 2)
  BY <1>1
<1> QED BY <1>2, <1>3, <1>4, <1>5, Zenon

(* The ring gains a period, or has no room.                                *)
LEMMA RingGain ==
    ASSUME AudioInputTypeOK, Tick, I2sRunning, ~ (phase = 2 /\ Len(i2s_buf) = I2sSamples)
    PROVE  3 * Len(i2s_buf') + phase' = 3 * Len(i2s_buf) + phase + 1
<1>1. Len(i2s_buf) \in Nat /\ Len(i2s_buf) <= I2sSamples /\ phase \in 0 .. 2
  BY Ranges
<1>2. I2sSamples \in Nat
  BY AudioInputAssumption
<1>3. CASE phase # 2
  <2>1. phase' = phase + 1 /\ i2s_buf' = i2s_buf
    BY <1>3, RingStep
  <2> QED BY <1>1, <2>1
<1>4. CASE phase = 2 /\ Len(i2s_buf) < I2sSamples
  <2>1. phase' = 0 /\ Len(i2s_buf') = Len(i2s_buf) + 1
    BY <1>4, RingStep
  <2> QED BY <1>1, <1>4, <2>1
<1> QED BY <1>1, <1>2, <1>3, <1>4

LEMMA TickAhead ==
    ASSUME AudioInputTypeOK, PairInv, Tick, Paired'
    PROVE  Ahead'
<1>1. /\ input' = input /\ First' = First /\ tile1' = tile1
      /\ input \in {"none", "flush", "wait", "mic", "i2s"}
  BY DEF Tick, inputVars, startVars, First, AudioInputTypeOK
<1>2. I2sRunning /\ input \in {"wait", "mic", "i2s"}
  BY <1>1 DEF Paired, Flushed, PairInv, I2sRunning
<1> DEFINE X == Len(mic_buf) + 1 - First
           Y == Len(mic_buf') + 1 - First
<1>3. CASE ~ Paired
  <2>1. input = "wait" /\ mic_buf = <<>> /\ mic_buf' # <<>>
    <3>1. i2s_lost \in BOOLEAN /\ (i2s_lost => i2s_lost')
      BY <1>2, RingStep DEF Tick, I2sTick, AudioInputTypeOK
    <3> QED BY <1>1, <1>2, <1>3, <3>1 DEF Paired, Flushed
  <2>2. Len(mic_buf) = 0 /\ First = 2
    BY <2>1 DEF First
  <2>3. block_time = BlockPeriod - 1
    BY <2>1, MicStep, Ranges
  <2>4. block_time' = 0 /\ Len(mic_buf') = 1
    BY <2>2, <2>3, MicStep
  <2>5. AudioInputTypeOK'
    BY TickType
  <2>6. Len(i2s_buf') \in Nat /\ phase' \in Nat
    <3>1. i2s_buf' \in Seq(Nat) /\ phase' \in 0 .. 2
      BY <2>5 DEF AudioInputTypeOK
    <3> QED BY <3>1
  <2>7. BlockPeriod * (Len(mic_buf') + 1 - First') + block_time' = 0
    BY <1>1, <2>2, <2>4, Periods
  <2> QED BY <2>6, <2>7 DEF Ahead, SamplePeriod
<1>4. CASE Paired
  <2>1. 3 * Len(i2s_buf) + phase >= BlockPeriod * X + block_time
    BY <1>4 DEF PairInv, Ahead, SamplePeriod
  <2>2. X \in Int /\ BlockPeriod \in Nat /\ BlockPeriod * X \in Int
    <3>1. Len(mic_buf) \in Int /\ First \in Int
      BY Ranges
    <3>2. X \in Int
      BY <3>1
    <3>3. BlockPeriod \in Nat
      BY Periods
    <3> HIDE DEF X
    <3> QED BY <3>2, <3>3
  <2>3. /\ Y \in Int /\ BlockPeriod * Y \in Int /\ block_time' \in 0 .. BlockPeriod - 1
        /\ BlockPeriod * Y + block_time' <= BlockPeriod * X + block_time + 1
    <3>1. /\ Len(mic_buf) \in Int /\ First \in Int /\ Len(mic_buf') \in Int
          /\ block_time \in Nat /\ block_time' \in 0 .. BlockPeriod - 1
      BY MicGain, Ranges
    <3>2. CASE Y = X /\ block_time' <= block_time + 1
      BY <2>2, <3>1, <3>2
    <3>3. CASE Y = X + 1 /\ block_time = BlockPeriod - 1 /\ block_time' = 0
      <4>1. BlockPeriod * (X + 1) = BlockPeriod * X + BlockPeriod
        BY <2>2
      <4> QED BY <2>2, <3>1, <3>3, <4>1
    <3> QED BY <3>1, <3>2, <3>3, MicGain
  <2>4. CASE ~ (phase = 2 /\ Len(i2s_buf) = I2sSamples)
    <3>1. 3 * Len(i2s_buf') + phase' = 3 * Len(i2s_buf) + phase + 1
      BY <1>2, <2>4, RingGain
    <3>2. 3 * Len(i2s_buf') + phase' >= BlockPeriod * Y + block_time'
      <4>1. Len(i2s_buf) \in Nat /\ phase \in Nat /\ block_time \in Nat
        BY Ranges
      <4>2. block_time' \in Nat
        BY <2>2, <2>3
      <4>3. BlockPeriod * X + block_time \in Int /\ BlockPeriod * Y + block_time' \in Int
        <5>1. BlockPeriod * X \in Int /\ BlockPeriod * Y \in Int
          BY <2>2, <2>3
        <5> HIDE DEF X, Y
        <5> QED BY <4>1, <4>2, <5>1
      <4>4. 3 * Len(i2s_buf) + phase \in Int
        BY <4>1
      <4> HIDE DEF X, Y
      <4> QED BY <2>1, <2>3, <3>1, <4>3, <4>4, StepUp
    <3> QED BY <1>1, <3>2 DEF Ahead, SamplePeriod
  <2>5. CASE phase = 2 /\ Len(i2s_buf) = I2sSamples
    <3>1. phase' = 0 /\ i2s_buf' = i2s_buf /\ i2s_lost' = (i2s_lost \/ Flushed)
      BY <1>2, <2>5, RingStep
    <3>2. input = "wait"
      BY <1>1, <1>2, <3>1 DEF Paired, Flushed
    <3>3. First = 2 /\ Len(mic_buf') <= 2 /\ Len(mic_buf') \in Nat
      <4>1. First = 2
        BY <3>2 DEF First
      <4>2. Len(mic_buf') \in Nat /\ Len(mic_buf') <= 2
        BY MicGain
      <4> QED BY <4>1, <4>2
    <3>4. Y <= 1
      BY <3>3
    <3>5. BlockPeriod * Y <= BlockPeriod * 1
      BY <2>2, <2>3, <3>4, Monotone
    <3>6. 3 * Len(i2s_buf') + phase' >= BlockPeriod * Y + block_time'
      <4>1. /\ Len(i2s_buf) \in Nat /\ FrameAdvance \in Nat /\ I2sSamples \in Nat
            /\ 2 * FrameAdvance <= I2sSamples /\ BlockPeriod = 3 * FrameAdvance
        BY Ranges
      <4>2. block_time' \in Nat /\ block_time' < BlockPeriod
        BY <2>2, <2>3
      <4> HIDE DEF X, Y
      <4> QED BY <2>2, <2>3, <2>5, <3>1, <3>5, <4>1, <4>2
    <3> QED BY <1>1, <3>6 DEF Ahead, SamplePeriod
  <2> QED BY <2>4, <2>5
<1> QED BY <1>3, <1>4

(* Where a sample of the ring is, and what a period adds to it.            *)
LEMMA RingAfter ==
    ASSUME AudioInputTypeOK, Tick, I2sRunning, NEW n \in 1 .. Len(i2s_buf')
    PROVE  \/ n \in 1 .. Len(i2s_buf) /\ i2s_buf'[n] = i2s_buf[n]
           \/ n = Len(i2s_buf) + 1 /\ i2s_buf'[n] = now + 1 /\ phase = 2
<1>1. /\ Len(i2s_buf) \in Nat /\ Len(i2s_buf) <= I2sSamples /\ phase \in 0 .. 2
      /\ I2sSamples \in Nat
  BY Ranges
<1>2. CASE phase = 2 /\ Len(i2s_buf) < I2sSamples
  BY <1>1, <1>2, RingStep
<1>3. CASE ~ (phase = 2 /\ Len(i2s_buf) < I2sSamples)
  <2>1. i2s_buf' = i2s_buf
    BY <1>1, <1>3, RingStep
  <2> QED BY <2>1
<1> QED BY <1>2, <1>3

LEMMA RingOld ==
    ASSUME AudioInputTypeOK, PairInv, Tick, I2sRunning, NEW n \in 1 .. Len(i2s_buf')
    PROVE  i2s_buf'[n] <= now + 1 /\ i2s_buf'[n] \in Int
<1>1. now \in Nat /\ i2s_buf \in Seq(Nat)
  BY DEF AudioInputTypeOK
<1>2. CASE n \in 1 .. Len(i2s_buf) /\ i2s_buf'[n] = i2s_buf[n]
  <2>1. i2s_buf[n] <= now /\ i2s_buf[n] \in Nat
    BY <1>1, <1>2 DEF PairInv
  <2> QED BY <1>1, <1>2, <2>1
<1>3. CASE i2s_buf'[n] = now + 1
  BY <1>1, <1>3
<1> QED BY <1>2, <1>3, RingAfter

(* A period leaves the blocks where they are, the one being filled too.    *)
LEMMA BlockAfter ==
    ASSUME AudioInputTypeOK, Tick, NEW j \in First .. Len(mic_buf') + 1
    PROVE  /\ Block(j)' \in Int
           /\ \/ j \in First .. Len(mic_buf) + 1 /\ Block(j)' = Block(j)
              \/ j = Len(mic_buf') + 1 /\ Block(j)' = now + 1
<1>1. /\ now \in Nat /\ now' = now + 1 /\ mic_frame' = mic_frame
      /\ mic_buf \in Seq(Int) /\ mic_frame \in Int /\ Len(mic_buf) \in Nat
      /\ block_time \in Nat /\ BlockPeriod \in Nat /\ First \in Nat
  <2>1. now' = now + 1 /\ mic_frame' = mic_frame
    BY DEF Tick, inputVars
  <2>2. now \in Nat /\ mic_buf \in Seq(Int) /\ mic_frame \in Int
    BY DEF AudioInputTypeOK
  <2>3. /\ Len(mic_buf) \in Nat /\ block_time \in 0 .. BlockPeriod - 1 /\ BlockPeriod \in Nat
        /\ First \in 0 .. 2
    BY Ranges, Periods
  <2>4. block_time \in Nat /\ First \in Nat
    BY <2>3
  <2> QED BY <2>1, <2>2, <2>3, <2>4
<1>2. CASE block_time < BlockPeriod - 1
  <2>1. block_time' = block_time + 1 /\ mic_buf' = mic_buf
    BY <1>2, MicStep
  <2>2. j \in First .. Len(mic_buf) + 1 /\ Block(j)' = Block(j)
    BY <1>1, <2>1 DEF Block
  <2>3. Block(j) \in Int
    BY <1>1, <2>1, <2>2 DEF Block
  <2> QED BY <2>2, <2>3
<1>3. CASE block_time = BlockPeriod - 1 /\ Len(mic_buf) < 2
  <2>1. /\ block_time' = 0 /\ Len(mic_buf') = Len(mic_buf) + 1
        /\ \A i \in 1 .. Len(mic_buf) : mic_buf'[i] = mic_buf[i]
        /\ mic_buf'[Len(mic_buf) + 1] = now - block_time
    BY <1>3, MicStep
  <2>2. CASE j = Len(mic_buf') + 1
    BY <1>1, <2>1, <2>2 DEF Block
  <2>3. CASE j = Len(mic_buf) + 1
    BY <1>1, <2>1, <2>3 DEF Block
  <2>4. CASE j <= Len(mic_buf)
    <3>1. j = 0 \/ j \in 1 .. Len(mic_buf)
      BY <1>1, <2>4
    <3> QED BY <1>1, <2>1, <2>4, <3>1 DEF Block
  <2>5. j \in Int /\ j <= Len(mic_buf) + 2
    BY <1>1, <2>1
  <2> QED BY <1>1, <2>1, <2>2, <2>3, <2>4, <2>5
<1>4. CASE block_time = BlockPeriod - 1 /\ ~ (Len(mic_buf) < 2)
  <2>1. block_time' = 0 /\ mic_buf' = mic_buf
    BY <1>4, MicStep
  <2>2. CASE j = Len(mic_buf') + 1
    BY <1>1, <2>1, <2>2 DEF Block
  <2>3. CASE j # Len(mic_buf') + 1
    <3>1. j = 0 \/ j \in 1 .. Len(mic_buf)
      BY <1>1, <2>1, <2>3
    <3> QED BY <1>1, <2>1, <2>3, <3>1 DEF Block
  <2> QED BY <2>2, <2>3
<1>5. \/ block_time < BlockPeriod - 1
      \/ block_time = BlockPeriod - 1 /\ Len(mic_buf) < 2
      \/ block_time = BlockPeriod - 1 /\ ~ (Len(mic_buf) < 2)
  <2>1. block_time \in 0 .. BlockPeriod - 1 /\ BlockPeriod \in Nat \ {0}
    BY Ranges, Periods
  <2> QED BY <2>1
<1> QED BY <1>2, <1>3, <1>4, <1>5

LEMMA TickOlder ==
    ASSUME AudioInputTypeOK, PairInv, Tick, Paired'
    PROVE  Older'
<1>1. /\ input' = input /\ First' = First
      /\ input \in {"none", "flush", "wait", "mic", "i2s"}
  BY DEF Tick, inputVars, First, AudioInputTypeOK
<1>2. I2sRunning
  BY <1>1 DEF Paired, Flushed, PairInv, I2sRunning
<1> SUFFICES ASSUME NEW j \in First' .. Len(mic_buf') + 1, NEW k \in Sample,
                    Place(j, k)' <= Len(i2s_buf')
             PROVE  i2s_buf'[Place(j, k)'] <= Block(j)' + SamplePeriod * k
  BY DEF Older
<1> DEFINE n == FrameAdvance * (j - First) + k
           X == Len(mic_buf) + 1 - First
<1>3. /\ j \in First .. Len(mic_buf') + 1 /\ Place(j, k)' = n
      /\ k \in Nat /\ 1 <= k /\ k <= FrameAdvance /\ FrameAdvance \in Nat
      /\ First \in Nat /\ j - First \in Nat
  <2>1. Place(j, k)' = n
    BY <1>1, Zenon DEF Place
  <2>2. First \in Nat /\ FrameAdvance \in Nat
    <3>1. First \in 0 .. 2 /\ FrameAdvance \in Nat \ {0}
      BY Ranges, Zenon
    <3> QED BY <3>1
  <2>3. k \in Nat /\ 1 <= k /\ k <= FrameAdvance
    BY <2>2 DEF Sample
  <2>4. j \in First .. Len(mic_buf') + 1
    BY <1>1, Zenon
  <2>5. j - First \in Nat
    <3> HIDE DEF Place
    <3> QED BY <2>2, <2>4
  <2> HIDE DEF n
  <2> QED BY <2>1, <2>2, <2>3, <2>4, <2>5
<1>4. n \in 1 .. Len(i2s_buf')
  <2>1. FrameAdvance * (j - First) \in Nat
    BY <1>3
  <2>2. n \in Nat /\ 1 <= n /\ n <= Len(i2s_buf')
    BY <1>3, <2>1
  <2>3. AudioInputTypeOK'
    BY TickType
  <2>4. Len(i2s_buf') \in Nat
    <3>1. i2s_buf' \in Seq(Nat)
      BY <2>3 DEF AudioInputTypeOK
    <3> QED BY <3>1
  <2> HIDE DEF n
  <2> QED BY <2>2, <2>4
<1> HIDE DEF n
<1>5. now \in Nat /\ i2s_buf'[n] \in Int /\ i2s_buf'[n] <= now + 1
  BY <1>2, <1>4, RingOld, Ranges
<1>6. CASE Block(j)' = now + 1
  BY <1>3, <1>5, <1>6 DEF SamplePeriod
<1>7. CASE j \in First .. Len(mic_buf) + 1 /\ Block(j)' = Block(j)
  <2>1. Paired
    <3>1. CASE input = "wait"
      <4>1. First = 2 /\ Len(mic_buf) \in Nat
        BY <3>1, Ranges DEF First
      <4>2. Len(mic_buf) # 0
        BY <1>7, <4>1
      <4> QED BY <3>1, <4>2 DEF Paired
    <3>2. CASE input # "wait"
      <4>1. Flushed /\ ~ i2s_lost'
        BY <1>1, <3>2 DEF Paired, Flushed
      <4>2. ~ i2s_lost
        <5>1. CASE phase = 2
          BY <1>2, <4>1, <5>1 DEF Tick, I2sTick
        <5>2. CASE phase # 2
          BY <1>2, <4>1, <5>2 DEF Tick, I2sTick
        <5> QED BY <5>1, <5>2
      <4> QED BY <3>2, <4>1, <4>2 DEF Paired
    <3> QED BY <3>1, <3>2
  <2>2. Ahead /\ Older
    BY <2>1 DEF PairInv
  <2>3. CASE n \in 1 .. Len(i2s_buf) /\ i2s_buf'[n] = i2s_buf[n]
    <3>1. n = Place(j, k) /\ n <= Len(i2s_buf)
      BY <1>3, <2>3, Ranges DEF Place, n
    <3>2. i2s_buf[n] <= Block(j) + SamplePeriod * k
      BY <1>7, <2>2, <3>1 DEF Older
    <3> QED BY <1>3, <1>7, <2>3, <3>2
  <2>4. CASE n = Len(i2s_buf) + 1 /\ i2s_buf'[n] = now + 1 /\ phase = 2
    <3>1. /\ 3 * n = BlockPeriod * (j - First) + 3 * k /\ BlockPeriod = 3 * FrameAdvance
          /\ BlockPeriod * (j - First) \in Int /\ BlockPeriod * X \in Int
          /\ block_time \in Nat /\ now \in Nat /\ X \in Int
      BY <1>3, PlaceTime, Ranges DEF n
    <3>2. 3 * n >= BlockPeriod * X + block_time + 1
      <4>1. 3 * Len(i2s_buf) + 2 >= BlockPeriod * X + block_time
        BY <2>2, <2>4 DEF Ahead, SamplePeriod
      <4>2. 3 * n = 3 * Len(i2s_buf) + 3 /\ Len(i2s_buf) \in Nat
        BY <2>4, Ranges
      <4> HIDE DEF X
      <4> QED BY <3>1, <4>1, <4>2
    <3>3. CASE j <= Len(mic_buf)
      <4>1. j - First + 1 <= X /\ j - First + 1 \in Int
        BY <1>3, <3>3, Ranges
      <4>2. BlockPeriod * (j - First + 1) <= BlockPeriod * X
        BY <3>1, <4>1, Monotone, Periods
      <4>3. BlockPeriod * (j - First + 1) = BlockPeriod * (j - First) + BlockPeriod
        BY <1>3, <3>1
      <4>4. 3 * k <= BlockPeriod
        BY <1>3, <3>1
      <4> HIDE DEF X
      <4>5. BlockPeriod * (j - First) + 3 * k <= BlockPeriod * X
        BY <1>3, <3>1, <4>2, <4>3, <4>4
      <4> QED BY <1>3, <3>1, <3>2, <4>5
    <3>4. CASE j = Len(mic_buf) + 1
      <4>1. Block(j) = now - block_time /\ j - First = X
        <5>1. Len(mic_buf) \in Nat /\ First \in Nat
          BY Ranges
        <5>2. j # 0 /\ ~ (j <= Len(mic_buf)) /\ j - First = X
          BY <3>4, <5>1
        <5> QED BY <5>2, Zenon DEF Block
      <4>2. 3 * k >= block_time + 1
        BY <1>3, <3>1, <3>2, <4>1
      <4> QED BY <1>3, <1>7, <2>4, <3>1, <4>1, <4>2 DEF SamplePeriod
    <3> QED BY <1>7, <3>3, <3>4, Ranges
  <2> QED BY <1>2, <1>4, <2>3, <2>4, RingAfter
<1> QED BY <1>3, <1>6, <1>7, BlockAfter

(* The ring refuses a sample before the microphones lose a block.          *)
LEMMA TickLoss ==
    ASSUME AudioInputTypeOK, PairInv, Tick
    PROVE  (i2s_lost => i2s_lost') /\ RingRefusesFirst'
<1>1. /\ i2s_lost \in BOOLEAN /\ mic_lost \in BOOLEAN
      /\ input \in {"none", "flush", "wait", "mic", "i2s"}
  BY DEF AudioInputTypeOK
<1>2. i2s_lost => i2s_lost'
  BY <1>1 DEF Tick, I2sTick
<1>3. ASSUME mic_lost', ~ i2s_lost' PROVE FALSE
  <2>1. ~ i2s_lost /\ ~ mic_lost
    BY <1>2, <1>3 DEF PairInv, RingRefusesFirst
  <2>2. Flushed /\ block_time = BlockPeriod - 1 /\ ~ (Len(mic_buf) < 2)
    <3>1. CASE block_time # BlockPeriod - 1
      BY <1>3, <2>1, <3>1 DEF Tick, MicTick
    <3>2. CASE block_time = BlockPeriod - 1 /\ MicHasRoom
      BY <1>3, <2>1, <3>2 DEF Tick, MicTick
    <3>3. CASE block_time = BlockPeriod - 1 /\ ~ MicHasRoom
      <4>1. mic_lost' = (mic_lost \/ Flushed)
        BY <1>1, <3>3 DEF Tick, MicTick
      <4>2. ~ (Len(mic_buf) < 2)
        BY <3>3 DEF MicHasRoom, MicBlocks
      <4> QED BY <1>3, <2>1, <3>3, <4>1, <4>2
    <3> QED BY <3>1, <3>2, <3>3
  <2>3. input \in {"mic", "i2s"} /\ I2sRunning /\ Paired
    BY <2>1, <2>2 DEF Flushed, PairInv, I2sRunning, Paired
  <2>4. First <= 1 /\ First \in Nat
    BY <2>3 DEF First
  <2>5. /\ Len(mic_buf) + 1 - First >= 2 /\ Len(mic_buf) + 1 - First \in Int
        /\ Len(mic_buf) \in Nat
    BY <2>2, <2>4, Ranges
  <2>6. BlockPeriod * 2 <= BlockPeriod * (Len(mic_buf) + 1 - First)
    BY <2>5, Monotone, Periods
  <2>7. 3 * Len(i2s_buf) + phase >= BlockPeriod * (Len(mic_buf) + 1 - First) + block_time
    BY <2>3 DEF PairInv, Ahead, SamplePeriod
  <2>8. BlockPeriod * (Len(mic_buf) + 1 - First) \in Int
    BY <2>5, Periods
  <2>9. 3 * Len(i2s_buf) + phase >= 9 * FrameAdvance - 1
    <3> DEFINE B == BlockPeriod * (Len(mic_buf) + 1 - First)
               R == 3 * Len(i2s_buf) + phase
    <3>1. R \in Int /\ FrameAdvance \in Nat /\ BlockPeriod = 3 * FrameAdvance
      BY Ranges
    <3>2. B \in Int /\ R >= B + (BlockPeriod - 1) /\ B >= BlockPeriod * 2
      BY <2>2, <2>6, <2>7, <2>8, <3>1
    <3> HIDE DEF B, R
    <3>3. R >= 9 * FrameAdvance - 1
      BY <3>1, <3>2
    <3> QED BY <3>3 DEF R
  <2>10. phase = 2 /\ Len(i2s_buf) = I2sSamples
    <3>1. /\ FrameAdvance \in Nat /\ I2sSamples \in Nat /\ I2sSamples <= 3 * FrameAdvance - 1
          /\ Len(i2s_buf) \in Nat /\ Len(i2s_buf) <= I2sSamples /\ phase \in Nat /\ phase <= 2
      BY Ranges
    <3> QED BY <2>9, <3>1
  <2>11. i2s_lost'
    BY <2>2, <2>3, <2>10, RingStep
  <2> QED BY <1>3, <2>11
<1> QED BY <1>2, <1>3 DEF RingRefusesFirst

LEMMA TickPair == AudioInputTypeOK /\ PairInv /\ Tick => PairInv'
<1> SUFFICES ASSUME AudioInputTypeOK, PairInv, Tick PROVE PairInv'
  OBVIOUS
<1>1. /\ input' = input /\ tile1' = tile1 /\ frame' = frame /\ frames' = frames
  BY DEF Tick, inputVars, startVars
<1>2. ASSUME NEW n \in 1 .. Len(i2s_buf') PROVE i2s_buf'[n] <= now'
  <2>1. now' = now + 1 /\ now \in Nat
    BY DEF Tick, AudioInputTypeOK
  <2>2. CASE I2sRunning
    BY <2>1, <2>2, RingOld
  <2>3. CASE ~ I2sRunning
    <3>1. i2s_buf' = i2s_buf /\ i2s_buf \in Seq(Nat)
      BY <2>3 DEF Tick, I2sTick, AudioInputTypeOK
    <3>2. i2s_buf[n] <= now /\ i2s_buf[n] \in Nat
      BY <3>1 DEF PairInv
    <3> QED BY <2>1, <3>1, <3>2
  <2> QED BY <2>2, <2>3
<1>3. ReferenceNotNewer'
  BY <1>1, TickLoss DEF PairInv, ReferenceNotNewer, Lag
<1>4. Paired' => Ahead' /\ Older'
  BY TickAhead, TickOlder
<1> QED BY <1>1, <1>2, <1>3, <1>4, TickLoss DEF PairInv

LEMMA StartPair == AudioInputTypeOK /\ PairInv /\ StartupTask => PairInv'
<1> SUFFICES ASSUME AudioInputTypeOK, PairInv, StartupTask PROVE PairInv'
  OBVIOUS
<1>1. /\ UNCHANGED <<now, i2s_buf, i2s_lost, mic_lost, frame, frames>>
      /\ ~ Paired' \/ UNCHANGED <<block_time, phase, mic_buf, input, mic_frame>>
      /\ input' # "none" => tile1' = "up"
  <2>1. CASE CodecStartTile0
    BY <2>1 DEF CodecStartTile0, clockVars, inputVars, PairInv
  <2>2. CASE CodecStartTile1 \/ MicsStart \/ I2sStart
    BY <2>2 DEF CodecStartTile1, MicsStart, I2sStart, Start, clockVars, inputVars, PairInv
  <2>3. CASE PipelineInit
    BY <2>3 DEF PipelineInit, Start, clockVars, Paired, Flushed
  <2> QED BY <2>1, <2>2, <2>3 DEF StartupTask
<1>2. ReferenceNotNewer' /\ RingRefusesFirst'
  BY <1>1, Zenon DEF PairInv, ReferenceNotNewer, RingRefusesFirst, Lag
<1>3. \A n \in 1 .. Len(i2s_buf') : i2s_buf'[n] <= now'
  BY <1>1 DEF PairInv
<1>4. ASSUME Paired' PROVE Ahead' /\ Older'
  <2>1. UNCHANGED <<block_time, phase, mic_buf, input, mic_frame, now, i2s_buf, i2s_lost>>
    BY <1>1, <1>4
  <2>2. Paired
    BY <1>4, <2>1 DEF Paired, Flushed
  <2> QED BY <2>1, <2>2, Zenon DEF PairInv, Ahead, Older, Place, Block, First
<1> QED BY <1>1, <1>2, <1>3, <1>4 DEF PairInv
-----------------------------------------------------------------------------
(* The task.  A block moves to the hand, or away.                          *)
LEMMA TakeBlock ==
    ASSUME AudioInputTypeOK, PairInv, FlushWait \/ MicRx, Paired'
    PROVE  Ahead' /\ Older'
<1>1. /\ mic_buf # <<>> /\ mic_buf \in Seq(Int) /\ mic_buf' = Tail(mic_buf)
      /\ UNCHANGED <<now, block_time, phase, i2s_buf, i2s_lost>>
  BY DEF FlushWait, MicRx, clockVars, AudioInputTypeOK
<1>2. /\ Len(mic_buf) \in Nat \ {0} /\ Len(mic_buf') = Len(mic_buf) - 1
      /\ Head(mic_buf) = mic_buf[1]
      /\ \A i \in 1 .. Len(mic_buf) - 1 : mic_buf'[i] = mic_buf[i + 1]
  BY <1>1, TailOf
<1>3. /\ First \in {1, 2} /\ First' = First - 1
      /\ First = 1 => mic_frame' = Head(mic_buf)
  BY DEF FlushWait, MicRx, First
<1>4. Ahead /\ Older
  BY <1>1, <1>3 DEF PairInv, Paired, Flushed, FlushWait, MicRx
<1>5. Len(mic_buf') + 1 - First' = Len(mic_buf) + 1 - First
  BY <1>2, <1>3
<1>6. Ahead'
  BY <1>1, <1>4, <1>5, Zenon DEF Ahead
<1>7. ASSUME NEW j \in First' .. Len(mic_buf') + 1, NEW k \in Sample,
             Place(j, k)' <= Len(i2s_buf')
      PROVE  i2s_buf'[Place(j, k)'] <= Block(j)' + SamplePeriod * k
  <2>1. j + 1 \in First .. Len(mic_buf) + 1 /\ j \in Nat /\ j - First' = (j + 1) - First
    BY <1>2, <1>3
  <2>2. Place(j, k)' = FrameAdvance * (j - First') + k
    BY Zenon DEF Place
  <2>3. Place(j, k)' = Place(j + 1, k)
    BY <2>1, <2>2 DEF Place
  <2>4. Block(j)' = Block(j + 1)
    <3>1. CASE j = 0
      BY <1>2, <1>3, <3>1 DEF Block
    <3>2. CASE j \in 1 .. Len(mic_buf')
      BY <1>2, <3>2 DEF Block
    <3>3. CASE j = Len(mic_buf') + 1
      BY <1>1, <1>2, <3>3 DEF Block
    <3> QED BY <1>2, <2>1, <3>1, <3>2, <3>3
  <2>5. Place(j + 1, k) <= Len(i2s_buf)
    BY <1>1, <1>7, <2>3, Zenon
  <2>6. i2s_buf[Place(j + 1, k)] <= Block(j + 1) + SamplePeriod * k
    BY <1>4, <2>1, <2>5 DEF Older
  <2> QED BY <1>1, <2>3, <2>4, <2>6, Zenon
<1> QED BY <1>6, <1>7 DEF Older

(* A frame leaves the ring.                                                *)
LEMMA TakeFrame ==
    ASSUME AudioInputTypeOK, PairInv, I2sRx
    PROVE  PairInv'
<1>1. /\ input = "i2s" /\ input' = "mic" /\ Len(i2s_buf) >= FrameAdvance
      /\ frame' = [mic |-> mic_frame, ref |-> SubSeq(i2s_buf, 1, FrameAdvance)]
      /\ i2s_buf' = SubSeq(i2s_buf, FrameAdvance + 1, Len(i2s_buf))
      /\ UNCHANGED <<tile1, now, block_time, phase, i2s_lost, mic_lost, mic_buf, mic_frame>>
  BY DEF I2sRx, I2sReady, LeftInRing, startVars, clockVars
<1>2. /\ i2s_buf \in Seq(Nat) /\ Len(i2s_buf) \in Nat /\ FrameAdvance \in Nat
      /\ Len(mic_buf) \in Nat /\ mic_frame \in Int /\ now \in Nat
      /\ phase \in Nat /\ block_time \in Nat /\ BlockPeriod = 3 * FrameAdvance
  BY Ranges DEF AudioInputTypeOK
<1>3. /\ Len(i2s_buf') = Len(i2s_buf) - FrameAdvance
      /\ \A i \in 1 .. Len(i2s_buf) - FrameAdvance : i2s_buf'[i] = i2s_buf[FrameAdvance + i]
      /\ \A i \in 1 .. FrameAdvance : SubSeq(i2s_buf, 1, FrameAdvance)[i] = i2s_buf[i]
  BY <1>1, <1>2, SplitOf
<1>4. First = 0 /\ First' = 1
  BY <1>1 DEF First
<1>5. ~ i2s_lost => Ahead /\ Older
  BY <1>1 DEF PairInv, Paired, Flushed
<1>6. \A n \in 1 .. Len(i2s_buf') : i2s_buf'[n] <= now'
  <2> SUFFICES ASSUME NEW n \in 1 .. Len(i2s_buf') PROVE i2s_buf'[n] <= now
    BY <1>1
  <2>1. n \in 1 .. Len(i2s_buf) - FrameAdvance /\ FrameAdvance + n \in 1 .. Len(i2s_buf)
    BY <1>2, <1>3
  <2> QED BY <1>3, <2>1 DEF PairInv
<1>7. ReferenceNotNewer'
  <2> SUFFICES ASSUME ~ i2s_lost, NEW k \in Sample PROVE Lag(frame', k) >= 0
    BY <1>1 DEF ReferenceNotNewer, Lag
  <2>1. k \in Nat /\ k \in 1 .. FrameAdvance /\ k \in 1 .. Len(i2s_buf)
    BY <1>1, <1>2 DEF Sample
  <2>2. Place(0, k) = k /\ Block(0) = mic_frame
    BY <1>2, <1>4, <2>1 DEF Place, Block
  <2>3. i2s_buf[k] <= mic_frame + SamplePeriod * k /\ i2s_buf[k] \in Nat
    <3>1. 0 \in First .. Len(mic_buf) + 1 /\ k <= Len(i2s_buf)
      BY <1>2, <1>4, <2>1
    <3>2. i2s_buf[Place(0, k)] <= Block(0) + SamplePeriod * k
      BY <1>5, <2>2, <3>1 DEF Older
    <3> QED BY <1>2, <2>1, <2>2, <3>2
  <2>4. frame'.mic = mic_frame /\ frame'.ref[k] = i2s_buf[k]
    BY <1>1, <1>3, <2>1
  <2>5. Lag(frame', k) = (mic_frame + 3 * k) - i2s_buf[k]
    BY <1>2, <2>1, <2>3, <2>4 DEF Lag, SamplePeriod
  <2>6. i2s_buf[k] <= mic_frame + 3 * k
    BY <2>3 DEF SamplePeriod
  <2> QED BY <1>2, <2>1, <2>3, <2>5, <2>6
<1>8. ASSUME Paired' PROVE Ahead' /\ Older'
  <2>1. Ahead /\ Older
    BY <1>1, <1>5, <1>8 DEF Paired
  <2>2. Ahead'
    <3> DEFINE B == BlockPeriod * Len(mic_buf)
    <3>1. BlockPeriod * (Len(mic_buf) + 1) = B + BlockPeriod /\ B \in Int
      BY <1>2
    <3>2. 3 * Len(i2s_buf) + phase >= BlockPeriod * (Len(mic_buf) + 1) + block_time
      <4>1. Len(mic_buf) + 1 - First = Len(mic_buf) + 1
        BY <1>2, <1>4
      <4> QED BY <2>1, <4>1 DEF Ahead, SamplePeriod
    <3>3. Len(mic_buf') + 1 - First' = Len(mic_buf)
      BY <1>1, <1>2, <1>4
    <3>4. 3 * Len(i2s_buf') + phase >= B + block_time
      <4> HIDE DEF B
      <4> QED BY <1>2, <1>3, <3>1, <3>2
    <3> QED BY <1>1, <3>3, <3>4 DEF Ahead, SamplePeriod
  <2>3. ASSUME NEW j \in First' .. Len(mic_buf') + 1, NEW k \in Sample,
               Place(j, k)' <= Len(i2s_buf')
        PROVE  i2s_buf'[Place(j, k)'] <= Block(j)' + SamplePeriod * k
    <3> DEFINE p == FrameAdvance * (j - 1) + k
    <3>1. /\ j \in 1 .. Len(mic_buf) + 1 /\ j \in First .. Len(mic_buf) + 1
          /\ k \in Nat /\ 1 <= k
      BY <1>1, <1>2, <1>4 DEF Sample
    <3>2. Place(j, k)' = p
      BY <1>4, Zenon DEF Place
    <3>3. p \in Nat /\ 1 <= p /\ Place(j, k) = FrameAdvance + p
      <4>1. FrameAdvance * (j - 1) \in Nat /\ FrameAdvance * j = FrameAdvance * (j - 1) + FrameAdvance
        BY <1>2, <3>1
      <4>2. Place(j, k) = FrameAdvance * j + k /\ FrameAdvance * j \in Nat
        BY <1>2, <1>4, <3>1 DEF Place
      <4> DEFINE q == FrameAdvance * (j - 1)
      <4>3. q \in Nat /\ p = q + k /\ Place(j, k) = q + FrameAdvance + k
        BY <4>1, <4>2
      <4> HIDE DEF p, q
      <4> QED BY <1>2, <3>1, <4>3
    <3> HIDE DEF p
    <3>4. p \in 1 .. Len(i2s_buf) - FrameAdvance /\ Place(j, k) <= Len(i2s_buf)
      BY <1>2, <1>3, <2>3, <3>2, <3>3
    <3>5. i2s_buf[Place(j, k)] <= Block(j) + SamplePeriod * k
      BY <2>1, <3>1, <3>4 DEF Older
    <3>6. Block(j)' = Block(j)
      BY <1>1 DEF Block
    <3> QED BY <1>3, <3>2, <3>3, <3>4, <3>5, <3>6
  <2> QED BY <2>2, <2>3 DEF Older
<1> QED BY <1>1, <1>6, <1>7, <1>8 DEF PairInv, RingRefusesFirst

LEMMA TaskPair == AudioInputTypeOK /\ PairInv /\ InputTask => PairInv'
<1> SUFFICES ASSUME AudioInputTypeOK, PairInv, InputTask PROVE PairInv'
  OBVIOUS
<1>1. CASE I2sRx
  BY <1>1, TakeFrame
<1>2. CASE FlushPoll \/ FlushWait \/ MicRx
  <2>1. /\ UNCHANGED <<tile1, now, i2s_buf, i2s_lost, mic_lost, frame, frames>>
        /\ input # "none"
    BY <1>2 DEF FlushPoll, FlushWait, MicRx, startVars, clockVars
  <2>2. ReferenceNotNewer' /\ RingRefusesFirst'
    BY <2>1, Zenon DEF PairInv, ReferenceNotNewer, RingRefusesFirst, Lag
  <2>3. \A n \in 1 .. Len(i2s_buf') : i2s_buf'[n] <= now'
    BY <2>1 DEF PairInv
  <2>4. FlushPoll => ~ Paired'
    BY DEF FlushPoll, Paired, Flushed
  <2>5. Paired' => Ahead' /\ Older'
    BY <1>2, <2>4, TakeBlock
  <2> QED BY <2>1, <2>2, <2>3, <2>5 DEF PairInv
<1> QED BY <1>1, <1>2 DEF InputTask

LEMMA NextPair == AudioInputTypeOK /\ PairInv /\ [Next]_vars => PairInv'
<1> SUFFICES ASSUME AudioInputTypeOK, PairInv, [Next]_vars PROVE PairInv'
  OBVIOUS
<1>1. CASE UNCHANGED vars
  <2>1. /\ UNCHANGED <<tile1, input, i2s_buf, i2s_lost, mic_lost, now, frame, frames>>
        /\ UNCHANGED <<phase, block_time, mic_buf, mic_frame>>
    BY <1>1 DEF vars, startVars, clockVars, inputVars
  <2>2. /\ (First' = First) /\ (Paired' = Paired)
        /\ (RingRefusesFirst' = RingRefusesFirst) /\ (ReferenceNotNewer' = ReferenceNotNewer)
    BY <2>1, Zenon DEF First, Paired, Flushed, RingRefusesFirst, ReferenceNotNewer, Lag
  <2>3. (Ahead' = Ahead) /\ (Older' = Older)
    BY <2>1, <2>2, Zenon DEF Ahead, Older, Place, Block
  <2> QED BY <2>1, <2>2, <2>3 DEF PairInv
<1> QED BY <1>1, TickPair, StartPair, TaskPair DEF Next

LEMMA InitPair == Init => PairInv
<1> SUFFICES ASSUME Init PROVE PairInv
  OBVIOUS
<1>1. input = "none" /\ i2s_buf = <<>> /\ frames = 0 /\ mic_lost = FALSE
  BY Zenon DEF Init
<1>2. \A n \in 1 .. Len(i2s_buf) : i2s_buf[n] <= now
  BY <1>1
<1> QED BY <1>1, <1>2 DEF PairInv, Paired, Flushed, RingRefusesFirst, ReferenceNotNewer

(* The pairing of blocks with what the ring holds.                         *)
THEOREM PairSafe == Spec => []PairInv
BY InitPair, NextPair, AudioInputTypeCorrect, PTL DEF Spec

(* Until the ring refuses a sample, a read of it does not block.           *)
THEOREM NeverBlocksSafe == Spec => []NeverBlocks
<1>1. AudioInputTypeOK /\ PairInv => NeverBlocks
  <2> SUFFICES ASSUME AudioInputTypeOK, PairInv, input = "i2s", ~ i2s_lost PROVE I2sReady
    BY DEF NeverBlocks
  <2>1. Ahead /\ First = 0
    BY DEF PairInv, Paired, Flushed, First
  <2>2. /\ Len(mic_buf) \in Nat /\ BlockPeriod = 3 * FrameAdvance /\ FrameAdvance \in Nat
        /\ block_time \in Nat /\ Len(i2s_buf) \in Nat /\ phase \in Nat /\ phase <= 2
    BY Ranges
  <2>3. 3 * Len(i2s_buf) + phase >= BlockPeriod * (Len(mic_buf) + 1) + block_time
    <3>1. Len(mic_buf) + 1 - First = Len(mic_buf) + 1
      BY <2>1, <2>2
    <3> QED BY <2>1, <3>1 DEF Ahead, SamplePeriod
  <2>4. BlockPeriod * 1 <= BlockPeriod * (Len(mic_buf) + 1)
        /\ BlockPeriod * (Len(mic_buf) + 1) \in Int
    <3>1. 1 <= Len(mic_buf) + 1 /\ Len(mic_buf) + 1 \in Int /\ BlockPeriod \in Nat
      BY <2>2
    <3> QED BY <3>1, Monotone
  <2> DEFINE B == BlockPeriod * (Len(mic_buf) + 1)
  <2>5. B \in Int /\ 3 * Len(i2s_buf) + phase >= B + block_time /\ 3 * FrameAdvance <= B
    BY <2>2, <2>3, <2>4
  <2> HIDE DEF B
  <2> QED BY <2>2, <2>5 DEF I2sReady
<1> QED BY <1>1, PairSafe, AudioInputTypeCorrect, PTL

(* Until then, the microphones lose no block.                              *)
THEOREM RingRefusesFirstSafe == Spec => []RingRefusesFirst
<1>1. PairInv => RingRefusesFirst
  BY DEF PairInv
<1> QED BY <1>1, PairSafe, PTL

(* Until then, no reference sample is newer than its microphone sample.    *)
THEOREM ReferenceSafe == Spec => []ReferenceNotNewer
<1>1. PairInv => ReferenceNotNewer
  BY DEF PairInv
<1> QED BY <1>1, PairSafe, PTL
-----------------------------------------------------------------------------
(* The lag.  A period of the clock changes neither what is dated ...       *)
LEMMA TickDrift ==
    ASSUME AudioInputTypeOK, PairInv, LagInv, Tick, Flushed, ~ i2s_lost'
    PROVE  RingDated' /\ BlocksDated' /\ Drift' = Drift
<1>1. /\ ~ i2s_lost /\ ~ mic_lost' /\ RingDated /\ BlocksDated
  BY TickLoss DEF RingRefusesFirst, LagInv
<1>2. /\ UNCHANGED <<input, mic_frame, frame, frames>>
      /\ now' = now + 1 /\ I2sRunning
  BY DEF Tick, inputVars, Flushed, PairInv, I2sRunning
<1>3. /\ FrameAdvance \in Nat /\ I2sSamples \in Nat /\ BlockPeriod \in Nat
      /\ Len(mic_buf) \in Nat /\ Len(i2s_buf) \in Nat /\ Len(i2s_buf) <= I2sSamples
      /\ now \in Nat /\ block_time \in 0 .. BlockPeriod - 1 /\ phase \in 0 .. 2
      /\ First \in Int /\ 0 <= First /\ frames \in Nat /\ SamplePeriod = 3
  BY Ranges DEF AudioInputTypeOK, SamplePeriod
<1>4. First' = First
  BY <1>2, Zenon DEF First
<1>5. \/ phase # 2 /\ phase' = phase + 1 /\ i2s_buf' = i2s_buf
      \/ /\ phase = 2 /\ phase' = 0 /\ Len(i2s_buf') = Len(i2s_buf) + 1
         /\ \A n \in 1 .. Len(i2s_buf) : i2s_buf'[n] = i2s_buf[n]
         /\ i2s_buf'[Len(i2s_buf) + 1] = now + 1
  <2>1. ~ (phase = 2 /\ Len(i2s_buf) = I2sSamples)
    BY <1>2, RingStep
  <2>2. CASE phase # 2
    BY <1>2, <2>2, RingStep
  <2>3. CASE phase = 2 /\ Len(i2s_buf) < I2sSamples
    BY <1>2, <2>3, RingStep
  <2> QED BY <1>3, <2>1, <2>2, <2>3
<1>6. \/ /\ block_time < BlockPeriod - 1
         /\ block_time' = block_time + 1 /\ mic_buf' = mic_buf
      \/ /\ block_time = BlockPeriod - 1 /\ block_time' = 0
         /\ Len(mic_buf') = Len(mic_buf) + 1
         /\ \A j \in 1 .. Len(mic_buf) : mic_buf'[j] = mic_buf[j]
         /\ mic_buf'[Len(mic_buf) + 1] = now - block_time
  <2>1. ~ (block_time = BlockPeriod - 1 /\ ~ (Len(mic_buf) < 2))
    BY <1>1, MicStep
  <2>2. CASE block_time < BlockPeriod - 1
    BY <2>2, MicStep
  <2>3. CASE block_time = BlockPeriod - 1 /\ Len(mic_buf) < 2
    BY <2>3, MicStep
  <2> QED BY <1>3, <2>1, <2>2, <2>3
<1>7. RingDated'
  <2>1. SUFFICES ASSUME NEW n \in 1 .. Len(i2s_buf'),
                        n + FrameAdvance * frames > I2sSamples
                 PROVE  i2s_buf'[n] = (now + 1) - phase' - 3 * (Len(i2s_buf') - n)
    BY <1>2, <1>3 DEF RingDated
  <2>2. n \in 1 .. Len(i2s_buf) => i2s_buf[n] = now - phase - 3 * (Len(i2s_buf) - n)
    BY <1>1, <1>3, <2>1 DEF RingDated
  <2>3. CASE phase # 2 /\ phase' = phase + 1 /\ i2s_buf' = i2s_buf
    BY <1>3, <2>2, <2>3
  <2>4. CASE /\ phase = 2 /\ phase' = 0 /\ Len(i2s_buf') = Len(i2s_buf) + 1
             /\ \A i \in 1 .. Len(i2s_buf) : i2s_buf'[i] = i2s_buf[i]
             /\ i2s_buf'[Len(i2s_buf) + 1] = now + 1
    <3>1. CASE n = Len(i2s_buf) + 1
      BY <1>3, <2>4, <3>1
    <3>2. CASE n \in 1 .. Len(i2s_buf)
      <4>1. i2s_buf'[n] = now - 2 - 3 * (Len(i2s_buf) - n)
        BY <2>2, <2>4, <3>2
      <4> QED BY <1>3, <2>4, <3>2, <4>1
    <3> QED BY <1>3, <2>4, <3>1, <3>2
  <2> QED BY <1>5, <2>3, <2>4
<1>8. BlocksDated'
  <2> DEFINE At(m, j) == BlockPeriod * (m + 1 - j)
  <2> SUFFICES ASSUME NEW j \in First .. Len(mic_buf'), frames > 0 \/ j > First
               PROVE  Block(j)' = (now + 1) - block_time' - At(Len(mic_buf'), j)
    BY <1>2, <1>4 DEF BlocksDated
  <2>1. j <= Len(mic_buf) => Block(j) = now - block_time - At(Len(mic_buf), j)
    BY <1>1, <1>3 DEF BlocksDated
  <2>2. j \in Nat /\ At(Len(mic_buf), j) \in Int
    BY <1>3
  <2>3. CASE mic_buf' = mic_buf /\ block_time' = block_time + 1
    <3>1. Block(j)' = Block(j)
      BY <1>2, <2>3 DEF Block
    <3> HIDE DEF At
    <3> QED BY <1>3, <2>1, <2>2, <2>3, <3>1
  <2>4. CASE /\ block_time = BlockPeriod - 1 /\ block_time' = 0
             /\ Len(mic_buf') = Len(mic_buf) + 1
             /\ \A i \in 1 .. Len(mic_buf) : mic_buf'[i] = mic_buf[i]
             /\ mic_buf'[Len(mic_buf) + 1] = now - block_time
    <3>1. At(Len(mic_buf'), j) = At(Len(mic_buf), j) + BlockPeriod
      BY <1>3, <2>2, <2>4
    <3>2. j = Len(mic_buf) + 1 => At(Len(mic_buf), j) = 0
      BY <1>3
    <3>3. j <= Len(mic_buf) => Block(j)' = Block(j)
      BY <1>2, <1>3, <2>2, <2>4 DEF Block
    <3>4. j = Len(mic_buf) + 1 => Block(j)' = now - block_time
      BY <1>3, <2>4 DEF Block
    <3> HIDE DEF At
    <3> QED BY <1>3, <2>1, <2>2, <2>4, <3>1, <3>2, <3>3, <3>4
  <2> QED BY <1>6, <2>3, <2>4
<1>9. Drift' = Drift
  <2> DEFINE B == BlockPeriod * (Len(mic_buf) + 1 - First)
             C == BlockPeriod * (Len(mic_buf') + 1 - First)
  <2>1. B \in Int /\ C \in Int
    <3>1. Len(mic_buf') \in Nat
      BY <1>3, <1>6
    <3> QED BY <1>3, <3>1
  <2>2. 3 * Len(i2s_buf') + phase' = 3 * Len(i2s_buf) + phase + 1
    BY <1>3, <1>5
  <2>3. C + block_time' = B + block_time + 1 /\ block_time' \in Int
    <3>1. CASE block_time' = block_time + 1 /\ mic_buf' = mic_buf
      BY <1>3, <2>1, <3>1
    <3>2. CASE /\ block_time = BlockPeriod - 1 /\ block_time' = 0
               /\ Len(mic_buf') = Len(mic_buf) + 1
      <4>1. C = B + BlockPeriod
        <5>1. Len(mic_buf') + 1 - First = (Len(mic_buf) + 1 - First) + 1
          BY <1>3, <3>2
        <5>2. Len(mic_buf) + 1 - First \in Int
          BY <1>3
        <5> HIDE DEF First
        <5> QED BY <1>3, <5>1, <5>2, OneMore
      <4> HIDE DEF B, C
      <4> QED BY <1>3, <2>1, <3>2, <4>1
    <3> QED BY <1>6, <3>1, <3>2
  <2>4. Drift = 3 * Len(i2s_buf) + phase - B - block_time
    BY <1>3, Zenon DEF Drift
  <2>5. Drift' = 3 * Len(i2s_buf') + phase' - C - block_time'
    BY <1>3, <1>4, Zenon DEF Drift
  <2>6. /\ Len(i2s_buf') \in Int /\ phase' \in Int
        /\ Len(i2s_buf) \in Int /\ phase \in Int /\ block_time \in Int
    BY <1>3, <1>5
  <2> HIDE DEF B, C
  <2>7. Drift = (3 * Len(i2s_buf) + phase) - (B + block_time)
    BY <2>1, <2>4, <2>6
  <2>8. Drift' = (3 * Len(i2s_buf') + phase') - (C + block_time')
    BY <2>1, <2>3, <2>5, <2>6
  <2>9. /\ 3 * Len(i2s_buf) + phase \in Int /\ B + block_time \in Int
        /\ 3 * Len(i2s_buf') + phase' = (3 * Len(i2s_buf) + phase) + 1
    BY <2>1, <2>2, <2>6
  <2> QED BY <2>3, <2>7, <2>8, <2>9
<1> QED BY <1>7, <1>8, <1>9

LEMMA TickLag == AudioInputTypeOK /\ PairInv /\ LagInv /\ Tick => LagInv'
<1> SUFFICES ASSUME AudioInputTypeOK, PairInv, LagInv, Tick PROVE LagInv'
  OBVIOUS
<1>1. /\ UNCHANGED <<input, frame, frames>> /\ Flushed' = Flushed
  BY DEF Tick, inputVars, Flushed
<1>2. CASE i2s_lost'
  BY <1>1, <1>2 DEF LagInv
<1>3. CASE Flushed /\ ~ i2s_lost'
  <2>1. RingDated' /\ BlocksDated' /\ Drift' = Drift /\ ~ i2s_lost
    BY <1>3, TickDrift, TickLoss
  <2>2. ASSUME frames > StaleFrames, NEW k \in Sample
        PROVE  Lag(frame', k) = Drift' /\ Lag(frame', k) < MaxLag
    BY <1>1, <2>1, <2>2, Zenon DEF LagInv
  <2> QED BY <1>1, <1>3, <2>1, <2>2 DEF LagInv, Lag
<1>4. CASE ~ Flushed /\ ~ i2s_lost'
  <2>1. frames' = 0
    BY <1>1, <1>4 DEF LagInv
  <2>2. Len(i2s_buf') \in Nat /\ Len(i2s_buf') <= I2sSamples
    BY TickType DEF AudioInputTypeOK
  <2>3. RingDated'
    BY <2>1, <2>2, Ranges DEF RingDated
  <2> QED BY <1>1, <1>4, <2>1, <2>3 DEF LagInv, StaleFrames
<1> QED BY <1>2, <1>3, <1>4

(* ... nor does the flush, which no frame precedes, nor a block in hand.   *)
LEMMA BlockLag ==
    AudioInputTypeOK /\ PairInv /\ LagInv
        /\ (StartupTask \/ FlushPoll \/ FlushWait \/ MicRx)
        => LagInv'
<1> SUFFICES ASSUME AudioInputTypeOK, PairInv, LagInv,
                    StartupTask \/ FlushPoll \/ FlushWait \/ MicRx
             PROVE  LagInv'
  OBVIOUS
<1>0. /\ Len(i2s_buf) \in Nat /\ Len(i2s_buf) <= I2sSamples /\ Len(mic_buf) \in Nat
      /\ Len(mic_buf) <= 2 /\ I2sSamples \in Nat /\ FrameAdvance \in Nat
      /\ frames \in Nat
  BY Ranges DEF AudioInputTypeOK
<1>1. ASSUME frames = 0, UNCHANGED <<i2s_buf, frames>>, ~ Flushed' \/ BlocksDated'
      PROVE  LagInv'
  <2>1. RingDated'
    BY <1>0, <1>1 DEF RingDated
  <2> QED BY <1>1, <2>1 DEF LagInv, StaleFrames
<1>2. CASE StartupTask
  <2>1. CASE CodecStartTile0 \/ CodecStartTile1 \/ MicsStart \/ I2sStart
    <3>1. UNCHANGED <<input, now, block_time, phase, i2s_lost, i2s_buf, mic_buf,
                      mic_frame, frame, frames>>
      BY <2>1 DEF CodecStartTile0, CodecStartTile1, MicsStart, I2sStart, Start,
                  clockVars, inputVars
    <3> QED BY <3>1, Zenon DEF LagInv, Flushed, RingDated, BlocksDated, Block, First,
                               Drift, Lag
  <2>2. CASE PipelineInit
    <3>1. UNCHANGED <<i2s_buf, frames>> /\ ~ Flushed' /\ ~ Flushed
      BY <2>2 DEF PipelineInit, Start, Flushed, PairInv
    <3> QED BY <1>1, <3>1 DEF LagInv
  <2> QED BY <1>2, <2>1, <2>2 DEF StartupTask
<1>3. CASE FlushPoll
  BY <1>1, <1>3 DEF FlushPoll, Flushed, LagInv
<1>4. CASE FlushWait
  <2>1. /\ mic_buf' = Tail(mic_buf) /\ mic_buf # <<>> /\ mic_buf \in Seq(Int)
        /\ UNCHANGED <<i2s_buf, frames>> /\ frames = 0 /\ First' = 1
    BY <1>4 DEF FlushWait, LagInv, Flushed, AudioInputTypeOK, First
  <2>2. Len(mic_buf') <= 1
    BY <1>0, <2>1, TailOf
  <2>3. BlocksDated'
    BY <2>1, <2>2 DEF BlocksDated
  <2> QED BY <1>1, <2>1, <2>3
<1>5. CASE MicRx
  <2>1. /\ mic_buf # <<>> /\ mic_buf \in Seq(Int) /\ mic_buf' = Tail(mic_buf)
        /\ mic_frame' = Head(mic_buf) /\ First = 1 /\ First' = 0 /\ Flushed /\ Flushed'
        /\ UNCHANGED <<now, block_time, phase, i2s_buf, i2s_lost, frame, frames>>
    BY <1>5 DEF MicRx, clockVars, AudioInputTypeOK, First, Flushed
  <2>2. /\ Len(mic_buf) \in Nat \ {0} /\ Len(mic_buf') = Len(mic_buf) - 1
        /\ Head(mic_buf) = mic_buf[1]
        /\ \A i \in 1 .. Len(mic_buf) - 1 : mic_buf'[i] = mic_buf[i + 1]
    BY <2>1, TailOf
  <2>3. Drift' = Drift
    <3>1. Len(mic_buf') + 1 - First' = Len(mic_buf) + 1 - First
      BY <2>1, <2>2
    <3> QED BY <2>1, <3>1, Zenon DEF Drift
  <2>4. ASSUME BlocksDated PROVE BlocksDated'
    <3> SUFFICES ASSUME NEW j \in 0 .. Len(mic_buf'), frames > 0 \/ j > 0
                 PROVE  Block(j)' = now - block_time
                                       - BlockPeriod * (Len(mic_buf') + 1 - j)
      BY <2>1 DEF BlocksDated
    <3>1. /\ j + 1 \in First .. Len(mic_buf) /\ (frames > 0 \/ j + 1 > First) /\ j \in Nat
          /\ Len(mic_buf') + 1 - j = Len(mic_buf) + 1 - (j + 1)
      <4>1. j \in Nat /\ j <= Len(mic_buf) - 1 /\ First = 1 /\ Len(mic_buf) \in Nat
        BY <2>1, <2>2
      <4> HIDE DEF First
      <4> QED BY <2>2, <4>1
    <3>2. Block(j + 1) = now - block_time - BlockPeriod * (Len(mic_buf) + 1 - (j + 1))
      BY <2>4, <3>1 DEF BlocksDated
    <3>3. Block(j)' = Block(j + 1)
      <4>1. CASE j = 0
        BY <2>1, <2>2, <4>1 DEF Block
      <4>2. CASE j \in 1 .. Len(mic_buf')
        BY <2>2, <4>2 DEF Block
      <4> QED BY <2>2, <3>1, <4>1, <4>2
    <3> QED BY <3>1, <3>2, <3>3, Zenon
  <2>5. RingDated' = RingDated
    BY <2>1, Zenon DEF RingDated
  <2>6. ASSUME NEW k \in Sample, Lag(frame, k) = Drift /\ Lag(frame, k) < MaxLag
        PROVE  Lag(frame', k) = Drift' /\ Lag(frame', k) < MaxLag
    BY <2>1, <2>3, <2>6
  <2> QED BY <2>1, <2>4, <2>5, <2>6 DEF LagInv, Lag
<1> QED BY <1>2, <1>3, <1>4, <1>5

(* A frame behind the stale ones lags by what the drivers hold.            *)
LEMMA FrameLag ==
    ASSUME AudioInputTypeOK, LagInv, I2sRx, ~ i2s_lost
    PROVE  /\ RingDated' /\ BlocksDated' /\ Drift' = Drift
           /\ frames' > StaleFrames =>
                \A k \in Sample : Lag(frame', k) = Drift /\ Lag(frame', k) < MaxLag
<1>1. /\ First = 0 /\ First' = 1 /\ Len(i2s_buf) >= FrameAdvance /\ Flushed
      /\ frame' = [mic |-> mic_frame, ref |-> SubSeq(i2s_buf, 1, FrameAdvance)]
      /\ i2s_buf' = SubSeq(i2s_buf, FrameAdvance + 1, Len(i2s_buf)) /\ frames' = frames + 1
      /\ UNCHANGED <<now, block_time, phase, i2s_lost, mic_buf, mic_frame>>
  BY DEF I2sRx, I2sReady, LeftInRing, startVars, clockVars, First, Flushed
<1>2. /\ i2s_buf \in Seq(Nat) /\ Len(i2s_buf) \in Nat /\ Len(i2s_buf) <= I2sSamples
      /\ FrameAdvance \in Nat \ {0} /\ I2sSamples \in Nat /\ I2sSamples < 3 * FrameAdvance
      /\ Len(mic_buf) \in Nat /\ now \in Nat /\ phase \in Nat /\ phase <= 2
      /\ block_time \in Nat /\ BlockPeriod = 3 * FrameAdvance /\ BlockPeriod \in Nat
      /\ frames \in Nat /\ SamplePeriod = 3
  BY Ranges DEF AudioInputTypeOK, SamplePeriod
<1>3. /\ Len(i2s_buf') = Len(i2s_buf) - FrameAdvance
      /\ \A i \in 1 .. Len(i2s_buf) - FrameAdvance : i2s_buf'[i] = i2s_buf[FrameAdvance + i]
      /\ \A i \in 1 .. FrameAdvance : SubSeq(i2s_buf, 1, FrameAdvance)[i] = i2s_buf[i]
  BY <1>1, <1>2, SplitOf
<1>4. RingDated /\ BlocksDated
  BY <1>1 DEF LagInv
<1>5. RingDated'
  <2> DEFINE taken == FrameAdvance * frames
             taken1 == FrameAdvance * frames'
  <2>0. taken \in Nat /\ taken1 = taken + FrameAdvance
    BY <1>1, <1>2, OneMore
  <2>a. SUFFICES ASSUME NEW n \in 1 .. Len(i2s_buf'),
                        n + taken1 > I2sSamples
                 PROVE  i2s_buf'[n] = now - phase - SamplePeriod * (Len(i2s_buf') - n)
    BY <1>1 DEF RingDated
  <2>1. FrameAdvance + n \in 1 .. Len(i2s_buf) /\ (FrameAdvance + n) + taken > I2sSamples
    <3> HIDE DEF taken, taken1
    <3> QED BY <1>2, <1>3, <2>0, <2>a
  <2>2. i2s_buf[FrameAdvance + n]
           = now - phase - SamplePeriod * (Len(i2s_buf) - (FrameAdvance + n))
    BY <1>4, <2>1 DEF RingDated
  <2>3. Len(i2s_buf) - (FrameAdvance + n) = Len(i2s_buf') - n
    BY <1>2, <1>3
  <2> QED BY <1>2, <1>3, <2>2, <2>3
<1>6. BlocksDated'
  <2> SUFFICES ASSUME NEW j \in 1 .. Len(mic_buf)
               PROVE  Block(j)' = now - block_time - BlockPeriod * (Len(mic_buf) + 1 - j)
    BY <1>1 DEF BlocksDated
  <2>1. j \in First .. Len(mic_buf) /\ j > First
    BY <1>1, <1>2
  <2>2. Block(j)' = Block(j)
    BY <1>1 DEF Block
  <2> QED BY <1>4, <2>1, <2>2 DEF BlocksDated
<1> DEFINE B == BlockPeriod * (Len(mic_buf) + 1)
<1>7. /\ B \in Int /\ B >= BlockPeriod /\ BlockPeriod * Len(mic_buf) = B - BlockPeriod
      /\ Drift = 3 * Len(i2s_buf) + phase - B - block_time
  <2>1. B = BlockPeriod * Len(mic_buf) + BlockPeriod /\ BlockPeriod * Len(mic_buf) \in Nat
    BY <1>2
  <2>2. Len(mic_buf) + 1 - First = Len(mic_buf) + 1
    BY <1>1, <1>2
  <2>3. Drift = 3 * Len(i2s_buf) + phase - B - block_time
    BY <1>2, <2>2 DEF Drift
  <2> HIDE DEF B
  <2> QED BY <1>2, <2>1, <2>3
<1>8. Drift' = Drift
  <2>1. Len(mic_buf') + 1 - First' = Len(mic_buf)
    BY <1>1, <1>2
  <2>2. Drift' = 3 * (Len(i2s_buf) - FrameAdvance) + phase - (B - BlockPeriod) - block_time
    BY <1>1, <1>2, <1>3, <1>7, <2>1 DEF Drift
  <2> HIDE DEF B
  <2> QED BY <1>2, <1>7, <2>2
<1>9. ASSUME frames' > StaleFrames, NEW k \in Sample
      PROVE  Lag(frame', k) = Drift /\ Lag(frame', k) < MaxLag
  <2>1. k \in Nat /\ k \in 1 .. FrameAdvance /\ k \in 1 .. Len(i2s_buf)
    BY <1>1, <1>2 DEF Sample
  <2>2. frames >= 3
    BY <1>1, <1>2, <1>9 DEF StaleFrames
  <2>3. FrameAdvance * 3 <= FrameAdvance * frames /\ FrameAdvance * frames \in Int
    BY <1>2, <2>2, Monotone
  <2>4. k + FrameAdvance * frames > I2sSamples
    <3> DEFINE taken == FrameAdvance * frames
    <3>1. 3 * FrameAdvance <= taken /\ taken \in Int
      BY <1>2, <2>3
    <3> HIDE DEF taken
    <3> QED BY <1>2, <2>1, <3>1 DEF taken
  <2>5. i2s_buf[k] = now - phase - 3 * (Len(i2s_buf) - k)
    BY <1>2, <1>4, <2>1, <2>4 DEF RingDated
  <2>6. mic_frame = now - block_time - B
    <3>1. 0 \in First .. Len(mic_buf) /\ frames > 0
      BY <1>1, <1>2, <2>2
    <3>2. Block(0) = now - block_time - BlockPeriod * (Len(mic_buf) + 1 - 0)
      BY <1>4, <3>1 DEF BlocksDated
    <3>3. Len(mic_buf) + 1 - 0 = Len(mic_buf) + 1
      BY <1>2
    <3> QED BY <3>2, <3>3, Zenon DEF Block
  <2>7. Lag(frame', k) = (mic_frame + 3 * k) - i2s_buf[k]
    <3>1. frame'.mic = mic_frame /\ frame'.ref[k] = i2s_buf[k]
      BY <1>1, <1>3, <2>1
    <3>2. Lag(frame', k) = frame'.mic + SamplePeriod * k - frame'.ref[k]
      BY Zenon DEF Lag
    <3>3. SamplePeriod = 3
      BY <1>2
    <3>4. mic_frame \in Int /\ i2s_buf[k] \in Int
      BY <1>2, <2>1 DEF AudioInputTypeOK
    <3> QED BY <2>1, <3>1, <3>2, <3>3, <3>4
  <2> HIDE DEF B
  <2>8. Lag(frame', k) = Drift
    BY <1>2, <1>7, <2>1, <2>5, <2>6, <2>7
  <2>9. Drift < 3 * (I2sSamples - FrameAdvance + 1)
    BY <1>2, <1>7
  <2> QED BY <1>2, <2>8, <2>9 DEF MaxLag
<1> QED BY <1>5, <1>6, <1>8, <1>9

LEMMA NextLag == AudioInputTypeOK /\ PairInv /\ LagInv /\ [Next]_vars => LagInv'
<1> SUFFICES ASSUME AudioInputTypeOK, PairInv, LagInv, [Next]_vars PROVE LagInv'
  OBVIOUS
<1>1. CASE I2sRx
  <2>1. i2s_lost' = i2s_lost /\ Flushed'
    BY <1>1 DEF I2sRx, clockVars, Flushed
  <2>2. ~ i2s_lost => /\ RingDated' /\ BlocksDated' /\ Drift' = Drift
                      /\ frames' > StaleFrames =>
                           \A k \in Sample : Lag(frame', k) = Drift /\ Lag(frame', k) < MaxLag
    BY <1>1, FrameLag
  <2> QED BY <2>1, <2>2 DEF LagInv, Lag
<1>2. CASE UNCHANGED vars
  <2>1. UNCHANGED <<input, now, block_time, phase, i2s_lost, i2s_buf, mic_buf,
                    mic_frame, frame, frames>>
    BY <1>2 DEF vars, clockVars, inputVars
  <2> QED BY <2>1, Zenon DEF LagInv, Flushed, RingDated, BlocksDated, Block, First,
                             Drift, Lag
<1> QED BY <1>1, <1>2, TickLag, BlockLag DEF Next, InputTask

(* Both, always: the ring and the blocks are dated by their places.        *)
LEMMA LagDated == Spec => []LagInv
<1>1. Init => LagInv
  <2> SUFFICES ASSUME Init PROVE LagInv
    OBVIOUS
  <2>1. input = "none" /\ i2s_buf = <<>> /\ frames = 0
    BY Zenon DEF Init
  <2>2. RingDated
    BY <2>1 DEF RingDated
  <2> QED BY <2>1, <2>2 DEF LagInv, Flushed, StaleFrames
<1> QED BY <1>1, NextLag, PairSafe, AudioInputTypeCorrect, PTL DEF Spec

(* Behind the stale frames, and until the ring refuses a sample, all       *)
(* samples of a frame lag alike, and by less than the ring has to spare.   *)
THEOREM LagWithinRingSafe == Spec => []LagWithinRing
<1>1. LagInv => LagWithinRing
  <2> SUFFICES ASSUME LagInv, frames > StaleFrames, ~ i2s_lost, NEW k \in Sample
               PROVE  /\ Lag(frame, k) = Lag(frame, 1)
                      /\ Lag(frame, k) < SamplePeriod * (I2sSamples - FrameAdvance + 1)
    BY DEF LagWithinRing
  <2>1. \A i \in Sample : Lag(frame, i) = Drift /\ Lag(frame, i) < MaxLag
    BY DEF LagInv
  <2>2. 1 \in Sample
    BY AudioInputAssumption DEF Sample
  <2> QED BY <2>1, <2>2, Zenon DEF MaxLag
<1> QED BY <1>1, LagDated, PTL

(* ... and every frame lags as the one before it did.                      *)
THEOREM LagSteadySafe == Spec => LagSteady
<1> DEFINE Same == frames' # frames /\ frames > StaleFrames /\ ~ i2s_lost =>
                       \A k \in Sample : Lag(frame', k) = Lag(frame, k)
<1>1. AudioInputTypeOK /\ LagInv /\ [Next]_vars => [Same]_vars
  <2> SUFFICES ASSUME AudioInputTypeOK, LagInv, [Next]_vars, frames' # frames,
                      frames > StaleFrames, ~ i2s_lost, NEW k \in Sample
               PROVE  Lag(frame', k) = Lag(frame, k)
    OBVIOUS
  <2>1. I2sRx
    BY DEF Next, vars, inputVars, StartupTask, CodecStartTile0, CodecStartTile1, MicsStart,
           I2sStart, PipelineInit, Start, Tick, InputTask, FlushPoll, FlushWait, MicRx
  <2>2. frames' > StaleFrames
    BY <2>1 DEF I2sRx, AudioInputTypeOK, StaleFrames
  <2>3. Lag(frame', k) = Drift
    BY <2>1, <2>2, FrameLag
  <2> QED BY <2>3 DEF LagInv
<1> QED BY <1>1, LagDated, AudioInputTypeCorrect, PTL DEF Spec, LagSteady
=============================================================================
