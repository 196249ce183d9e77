----------------------------- MODULE AudioInput -----------------------------
(***************************************************************************)
(* The start-up of the two tiles and the input of the audio pipeline on    *)
(* tile 1.  Microphones and I2S run from one clock: every 48 kHz period    *)
(* brings an I2S frame, which a callback decimates by three into a ring,   *)
(* and every third one a microphone sample, delivered in blocks.  The      *)
(* input task flushes the blocks that came before it, and from then on     *)
(* pairs each block with as many reference samples from the ring, which    *)
(* nobody flushes.  The task may be late by any time.                      *)
(***************************************************************************)
EXTENDS Integers, Sequences

CONSTANTS FrameAdvance,  \* samples of a block and of a frame, at 16 kHz
          I2sSamples,    \* samples the ring of the I2S driver holds: 2.2 frames
          MaxTime        \* bound: 48 kHz periods since the microphones started

MicBlocks == 2           \* blocks the microphone driver buffers

ASSUME AudioInputAssumption ==
    /\ FrameAdvance \in Nat \ {0} /\ MaxTime \in Nat
    /\ I2sSamples \in 2 * FrameAdvance .. 3 * FrameAdvance - 1

VARIABLES
    tile0, tile1,     \* what startup_task does on each tile
    port0,            \* messages for tile 1 on port 0 of intertile_ctx
    rst_dac,          \* PIN_RST_DAC_OUT: the codec is out of reset
    now,              \* 48 kHz periods since the microphones started
    block_time,       \* those of the block the microphones are filling
    phase,            \* i of i2s_send_downsample_cb
    mic_buf,          \* blocks, each by the time it began
    i2s_buf,          \* the ring, each sample by the time it was put there
    input,            \* the call audio_pipeline_input is in
    mic_frame,        \* the block it has received
    frame,            \* history: the last frame it delivered
    frames,           \* history: how many it delivered
    mic_lost, i2s_lost  \* history: since the flush, a driver had no room

startVars == <<tile0, tile1, port0, rst_dac>>
clockVars == <<now, block_time, phase, i2s_lost, mic_lost>>
inputVars == <<input, mic_frame, frame, frames>>
vars == <<startVars, clockVars, mic_buf, i2s_buf, inputVars>>

SamplePeriod == 3
BlockPeriod  == SamplePeriod * FrameAdvance

NoFrame == [mic |-> 0, ref |-> <<>>]

Init ==
    /\ tile0 = "codec" /\ tile1 = "codec" /\ port0 = 0 /\ rst_dac = FALSE
    /\ now = 0 /\ block_time = 0 /\ phase = 0 /\ mic_buf = <<>> /\ i2s_buf = <<>>
    /\ mic_lost = FALSE /\ i2s_lost = FALSE
    /\ input = "none" /\ mic_frame = 0 /\ frame = NoFrame /\ frames = 0
-----------------------------------------------------------------------------
(* audio_codec_start of tile 0 sets the pin, then tells tile 1.  (Mutant:  *)
(* the other way round.)                                                   *)
CodecStartTile0Early ==
    /\ \/ tile0 = "codec" /\ tile0' = "send" /\ port0' = port0 + 1 /\ UNCHANGED rst_dac
       \/ tile0 = "send" /\ tile0' = "up" /\ rst_dac' = TRUE /\ UNCHANGED port0
    /\ UNCHANGED <<tile1, clockVars, mic_buf, i2s_buf, inputVars>>

CodecStartTile0 ==
    /\ \/ tile0 = "codec" /\ tile0' = "send" /\ rst_dac' = TRUE /\ UNCHANGED port0
       \/ tile0 = "send" /\ tile0' = "up" /\ port0' = port0 + 1 /\ UNCHANGED rst_dac
    /\ UNCHANGED <<tile1, clockVars, mic_buf, i2s_buf, inputVars>>

(* audio_codec_start of tile 1 waits for the message.                      *)
CodecStartTile1 ==
    /\ tile1 = "codec" /\ port0 > 0
    /\ port0' = port0 - 1 /\ tile1' = "mics"
    /\ UNCHANGED <<tile0, rst_dac, clockVars, mic_buf, i2s_buf, inputVars>>

(* mics_start, i2s_start and audio_pipeline_init, in this order.           *)
Start(step, next) ==
    /\ tile1 = step /\ tile1' = next
    /\ UNCHANGED <<tile0, port0, rst_dac, clockVars, mic_buf, i2s_buf>>

MicsStart    == Start("mics", "i2s") /\ UNCHANGED inputVars
I2sStart     == Start("i2s", "pipeline") /\ UNCHANGED inputVars
PipelineInit == /\ Start("pipeline", "up")
                /\ input' = "flush" /\ UNCHANGED <<mic_frame, frame, frames>>

MicsRunning == tile1 \in {"i2s", "pipeline", "up"}
I2sRunning  == tile1 \in {"pipeline", "up"}
Flushed     == input \in {"mic", "i2s"}
-----------------------------------------------------------------------------
(* The drivers, in one period of the clock.  (Mutants: room for one block  *)
(* or sample fewer or more; a phase that is not reset.)                    *)
MicHasRoomOneFewer == Len(mic_buf) < MicBlocks - 1
MicHasRoom         == Len(mic_buf) < MicBlocks

MicTick ==
    IF block_time = BlockPeriod - 1
    THEN /\ block_time' = 0
         /\ mic_buf' = IF MicHasRoom THEN Append(mic_buf, now' - BlockPeriod) ELSE mic_buf
         /\ mic_lost' = (mic_lost \/ (Flushed /\ ~ MicHasRoom))
    ELSE block_time' = block_time + 1 /\ UNCHANGED <<mic_buf, mic_lost>>

I2sHasRoomOneMore == Len(i2s_buf) <= I2sSamples
I2sHasRoom        == Len(i2s_buf) < I2sSamples

NextPhaseNoReset == IF phase = 2 THEN 1 ELSE phase + 1
NextPhase        == IF phase = 2 THEN 0 ELSE phase + 1

(* i2s_send_downsample_cb.                                                 *)
I2sTick ==
    IF I2sRunning
    THEN /\ phase' = NextPhase
         /\ IF phase = 2
            THEN /\ i2s_buf' = IF I2sHasRoom THEN Append(i2s_buf, now') ELSE i2s_buf
                 /\ i2s_lost' = (i2s_lost \/ (Flushed /\ ~ I2sHasRoom))
            ELSE UNCHANGED <<i2s_buf, i2s_lost>>
    ELSE UNCHANGED <<phase, i2s_buf, i2s_lost>>

Tick ==
    /\ MicsRunning /\ now < MaxTime
    /\ now' = now + 1
    /\ MicTick /\ I2sTick
    /\ UNCHANGED <<startVars, inputVars>>
-----------------------------------------------------------------------------
(* audio_pipeline_input.  The flush polls until there is no block, ...     *)
(* (Mutant: it does not poll.)                                             *)
FlushPollNever ==
    /\ input = "flush" /\ input' = "wait"
    /\ UNCHANGED <<startVars, clockVars, mic_buf, i2s_buf, mic_frame, frame, frames>>

FlushPoll ==
    /\ input = "flush"
    /\ IF mic_buf # <<>> THEN mic_buf' = Tail(mic_buf) /\ UNCHANGED input
                         ELSE input' = "wait" /\ UNCHANGED mic_buf
    /\ UNCHANGED <<startVars, clockVars, i2s_buf, mic_frame, frame, frames>>

(* ... and drops the one that comes next.  (Mutant: it keeps it.)          *)
FlushWaitKeeps ==
    /\ input = "wait" /\ mic_buf # <<>> /\ input' = "mic"
    /\ UNCHANGED <<startVars, clockVars, mic_buf, i2s_buf, mic_frame, frame, frames>>

FlushWait ==
    /\ input = "wait" /\ mic_buf # <<>> /\ input' = "mic"
    /\ mic_buf' = Tail(mic_buf)
    /\ UNCHANGED <<startVars, clockVars, i2s_buf, mic_frame, frame, frames>>

(* rtos_mic_array_rx of a block.                                           *)
MicRx ==
    /\ input = "mic" /\ mic_buf # <<>> /\ input' = "i2s"
    /\ mic_frame' = Head(mic_buf) /\ mic_buf' = Tail(mic_buf)
    /\ UNCHANGED <<startVars, clockVars, i2s_buf, frame, frames>>

(* rtos_i2s_rx of a frame, which then goes on to the stages.  (Mutant: its *)
(* last sample stays in the ring.)                                         *)
I2sReady == Len(i2s_buf) >= FrameAdvance
LeftInRingOverlapping == SubSeq(i2s_buf, FrameAdvance, Len(i2s_buf))
LeftInRing            == SubSeq(i2s_buf, FrameAdvance + 1, Len(i2s_buf))

I2sRx ==
    /\ input = "i2s" /\ I2sReady /\ input' = "mic"
    /\ frame' = [mic |-> mic_frame, ref |-> SubSeq(i2s_buf, 1, FrameAdvance)]
    /\ frames' = frames + 1
    /\ i2s_buf' = LeftInRing
    /\ UNCHANGED <<startVars, clockVars, mic_buf, mic_frame>>
-----------------------------------------------------------------------------
StartupTask == \/ CodecStartTile0 \/ CodecStartTile1
               \/ MicsStart \/ I2sStart \/ PipelineInit
InputTask   == FlushPoll \/ FlushWait \/ MicRx \/ I2sRx

Next == StartupTask \/ Tick \/ InputTask

Spec == Init /\ [][Next]_vars
=============================================================================
