-------------------------- MODULE AudioInputProps ---------------------------
(***************************************************************************)
(* When the audio starts, and what reference a block of the microphones    *)
(* is paired with.                                                         *)
(***************************************************************************)
EXTENDS AudioInput

(* Every variable has its type, and the drivers their room.                *)
AudioInputTypeOK ==
    /\ tile0 \in {"codec", "send", "up"}
    /\ tile1 \in {"codec", "mics", "i2s", "pipeline", "up"}
    /\ port0 \in Nat /\ rst_dac \in BOOLEAN
    /\ now \in Nat /\ block_time \in 0 .. BlockPeriod - 1 /\ phase \in 0 .. 2
    /\ mic_buf \in Seq(Int) /\ Len(mic_buf) <= MicBlocks
    /\ i2s_buf \in Seq(Nat) /\ Len(i2s_buf) <= I2sSamples
    /\ input \in {"none", "flush", "wait", "mic", "i2s"}
    /\ mic_frame \in Int /\ frame \in [mic : Int, ref : Seq(Nat)]
    /\ frames \in Nat /\ mic_lost \in BOOLEAN /\ i2s_lost \in BOOLEAN

(* The audio of tile 1 starts only when the codec, on tile 0, is out of    *)
(* reset: audio_codec_start, which calls nothing of the other tile.        *)
CodecBeforeAudio == MicsRunning => rst_dac

(* "This shouldn't need to block given it shares a clock with the PDM      *)
(* mics": rtos_i2s_rx finds a frame, however late the task is, as long as  *)
(* the ring has not refused a sample.                                      *)
NeverBlocks == input = "i2s" /\ ~ i2s_lost => I2sReady

(* The microphones lose no block before the ring has refused a sample, so  *)
(* that the two never slip against each other unnoticed.                   *)
RingRefusesFirst == mic_lost => i2s_lost

(* How much older the k-th reference sample of a frame is than the         *)
(* microphone sample it is paired with.                                    *)
Sample == 1 .. FrameAdvance
Lag(f, k) == f.mic + SamplePeriod * k - f.ref[k]

(* The reference is never newer than the microphones: the echo canceller   *)
(* has no echo to predict from the future.                                 *)
ReferenceNotNewer ==
    frames > 0 /\ ~ i2s_lost => \A k \in Sample : Lag(frame, k) >= 0

(* The ring starts with what came before the flush; three frames use that  *)
(* up.  From then on the lag is the same for all samples of a frame, and   *)
(* at most what the ring holds beyond a frame.                             *)
StaleFrames == 3

LagWithinRing ==
    frames > StaleFrames /\ ~ i2s_lost =>
        \A k \in Sample :
            /\ Lag(frame, k) = Lag(frame, 1)
            /\ Lag(frame, k) < SamplePeriod * (I2sSamples - FrameAdvance + 1)

(* ... and it is the same for all frames, whatever the task's delays.      *)
LagSteady ==
    [][frames' # frames /\ frames > StaleFrames /\ ~ i2s_lost =>
           \A k \in Sample : Lag(frame', k) = Lag(frame, k)]_vars
=============================================================================
