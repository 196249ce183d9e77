--------------------------- MODULE AudioPathProps ---------------------------
(***************************************************************************)
(* What comes out of the audio path, and when.                             *)
(***************************************************************************)
EXTENDS AudioPath

(* Every variable has its type.                                            *)
AudioPathTypeOK ==
    /\ pipeline \in Pipelines /\ mic_delay \in MicDelays \cup {0}
    /\ captured \in Nat /\ delay_buf \in Seq(Audio)
    /\ queue \in [Link -> Seq(Frame)]
    /\ current \in Frame /\ pos \in 0 .. 2 * FrameCount
    /\ tmp \in [Ch -> [0 .. FrameCount - 1 -> Audio \cup {Garbage}]]
    /\ i2s_send \in 0 .. SendBuffer
    /\ channel_stage \in [Ch -> AnyStage]
    /\ held \in [Ch -> SUBSET AnyStage] /\ emitted \in Nat

(* The delay in whole frames that stage_delay brings about.                *)
Lag == Abs(mic_delay) \div FrameAdvance

(* The audio that channel n of a stage should hold: the stage's, of this   *)
(* frame, the delayed side Lag frames old once that many have come in.     *)
Behind(n) == IF n > Lag THEN n - Lag ELSE n

Expected(n, stage) ==
    IF stage = PIPELINE_STAGE_NONE THEN Mic(n)
    ELSE IF stage \in PipelineStage
    THEN [stage |-> stage,
          mic   |-> IF mic_delay > 0 THEN Behind(n) ELSE n,
          ref   |-> IF mic_delay < 0 THEN Behind(n) ELSE n]
    ELSE Garbage

(* The stages that a pipeline leaves where audio_pipeline_output looks.    *)
Delivered == IF pipeline = "fixed_delay" THEN AnyStage
             ELSE AnyStage \ {PIPELINE_STAGE_IC, PIPELINE_STAGE_NS}

SampleOf(p) == tmp[p % 2][p \div 2]

CopiedAs(p, stages) ==
    \E stage \in stages : SampleOf(p) = Expected(current.n, stage)

(* Every sample sent is the audio, of the frame being sent, of a stage     *)
(* its channel had while the frame went out, with microphones and          *)
(* reference as far apart as the delay stage puts them: no later stage     *)
(* has overwritten it and no other frame has got in between.               *)
StageAsConfigured ==
    current # NoFrame =>
        \A p \in 0 .. pos - 1 :
            held[p % 2] \subseteq Delivered => CopiedAs(p, held[p % 2])

(* The stream buffer has room for the next frame: the assertion that all   *)
(* bytes were sent never fails, for any delay and frame size.              *)
BufferHasRoom ==
    (Len(delay_buf) + 1) * FrameAdvance <= Abs(mic_delay) + FrameAdvance

(* "A positive delay will delay mics": once the delay has set in, what the *)
(* AEC gets from the microphones is that many samples old.                 *)
DelayAsConfigured ==
    \A i \in 1 .. Len(queue["aec"]) :
        LET f == queue["aec"][i] IN
        f.slot[0].mic # f.n => (f.n - f.slot[0].mic) * FrameAdvance = mic_delay

(* Every frame captured leaves, whatever the hosts write meanwhile, and    *)
(* though the output waits for I2S and every queue behind it may be full:  *)
(* the clock of I2S is all that has to go on.                              *)
FramesComeOut == <>(emitted = MaxFrames)
=============================================================================
