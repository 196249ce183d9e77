----------------------------- MODULE AudioPath ------------------------------
(***************************************************************************)
(* The way of the audio: microphones and reference come in on tile 1, are  *)
(* delayed against each other and echo-cancelled, cross to tile 0, go      *)
(* through IC, NS and AGC, and leave over I2S, where each output channel   *)
(* takes the stage that a host last wrote to the configuration servicer.   *)
(* Every stage is a task of its own and a frame is owned by one task at a  *)
(* time; only the stages of the channels are shared, and they are read     *)
(* anew for every sample.                                                  *)
(***************************************************************************)
EXTENDS Integers, Sequences, FiniteSets

CONSTANTS Pipelines,      \* the pipelines built: "fixed_delay", "adec"
          MicDelays,      \* appconfINPUT_SAMPLES_MIC_DELAY_MS, in samples
          FrameAdvance,   \* samples of a frame, as the delay counts them
          FrameCount,     \* samples of a frame, as the output loop does
          QueueLength,    \* frames a queue of the generic pipeline holds
          SendBuffer,     \* samples that the driver of I2S holds
          StageValues,    \* values that hosts write
          MaxFrames,      \* bound: frames captured
          MaxHeld         \* bound: stages of a channel while a frame goes out

PIPELINE_STAGE_NONE == 0
PIPELINE_STAGE_AEC  == 1
PIPELINE_STAGE_IC   == 2
PIPELINE_STAGE_NS   == 3
PIPELINE_STAGE_AGC  == 4
PipelineStage == PIPELINE_STAGE_NONE .. PIPELINE_STAGE_AGC
AnyStage == PipelineStage \cup StageValues

ASSUME AudioPathAssumption ==
    /\ Pipelines \subseteq {"fixed_delay", "adec"}
    /\ MicDelays \subseteq Int
    /\ FrameAdvance \in Nat \ {0} /\ FrameCount \in Nat \ {0}
    /\ QueueLength \in Nat \ {0} /\ SendBuffer \in Nat /\ SendBuffer >= FrameCount
    /\ MaxFrames \in Nat /\ MaxHeld \in Nat /\ StageValues \subseteq Int

VARIABLES
    pipeline, mic_delay,  \* what was built
    captured,             \* frames taken from the microphones
    delay_buf,            \* the stream buffer of stage_delay, by frames
    queue,                \* where frames wait: before "aec", "ic", "ns", "agc"
    current,              \* the frame that audio_pipeline_output has
    pos,                  \* samples it has copied, two channels a sample
    tmp,                  \* its array
    i2s_send,             \* samples waiting in the driver of I2S
    channel_stage,        \* of the configuration servicer
    held,                 \* history: stages of each channel since it began
    emitted               \* history: the last frame sent

buildVars == <<pipeline, mic_delay>>
outVars   == <<current, pos, tmp, held, emitted>>
vars      == <<buildVars, captured, delay_buf, queue, i2s_send, channel_stage, outVars>>

Link == {"aec", "ic", "ns", "agc"}
Ch   == {0, 1}

(* What a channel of a frame holds: the stage it last went through, and    *)
(* the numbers of the frames its microphone and reference audio came from. *)
(* 0 stands for none; "ref" is the bare reference.                         *)
Mic(n) == [stage |-> PIPELINE_STAGE_NONE, mic |-> n, ref |-> 0]
Ref(n) == [stage |-> PIPELINE_STAGE_NONE, mic |-> 0, ref |-> n]
Audio  == [stage : PipelineStage, mic : Nat, ref : Nat]
Garbage == [stage |-> -1, mic |-> 0, ref |-> 0]   \* of an uninitialised sample

Uninitialised == [c \in Ch |-> [j \in 0 .. FrameCount - 1 |-> Garbage]]

(* A frame and its six channels, in the order of frame_data_t: samples,    *)
(* aec_reference_audio_samples, mic_samples_passthrough, two of each.      *)
Slot  == 0 .. 5
Frame == [n : Nat, slot : [Slot -> Audio]]

Captured(n) ==
    [n |-> n, slot |-> [s \in Slot |-> IF s \in {2, 3} THEN Ref(n) ELSE Mic(n)]]

NoFrame == Captured(0)

Put(f, S, audio) ==
    [f EXCEPT !.slot = [s \in Slot |-> IF s \in S THEN audio ELSE f.slot[s]]]

Init ==
    /\ pipeline \in Pipelines
    /\ mic_delay \in IF pipeline = "fixed_delay" THEN MicDelays ELSE {0}
    /\ captured = 0 /\ delay_buf = <<>>
    /\ queue = [l \in Link |-> <<>>]
    /\ current = NoFrame /\ pos = 0 /\ i2s_send = 0
    /\ tmp = Uninitialised
    /\ channel_stage = [c \in Ch |-> IF c = 0 THEN PIPELINE_STAGE_AGC
                                              ELSE PIPELINE_STAGE_AEC]
    /\ held = [c \in Ch |-> {}] /\ emitted = 0
-----------------------------------------------------------------------------
(* The tasks of tile 1.                                                    *)
Abs(d) == IF d < 0 THEN - d ELSE d

(* A positive delay delays the microphones, a negative one the reference.  *)
DelayedSlots == IF mic_delay > 0 THEN {0, 1} ELSE {2, 3}

(* Whether the buffer, of this many frames, gives one back.  (Mutant.)     *)
GivesFrameLate(frames)   == frames * FrameAdvance > Abs(mic_delay) + FrameAdvance
GivesFrame(frames)       == frames * FrameAdvance > Abs(mic_delay)

(* stage_delay of a captured frame: store it, and take the oldest back.    *)
StageDelay(f) ==
    LET buf == Append(delay_buf, f.slot[IF mic_delay > 0 THEN 0 ELSE 2]) IN
    IF mic_delay = 0
    THEN /\ delay_buf' = delay_buf
         /\ queue' = [queue EXCEPT !["aec"] = Append(@, f)]
    ELSE IF GivesFrame(Len(buf))
    THEN /\ delay_buf' = Tail(buf)
         /\ queue' = [queue EXCEPT !["aec"] = Append(@, Put(f, DelayedSlots, Head(buf)))]
    ELSE /\ delay_buf' = buf
         /\ queue' = [queue EXCEPT !["aec"] = Append(@, f)]

(* audio_pipeline_input_i and stage_delay.                                 *)
DelayTask ==
    /\ pipeline = "fixed_delay" /\ captured < MaxFrames
    /\ Len(queue["aec"]) < QueueLength
    /\ captured' = captured + 1
    /\ StageDelay(Captured(captured + 1))
    /\ UNCHANGED <<buildVars, i2s_send, channel_stage, outVars>>

(* What a stage leaves in a frame.  Only the fixed-delay pipeline keeps    *)
(* the audio of IC and NS, in the channels of the reference.               *)
StageAec(f) ==
    Put(f, {0, 1}, [stage |-> PIPELINE_STAGE_AEC,
                    mic |-> f.slot[0].mic, ref |-> f.slot[2].ref])
After(stage, audio) == [audio EXCEPT !.stage = stage]

StageIc(f)  == Put(f, IF pipeline = "fixed_delay" THEN {0, 2} ELSE {0},
                   After(PIPELINE_STAGE_IC, f.slot[0]))
StageNs(f)  == Put(f, IF pipeline = "fixed_delay" THEN {0, 3} ELSE {0},
                   After(PIPELINE_STAGE_NS, f.slot[0]))
(* (Mutant: both sample channels are overwritten.)                         *)
StageAgcBoth(f) == Put(f, {0, 1}, After(PIPELINE_STAGE_AGC, f.slot[0]))
StageAgc(f) == Put(f, {0}, After(PIPELINE_STAGE_AGC, f.slot[0]))

Pass(from, to, f) ==
    /\ Len(queue[to]) < QueueLength
    /\ queue' = [queue EXCEPT ![from] = Tail(@), ![to] = Append(@, f)]
    /\ UNCHANGED <<buildVars, captured, delay_buf, i2s_send, channel_stage, outVars>>

(* stage_aec, then rtos_intertile_tx to tile 0.                            *)
AecTask ==
    /\ queue["aec"] # <<>>
    /\ Pass("aec", "ic", StageAec(Head(queue["aec"])))

(* The one task of the adec pipelines, outside delay estimation.           *)
Stage1Task ==
    /\ pipeline = "adec" /\ captured < MaxFrames
    /\ Len(queue["ic"]) < QueueLength
    /\ captured' = captured + 1
    /\ queue' = [queue EXCEPT !["ic"] = Append(@, StageAec(Captured(captured + 1)))]
    /\ UNCHANGED <<buildVars, delay_buf, i2s_send, channel_stage, outVars>>
-----------------------------------------------------------------------------
(* The tasks of tile 0.                                                    *)
IcTask == queue["ic"] # <<>> /\ Pass("ic", "ns", StageIc(Head(queue["ic"])))
NsTask == queue["ns"] # <<>> /\ Pass("ns", "agc", StageNs(Head(queue["ns"])))

(* stage_agc, then into audio_pipeline_output.                             *)
AgcTask ==
    /\ queue["agc"] # <<>> /\ current = NoFrame
    /\ current' = StageAgc(Head(queue["agc"]))
    /\ queue' = [queue EXCEPT !["agc"] = Tail(@)]
    /\ pos' = 0
    /\ tmp' = Uninitialised
    /\ held' = [c \in Ch |-> {channel_stage[c]}]
    /\ UNCHANGED <<buildVars, captured, delay_buf, i2s_send, channel_stage, emitted>>

(* The channel of the frame that a stage is taken from.                    *)
SourceSlot(c, stage) ==
    CASE stage = PIPELINE_STAGE_NONE -> 4 + c
      [] stage = PIPELINE_STAGE_AEC  -> 1
      [] stage = PIPELINE_STAGE_IC   -> 2
      [] stage = PIPELINE_STAGE_NS   -> 3
      [] stage = PIPELINE_STAGE_AGC  -> 0

(* (Mutant: one sample too many.)                                          *)
MoreToCopyOneMore == pos <= 2 * FrameCount
MoreToCopy        == pos < 2 * FrameCount

(* One channel of one sample; a stage no branch names writes nothing.      *)
CopySample ==
    /\ current # NoFrame /\ MoreToCopy
    /\ LET c == pos % 2
           stage == channel_stage[c] IN
       tmp' = IF stage \in PipelineStage
              THEN [tmp EXCEPT ![c][pos \div 2] = current.slot[SourceSlot(c, stage)]]
              ELSE tmp
    /\ pos' = pos + 1
    /\ UNCHANGED <<buildVars, captured, delay_buf, queue, i2s_send, channel_stage,
                   current, held, emitted>>

(* rtos_i2s_tx of the array: the task waits, for ever if need be, until    *)
(* the driver has room for all of it; then the frame is freed and the      *)
(* array gone.  (Mutant.)                                                  *)
AllCopiedOneMore == pos > 2 * FrameCount
AllCopied        == pos = 2 * FrameCount

RoomToSend        == i2s_send + FrameCount <= SendBuffer

Send ==
    /\ current # NoFrame /\ AllCopied /\ RoomToSend
    /\ i2s_send' = i2s_send + FrameCount
    /\ emitted' = current.n
    /\ current' = NoFrame
    /\ pos' = 0 /\ tmp' = Uninitialised
    /\ held' = [c \in Ch |-> {}]
    /\ UNCHANGED <<buildVars, captured, delay_buf, queue, channel_stage>>

(* A period of the word clock takes a sample, or finds none and sends      *)
(* silence.                                                                *)
I2s ==
    /\ i2s_send > 0
    /\ i2s_send' = i2s_send - 1
    /\ UNCHANGED <<buildVars, captured, delay_buf, queue, channel_stage, outVars>>

(* configuration_servicer_write_cmd stores the value as it comes.          *)
WriteStage(c, value) ==
    /\ channel_stage' = [channel_stage EXCEPT ![c] = value]
    /\ current # NoFrame => Cardinality(held[c] \cup {value}) <= MaxHeld
    /\ held' = IF current = NoFrame THEN held ELSE [held EXCEPT ![c] = @ \cup {value}]
    /\ UNCHANGED <<buildVars, captured, delay_buf, queue, i2s_send, current, pos, tmp,
                   emitted>>
-----------------------------------------------------------------------------
Output == AgcTask \/ CopySample \/ Send

Next ==
    \/ DelayTask \/ AecTask \/ Stage1Task
    \/ IcTask \/ NsTask \/ Output \/ I2s
    \/ \E c \in Ch, value \in StageValues : WriteStage(c, value)

Spec == Init /\ [][Next]_vars

(* Every task of the pipeline goes on when it can, and the clock of I2S    *)
(* runs.                                                                   *)
FairSpec ==
    /\ Spec
    /\ WF_vars(DelayTask) /\ WF_vars(AecTask) /\ WF_vars(Stage1Task)
    /\ WF_vars(IcTask) /\ WF_vars(NsTask) /\ WF_vars(Output) /\ WF_vars(I2s)
=============================================================================
