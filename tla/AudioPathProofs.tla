-------------------------- MODULE AudioPathProofs ---------------------------
(***************************************************************************)
(* For every delay, frame size, queue length and behaviour of the hosts,   *)
(* the audio path keeps its types, its delay buffer has room, and each     *)
(* channel sends the audio of the stage it was given.                      *)
(***************************************************************************)
EXTENDS AudioPathInv, TLAPS

(* Division as the delay buffer does it: the quotient by filling up.       *)
LEMMA Quotient ==
    ASSUME NEW a \in Nat, NEW b \in Nat \ {0}, NEW q \in Nat, q * b <= a
    PROVE  /\ (a \div b) \in Nat /\ q <= (a \div b)
           /\ a < (q + 1) * b => (a \div b) = q
OBVIOUS

LEMMA BuildFacts ==
    ASSUME AudioPathTypeOK
    PROVE  mic_delay \in Int /\ Abs(mic_delay) \in Nat /\ FrameAdvance \in Nat \ {0}
BY AudioPathAssumption DEF AudioPathTypeOK, Abs

(* Frames and what is put into them.                                       *)
LEMMA MicRef ==
    ASSUME NEW n \in Nat PROVE Mic(n) \in Audio /\ Ref(n) \in Audio
BY DEF Mic, Ref, Audio, PipelineStage, PIPELINE_STAGE_NONE, PIPELINE_STAGE_AGC

LEMMA CapturedFrame ==
    ASSUME NEW n \in Nat
    PROVE  /\ Captured(n) \in Frame /\ Captured(n).n = n
           /\ \A s \in Slot : Captured(n).slot[s] = IF s \in {2, 3} THEN Ref(n) ELSE Mic(n)
<1>. DEFINE slots == [s \in Slot |-> IF s \in {2, 3} THEN Ref(n) ELSE Mic(n)]
<1>1. slots \in [Slot -> Audio]
  BY MicRef
<1>2. Captured(n) = [n |-> n, slot |-> slots]
  BY DEF Captured
<1>3. \A s \in Slot : slots[s] = IF s \in {2, 3} THEN Ref(n) ELSE Mic(n)
  OBVIOUS
<1>. QED BY <1>1, <1>2, <1>3 DEF Frame

LEMMA PutFrame ==
    ASSUME NEW f \in Frame, NEW S, NEW audio \in Audio
    PROVE  /\ Put(f, S, audio) \in Frame /\ Put(f, S, audio).n = f.n
           /\ \A s \in Slot : Put(f, S, audio).slot[s] = IF s \in S THEN audio ELSE f.slot[s]
<1>. DEFINE slots == [s \in Slot |-> IF s \in S THEN audio ELSE f.slot[s]]
<1>1. slots \in [Slot -> Audio]
  BY DEF Frame
<1>2. Put(f, S, audio) = [n |-> f.n, slot |-> slots]
  BY DEF Put, Frame
<1>3. f.n \in Nat
  BY DEF Frame
<1>4. \A s \in Slot : slots[s] = IF s \in S THEN audio ELSE f.slot[s]
  OBVIOUS
<1>. QED BY <1>1, <1>2, <1>3, <1>4 DEF Frame

LEMMA SlotOfFrame == ASSUME NEW f \in Frame PROVE \A s \in Slot : f.slot[s] \in Audio
BY DEF Frame

LEMMA AfterAudio ==
    ASSUME NEW stage \in PipelineStage, NEW audio \in Audio
    PROVE  /\ After(stage, audio) \in Audio
           /\ After(stage, audio) = [stage |-> stage, mic |-> audio.mic, ref |-> audio.ref]
BY DEF After, Audio

LEMMA Stages ==
    /\ PIPELINE_STAGE_NONE \in PipelineStage /\ PIPELINE_STAGE_AEC \in PipelineStage
    /\ PIPELINE_STAGE_IC \in PipelineStage /\ PIPELINE_STAGE_NS \in PipelineStage
    /\ PIPELINE_STAGE_AGC \in PipelineStage
BY DEF PipelineStage, PIPELINE_STAGE_NONE, PIPELINE_STAGE_AEC, PIPELINE_STAGE_IC,
       PIPELINE_STAGE_NS, PIPELINE_STAGE_AGC

(* What each stage makes of a frame.                                       *)
LEMMA StageFrames ==
    ASSUME NEW f \in Frame
    PROVE  StageAec(f) \in Frame /\ StageIc(f) \in Frame
           /\ StageNs(f) \in Frame /\ StageAgc(f) \in Frame
<1>1. f.slot[0] \in Audio /\ f.slot[2] \in Audio
  BY SlotOfFrame DEF Slot
<1>2. [stage |-> PIPELINE_STAGE_AEC, mic |-> f.slot[0].mic, ref |-> f.slot[2].ref] \in Audio
  BY <1>1, Stages DEF Audio
<1>3. /\ After(PIPELINE_STAGE_IC, f.slot[0]) \in Audio
      /\ After(PIPELINE_STAGE_NS, f.slot[0]) \in Audio
      /\ After(PIPELINE_STAGE_AGC, f.slot[0]) \in Audio
  BY <1>1, Stages, AfterAudio
<1>. QED BY <1>2, <1>3, PutFrame DEF StageAec, StageIc, StageNs, StageAgc
-----------------------------------------------------------------------------
(* Type correctness.                                                       *)
LEMMA SourceSlotRange ==
    ASSUME NEW c \in Ch, NEW stage \in PipelineStage PROVE SourceSlot(c, stage) \in Slot
BY DEF Ch, Slot, SourceSlot, PipelineStage, PIPELINE_STAGE_NONE, PIPELINE_STAGE_AEC,
       PIPELINE_STAGE_IC, PIPELINE_STAGE_NS, PIPELINE_STAGE_AGC

LEMMA PassType ==
    ASSUME AudioPathTypeOK, NEW from \in Link, NEW to \in Link, NEW f \in Frame,
           queue[from] # <<>>, Pass(from, to, f)
    PROVE  AudioPathTypeOK'
<1>1. queue[from] \in Seq(Frame) /\ queue[to] \in Seq(Frame)
  BY DEF AudioPathTypeOK
<1>2. Tail(queue[from]) \in Seq(Frame)
  BY <1>1
<1>3. \A s \in Seq(Frame) : Append(s, f) \in Seq(Frame)
  OBVIOUS
<1>4. queue' \in [Link -> Seq(Frame)]
  BY <1>1, <1>2, <1>3 DEF Pass, AudioPathTypeOK
<1>. QED BY <1>4 DEF Pass, AudioPathTypeOK, buildVars, outVars

LEMMA InitType == Init => AudioPathTypeOK
<1>. SUFFICES ASSUME Init PROVE AudioPathTypeOK
  OBVIOUS
<1>1. pipeline \in Pipelines /\ mic_delay \in MicDelays \cup {0}
  BY DEF Init
<1>2. delay_buf \in Seq(Audio) /\ queue \in [Link -> Seq(Frame)]
  BY DEF Init
<1>3. current \in Frame
  BY CapturedFrame DEF Init, NoFrame
<1>4. pos \in 0 .. 2 * FrameCount /\ captured \in Nat /\ emitted \in Nat
  BY AudioPathAssumption DEF Init
<1>5. tmp \in [Ch -> [0 .. FrameCount - 1 -> Audio \cup {Garbage}]]
  BY DEF Init, Uninitialised
<1>6. channel_stage \in [Ch -> AnyStage]
  BY Stages DEF Init, AnyStage
<1>7. held \in [Ch -> SUBSET AnyStage]
  BY DEF Init
<1>8. i2s_send \in 0 .. SendBuffer
  BY AudioPathAssumption DEF Init
<1>. QED BY <1>1, <1>2, <1>3, <1>4, <1>5, <1>6, <1>7, <1>8 DEF AudioPathTypeOK

LEMMA Appended ==
    ASSUME NEW S, NEW s \in Seq(S), NEW e \in S
    PROVE  /\ Append(s, e) \in Seq(S)
           /\ Head(Append(s, e)) \in S /\ Tail(Append(s, e)) \in Seq(S)
<1>1. Append(s, e) \in Seq(S) /\ Len(Append(s, e)) = Len(s) + 1
  OBVIOUS
<1>2. \A t \in Seq(S) : Len(t) > 0 => Head(t) \in S /\ Tail(t) \in Seq(S)
  OBVIOUS
<1>3. Len(s) \in Nat
  OBVIOUS
<1>. QED BY <1>1, <1>2, <1>3

LEMMA DelayTaskType ==
    ASSUME AudioPathTypeOK, DelayTask PROVE AudioPathTypeOK'
<1>. DEFINE f   == Captured(captured + 1)
            buf == Append(delay_buf, f.slot[IF mic_delay > 0 THEN 0 ELSE 2])
<1>1. captured' \in Nat /\ f \in Frame
  BY CapturedFrame DEF DelayTask, AudioPathTypeOK
<1>2. f.slot[IF mic_delay > 0 THEN 0 ELSE 2] \in Audio
  BY <1>1, SlotOfFrame DEF Slot
<1>3. buf \in Seq(Audio) /\ Head(buf) \in Audio /\ Tail(buf) \in Seq(Audio)
  <2>1. delay_buf \in Seq(Audio)
    BY DEF AudioPathTypeOK
  <2>. QED BY <1>2, <2>1, Appended
<1>4. Put(f, DelayedSlots, Head(buf)) \in Frame
  BY <1>1, <1>3, PutFrame
<1>5. delay_buf' \in Seq(Audio)
  BY <1>3 DEF DelayTask, StageDelay, AudioPathTypeOK
<1>6. PICK g \in Frame : queue' = [queue EXCEPT !["aec"] = Append(@, g)]
  BY <1>1, <1>4 DEF DelayTask, StageDelay
<1>7. queue' \in [Link -> Seq(Frame)]
  BY <1>6 DEF Link, AudioPathTypeOK
<1>. QED BY <1>1, <1>5, <1>7 DEF DelayTask, AudioPathTypeOK, buildVars, outVars

LEMMA Stage1TaskType ==
    ASSUME AudioPathTypeOK, Stage1Task PROVE AudioPathTypeOK'
<1>1. captured' \in Nat /\ Captured(captured + 1) \in Frame
  BY CapturedFrame DEF Stage1Task, AudioPathTypeOK
<1>2. StageAec(Captured(captured + 1)) \in Frame
  BY <1>1, StageFrames
<1>3. queue' \in [Link -> Seq(Frame)]
  BY <1>2 DEF Stage1Task, Link, AudioPathTypeOK
<1>. QED BY <1>1, <1>3 DEF Stage1Task, AudioPathTypeOK, buildVars, outVars

LEMMA OutputType ==
    ASSUME AudioPathTypeOK, Output PROVE AudioPathTypeOK'
<1>1. CASE AgcTask
  <2>1. Head(queue["agc"]) \in Frame /\ Tail(queue["agc"]) \in Seq(Frame)
    BY <1>1 DEF AgcTask, Link, AudioPathTypeOK
  <2>2. current' \in Frame /\ queue' \in [Link -> Seq(Frame)]
    BY <1>1, <2>1, StageFrames DEF AgcTask, AudioPathTypeOK
  <2>3. pos' \in 0 .. 2 * FrameCount
    BY <1>1, AudioPathAssumption DEF AgcTask
  <2>4. tmp' \in [Ch -> [0 .. FrameCount - 1 -> Audio \cup {Garbage}]]
    BY <1>1 DEF AgcTask, Uninitialised
  <2>5. held' \in [Ch -> SUBSET AnyStage]
    BY <1>1 DEF AgcTask, AudioPathTypeOK
  <2>. QED BY <1>1, <2>2, <2>3, <2>4, <2>5 DEF AgcTask, AudioPathTypeOK, buildVars
<1>2. CASE CopySample
  <2>1. pos \in 0 .. 2 * FrameCount - 1 /\ pos' \in 0 .. 2 * FrameCount
    BY <1>2, AudioPathAssumption DEF CopySample, MoreToCopy, AudioPathTypeOK
  <2>2. pos % 2 \in Ch
    BY <2>1 DEF Ch
  <2>3. channel_stage[pos % 2] \in PipelineStage =>
            current.slot[SourceSlot(pos % 2, channel_stage[pos % 2])] \in Audio
    BY <2>2, SourceSlotRange, SlotOfFrame DEF AudioPathTypeOK
  <2>4. tmp' \in [Ch -> [0 .. FrameCount - 1 -> Audio \cup {Garbage}]]
    BY <1>2, <2>3 DEF CopySample, AudioPathTypeOK
  <2>. QED BY <1>2, <2>1, <2>4 DEF CopySample, AudioPathTypeOK, buildVars
<1>3. CASE Send
  <2>1. emitted' \in Nat /\ current' \in Frame
    BY <1>3, CapturedFrame DEF Send, NoFrame, Frame, AudioPathTypeOK
  <2>2. held' \in [Ch -> SUBSET AnyStage]
    BY <1>3 DEF Send
  <2>3. i2s_send' \in 0 .. SendBuffer
    BY <1>3, AudioPathAssumption DEF Send, RoomToSend, AudioPathTypeOK
  <2>4. pos' \in 0 .. 2 * FrameCount
    BY <1>3, AudioPathAssumption DEF Send
  <2>5. tmp' \in [Ch -> [0 .. FrameCount - 1 -> Audio \cup {Garbage}]]
    BY <1>3 DEF Send, Uninitialised
  <2>. QED BY <1>3, <2>1, <2>2, <2>3, <2>4, <2>5 DEF Send, AudioPathTypeOK, buildVars
<1>. QED BY <1>1, <1>2, <1>3 DEF Output

LEMMA WriteStageType ==
    ASSUME AudioPathTypeOK, NEW c \in Ch, NEW value \in StageValues, WriteStage(c, value)
    PROVE  AudioPathTypeOK'
<1>1. channel_stage' \in [Ch -> AnyStage]
  BY DEF WriteStage, AnyStage, AudioPathTypeOK
<1>2. held' \in [Ch -> SUBSET AnyStage]
  <2>1. held[c] \cup {value} \in SUBSET AnyStage
    BY DEF AnyStage, AudioPathTypeOK
  <2>. QED BY <2>1 DEF WriteStage, AudioPathTypeOK
<1>. QED BY <1>1, <1>2 DEF WriteStage, AudioPathTypeOK, buildVars

LEMMA StepType == AudioPathTypeOK /\ [Next]_vars => AudioPathTypeOK'
<1>. SUFFICES ASSUME AudioPathTypeOK, [Next]_vars PROVE AudioPathTypeOK'
  OBVIOUS
<1>1. \A l \in Link : queue[l] # <<>> => Head(queue[l]) \in Frame
  BY DEF AudioPathTypeOK
<1>2. CASE DelayTask  BY <1>2, DelayTaskType
<1>3. CASE Stage1Task BY <1>3, Stage1TaskType
<1>4. CASE AecTask    BY <1>1, <1>4, PassType, StageFrames DEF AecTask, Link
<1>5. CASE IcTask     BY <1>1, <1>5, PassType, StageFrames DEF IcTask, Link
<1>6. CASE NsTask     BY <1>1, <1>6, PassType, StageFrames DEF NsTask, Link
<1>7. CASE Output     BY <1>7, OutputType
<1>8. CASE \E c \in Ch, value \in StageValues : WriteStage(c, value)
  BY <1>8, WriteStageType
<1>9. CASE I2s
  <2>1. i2s_send' \in 0 .. SendBuffer
    BY <1>9, AudioPathAssumption DEF I2s, AudioPathTypeOK
  <2>. QED BY <1>9, <2>1 DEF I2s, AudioPathTypeOK, buildVars, outVars
<1>10. CASE UNCHANGED vars
  BY <1>10 DEF vars, buildVars, outVars, AudioPathTypeOK
<1>. QED BY <1>2, <1>3, <1>4, <1>5, <1>6, <1>7, <1>8, <1>9, <1>10 DEF Next

(* Every variable keeps its type; no sample is copied past the array.      *)
THEOREM AudioPathTypeCorrect == Spec => []AudioPathTypeOK
BY InitType, StepType, PTL DEF Spec
-----------------------------------------------------------------------------
(* What waits before a stage, and what the stage makes of it.              *)
LEMMA ExpectedAudio ==
    ASSUME NEW n, NEW stage \in PipelineStage \ {PIPELINE_STAGE_NONE}
    PROVE  Expected(n, stage) = [stage |-> stage,
                                 mic   |-> IF mic_delay > 0 THEN Behind(n) ELSE n,
                                 ref   |-> IF mic_delay < 0 THEN Behind(n) ELSE n]
BY DEF Expected

LEMMA Distinct ==
    /\ PIPELINE_STAGE_AEC # PIPELINE_STAGE_NONE /\ PIPELINE_STAGE_IC # PIPELINE_STAGE_NONE
    /\ PIPELINE_STAGE_NS # PIPELINE_STAGE_NONE /\ PIPELINE_STAGE_AGC # PIPELINE_STAGE_NONE
BY DEF PIPELINE_STAGE_NONE, PIPELINE_STAGE_AEC, PIPELINE_STAGE_IC, PIPELINE_STAGE_NS,
       PIPELINE_STAGE_AGC

LEMMA AecMakes ==
    ASSUME NEW f \in Frame, BeforeAec(f) PROVE BeforeIc(StageAec(f))
<1>. DEFINE x == IF mic_delay > 0 THEN Behind(f.n) ELSE f.n
            y == IF mic_delay < 0 THEN Behind(f.n) ELSE f.n
            audio == [stage |-> PIPELINE_STAGE_AEC,
                      mic |-> f.slot[0].mic, ref |-> f.slot[2].ref]
<1>1. f.slot[0] = Mic(x) /\ f.slot[2] = Ref(y)
  BY DEF BeforeAec
<1>2. f.slot[0].mic = x /\ f.slot[2].ref = y
  BY <1>1 DEF Mic, Ref
<1>3. audio = Expected(f.n, PIPELINE_STAGE_AEC)
  BY <1>2, ExpectedAudio, Stages, Distinct
<1>4. f.slot[0] \in Audio /\ f.slot[2] \in Audio
  BY SlotOfFrame DEF Slot
<1>5. audio \in Audio
  BY <1>4, Stages DEF Audio
<1>6. /\ StageAec(f).n = f.n
      /\ \A s \in Slot : StageAec(f).slot[s] = IF s \in {0, 1} THEN audio ELSE f.slot[s]
  BY <1>5, PutFrame DEF StageAec
<1>. QED BY <1>3, <1>6 DEF BeforeAec, BeforeIc, Raw, Slot

LEMMA StageOfExpected ==
    ASSUME NEW n, NEW s \in PipelineStage \ {PIPELINE_STAGE_NONE},
           NEW t \in PipelineStage \ {PIPELINE_STAGE_NONE}, Expected(n, s) \in Audio
    PROVE  After(t, Expected(n, s)) = Expected(n, t)
<1>1. After(t, Expected(n, s)) =
          [stage |-> t, mic |-> Expected(n, s).mic, ref |-> Expected(n, s).ref]
  BY AfterAudio
<1>2. /\ Expected(n, s).mic = IF mic_delay > 0 THEN Behind(n) ELSE n
      /\ Expected(n, s).ref = IF mic_delay < 0 THEN Behind(n) ELSE n
  BY ExpectedAudio
<1>. QED BY <1>1, <1>2, ExpectedAudio

LEMMA IcMakes ==
    ASSUME NEW f \in Frame, BeforeIc(f) PROVE BeforeNs(StageIc(f))
<1>1. f.slot[0] \in Audio /\ f.slot[0] = Expected(f.n, PIPELINE_STAGE_AEC)
  BY SlotOfFrame DEF Slot, BeforeIc
<1>2. After(PIPELINE_STAGE_IC, f.slot[0]) = Expected(f.n, PIPELINE_STAGE_IC)
  BY <1>1, StageOfExpected, Stages, Distinct
<1>3. Expected(f.n, PIPELINE_STAGE_IC) \in Audio
  BY <1>1, <1>2, AfterAudio, Stages
<1>4. /\ StageIc(f).n = f.n
      /\ \A s \in Slot : StageIc(f).slot[s] =
             IF s \in (IF pipeline = "fixed_delay" THEN {0, 2} ELSE {0})
             THEN Expected(f.n, PIPELINE_STAGE_IC) ELSE f.slot[s]
  BY <1>2, <1>3, PutFrame DEF StageIc
<1>. QED BY <1>4 DEF BeforeIc, BeforeNs, Raw, Slot

LEMMA NsMakes ==
    ASSUME NEW f \in Frame, BeforeNs(f) PROVE BeforeAgc(StageNs(f))
<1>1. f.slot[0] \in Audio /\ f.slot[0] = Expected(f.n, PIPELINE_STAGE_IC)
  BY SlotOfFrame DEF Slot, BeforeNs
<1>2. After(PIPELINE_STAGE_NS, f.slot[0]) = Expected(f.n, PIPELINE_STAGE_NS)
  BY <1>1, StageOfExpected, Stages, Distinct
<1>3. Expected(f.n, PIPELINE_STAGE_NS) \in Audio
  BY <1>1, <1>2, AfterAudio, Stages
<1>4. /\ StageNs(f).n = f.n
      /\ \A s \in Slot : StageNs(f).slot[s] =
             IF s \in (IF pipeline = "fixed_delay" THEN {0, 3} ELSE {0})
             THEN Expected(f.n, PIPELINE_STAGE_NS) ELSE f.slot[s]
  BY <1>2, <1>3, PutFrame DEF StageNs
<1>. QED BY <1>4 DEF BeforeNs, BeforeAgc, Raw, Slot

LEMMA AgcMakes ==
    ASSUME NEW f \in Frame, BeforeAgc(f) PROVE Processed(StageAgc(f))
<1>1. f.slot[0] \in Audio /\ f.slot[0] = Expected(f.n, PIPELINE_STAGE_NS)
  BY SlotOfFrame DEF Slot, BeforeAgc
<1>2. After(PIPELINE_STAGE_AGC, f.slot[0]) = Expected(f.n, PIPELINE_STAGE_AGC)
  BY <1>1, StageOfExpected, Stages, Distinct
<1>3. Expected(f.n, PIPELINE_STAGE_AGC) \in Audio
  BY <1>1, <1>2, AfterAudio, Stages
<1>4. /\ StageAgc(f).n = f.n
      /\ \A s \in Slot : StageAgc(f).slot[s] =
             IF s \in {0} THEN Expected(f.n, PIPELINE_STAGE_AGC) ELSE f.slot[s]
  BY <1>2, <1>3, PutFrame DEF StageAgc
<1>. QED BY <1>4 DEF BeforeAgc, Processed, Raw, Slot
-----------------------------------------------------------------------------
(* The delay stage.                                                        *)
LEMMA InitBuffer == Init => BufferInv
<1>. SUFFICES ASSUME Init PROVE BufferInv
  OBVIOUS
<1>1. /\ AudioPathTypeOK /\ delay_buf = <<>> /\ captured = 0
      /\ pipeline # "fixed_delay" => mic_delay = 0
  BY InitType DEF Init
<1>2. Len(delay_buf) = 0
  BY <1>1
<1>3. 0 * FrameAdvance <= Abs(mic_delay)
  BY <1>1, BuildFacts
<1>. QED BY <1>1, <1>2, <1>3 DEF BufferInv

(* The buffer has taken in frame n and holds one frame more than before.   *)
LEMMA Stored ==
    ASSUME AudioPathTypeOK, BufferInv, mic_delay # 0
    PROVE  LET buf == Append(delay_buf, Source(captured + 1)) IN
           /\ buf \in Seq(Audio) /\ Len(buf) = Len(delay_buf) + 1
           /\ \A i \in 1 .. Len(buf) : buf[i] = Source(captured + 1 - Len(buf) + i)
<1>. DEFINE buf == Append(delay_buf, Source(captured + 1))
<1>1. captured \in Nat /\ delay_buf \in Seq(Audio) /\ Len(delay_buf) \in Nat
  BY DEF AudioPathTypeOK
<1>2. Source(captured + 1) \in Audio
  BY <1>1, MicRef DEF Source
<1>3. /\ buf \in Seq(Audio) /\ Len(buf) = Len(delay_buf) + 1
      /\ \A i \in 1 .. Len(delay_buf) : buf[i] = delay_buf[i]
      /\ buf[Len(delay_buf) + 1] = Source(captured + 1)
  BY <1>1, <1>2
<1>4. \A i \in 1 .. Len(delay_buf) :
          delay_buf[i] = Source(captured - Len(delay_buf) + i)
  BY DEF BufferInv
<1>5. ASSUME NEW i \in 1 .. Len(buf) PROVE buf[i] = Source(captured + 1 - Len(buf) + i)
  <2>1. captured + 1 - Len(buf) + i = captured - Len(delay_buf) + i
    BY <1>1, <1>3
  <2>2. CASE i \in 1 .. Len(delay_buf)
    BY <2>1, <2>2, <1>3, <1>4
  <2>3. CASE i = Len(delay_buf) + 1
    <3>1. captured - Len(delay_buf) + i = captured + 1
      BY <1>1, <2>3
    <3>. QED BY <1>3, <2>1, <2>3, <3>1
  <2>. QED BY <1>1, <1>3, <2>2, <2>3
<1>. QED BY <1>3, <1>5

(* Once the buffer gives a frame back, that frame is Lag frames old.       *)
LEMMA GivenBack ==
    ASSUME AudioPathTypeOK, BufferInv, GivesFrame(Len(delay_buf) + 1)
    PROVE  Len(delay_buf) = Lag /\ Behind(captured + 1) = captured + 1 - Len(delay_buf)
<1>. DEFINE q == Len(delay_buf)
<1>1. captured \in Nat /\ q \in Nat /\ q <= captured
  BY DEF AudioPathTypeOK, BufferInv
<1>2. q * FrameAdvance <= Abs(mic_delay) /\ Abs(mic_delay) < (q + 1) * FrameAdvance
  BY <1>1, BuildFacts DEF GivesFrame, BufferInv
<1>3. (Abs(mic_delay) \div FrameAdvance) = q
  BY <1>1, <1>2, BuildFacts, Quotient
<1>4. Lag = q
  BY <1>3 DEF Lag
<1>. QED BY <1>1, <1>4 DEF Behind

(* Until then the frame is one of the first Lag.                           *)
LEMMA NotYet ==
    ASSUME AudioPathTypeOK, BufferInv, mic_delay # 0, ~ GivesFrame(Len(delay_buf) + 1)
    PROVE  Len(delay_buf) = captured /\ Behind(captured + 1) = captured + 1
<1>. DEFINE q == Len(delay_buf)
<1>1. captured \in Nat /\ q \in Nat
  BY DEF AudioPathTypeOK
<1>2. (q + 1) * FrameAdvance <= Abs(mic_delay)
  BY <1>1, BuildFacts DEF GivesFrame
<1>3. q = captured
  BY <1>1, <1>2, BuildFacts DEF BufferInv
<1>4. q + 1 \in Nat
  BY <1>1
<1>5. q + 1 <= (Abs(mic_delay) \div FrameAdvance) /\ (Abs(mic_delay) \div FrameAdvance) \in Nat
  BY <1>2, <1>4, BuildFacts, Quotient
<1>6. Lag \in Nat /\ captured + 1 <= Lag
  BY <1>3, <1>5 DEF Lag
<1>. QED BY <1>1, <1>3, <1>6 DEF Behind

(* A frame captured goes through the delay stage: the buffer keeps its     *)
(* last frames and the AEC gets the delayed audio.                         *)
LEMMA DelayTaskKeeps ==
    ASSUME AudioPathTypeOK, BufferInv, DelayTask
    PROVE  /\ BufferInv'
           /\ \E g \in Frame : BeforeAec(g) /\ queue' = [queue EXCEPT !["aec"] = Append(@, g)]
<1>. DEFINE n   == captured + 1
            q   == Len(delay_buf)
            f   == Captured(n)
            buf == Append(delay_buf, f.slot[IF mic_delay > 0 THEN 0 ELSE 2])
<1>1. /\ pipeline = "fixed_delay" /\ captured' = n /\ StageDelay(f)
      /\ pipeline' = pipeline /\ mic_delay' = mic_delay
  BY DEF DelayTask, buildVars
<1>2. n \in Nat /\ n # 0 /\ captured \in Nat /\ q \in Nat /\ q <= captured
  BY DEF AudioPathTypeOK, BufferInv
<1>3. /\ f \in Frame /\ f.n = n
      /\ \A s \in Slot : f.slot[s] = IF s \in {2, 3} THEN Ref(n) ELSE Mic(n)
  BY <1>2, CapturedFrame
<1>4. f.slot[IF mic_delay > 0 THEN 0 ELSE 2] = Source(n)
  BY <1>3 DEF Source, Slot
<1>6. CASE mic_delay = 0
  <2>1. delay_buf' = delay_buf /\ delay_buf = <<>> /\ queue' = [queue EXCEPT !["aec"] = Append(@, f)]
    BY <1>1, <1>6 DEF StageDelay, BufferInv
  <2>2. q = 0 /\ Len(delay_buf') = 0
    BY <2>1
  <2>3. BufferInv'
    BY <1>1, <1>2, <1>6, <2>1, <2>2, BuildFacts DEF BufferInv, Abs
  <2>4. BeforeAec(f)
    BY <1>2, <1>3, <1>6 DEF BeforeAec, Raw, Slot
  <2>. QED BY <1>3, <2>1, <2>3, <2>4
<1>7. CASE mic_delay # 0
  <2>0. buf = Append(delay_buf, Source(n))
    BY <1>4
  <2>. HIDE DEF buf
  <2>1. /\ buf \in Seq(Audio) /\ Len(buf) = q + 1
        /\ \A i \in 1 .. Len(buf) : buf[i] = Source(n - Len(buf) + i)
    BY <1>2, <1>7, <2>0, Stored
  <2>2. CASE GivesFrame(Len(buf))
    <3>1. /\ delay_buf' = Tail(buf)
          /\ queue' = [queue EXCEPT !["aec"] = Append(@, Put(f, DelayedSlots, Head(buf)))]
      BY <1>1, <1>7, <2>2 DEF StageDelay, buf
    <3>2. q = Lag /\ Behind(n) = n - q /\ q * FrameAdvance <= Abs(mic_delay)
      <4>1. GivesFrame(Len(delay_buf) + 1)
        BY <2>1, <2>2
      <4>2. q * FrameAdvance <= Abs(mic_delay)
        BY DEF BufferInv
      <4>. QED BY <1>2, <4>1, <4>2, GivenBack
    <3>3. (q + 1) * FrameAdvance > Abs(mic_delay)
      BY <2>1, <2>2 DEF GivesFrame
    <3>4. Head(buf) = Source(Behind(n)) /\ Head(buf) \in Audio
      <4>1. Head(buf) = buf[1] /\ 1 \in 1 .. Len(buf)
        BY <1>2, <2>1
      <4>2. n - Len(buf) + 1 = n - q
        BY <1>2, <2>1
      <4>3. buf[1] \in Audio
        BY <4>1, <2>1
      <4>. QED BY <2>1, <3>2, <4>1, <4>2, <4>3
    <3>5. Len(Tail(buf)) = q /\ \A i \in 1 .. q : Tail(buf)[i] = Source(n - q + i)
      <4>1. Len(Tail(buf)) = q /\ \A i \in 1 .. q : Tail(buf)[i] = buf[i + 1]
        BY <1>2, <2>1
      <4>2. ASSUME NEW i \in 1 .. q PROVE buf[i + 1] = Source(n - q + i)
        <5>1. i + 1 \in 1 .. Len(buf) /\ n - Len(buf) + (i + 1) = n - q + i
          BY <1>2, <2>1
        <5>. QED BY <2>1, <5>1
      <4>. QED BY <4>1, <4>2
    <3>6. BufferInv'
      <4>1. Len(delay_buf') = q /\ \A i \in 1 .. q : delay_buf'[i] = Source(n - q + i)
        BY <3>1, <3>5
      <4>2. Len(delay_buf') <= captured'
        BY <1>1, <1>2, <4>1
      <4>3. Len(delay_buf') * FrameAdvance <= Abs(mic_delay)'
        BY <1>1, <3>2, <4>1 DEF Abs
      <4>4. (Len(delay_buf') + 1) * FrameAdvance > Abs(mic_delay)'
        BY <1>1, <3>3, <4>1 DEF Abs
      <4>5. \A i \in 1 .. Len(delay_buf') :
                delay_buf'[i] = Source(captured' - Len(delay_buf') + i)
        BY <1>1, <4>1
      <4>. QED BY <1>1, <1>7, <4>2, <4>3, <4>4, <4>5 DEF BufferInv, Source
    <3>7. LET g == Put(f, DelayedSlots, Head(buf)) IN g \in Frame /\ BeforeAec(g)
      <4>. DEFINE g == Put(f, DelayedSlots, Head(buf))
      <4>1. /\ g \in Frame /\ g.n = n
            /\ \A s \in Slot : g.slot[s] = IF s \in DelayedSlots THEN Source(Behind(n)) ELSE f.slot[s]
        BY <1>3, <3>4, PutFrame
      <4>2. Raw(g)
        BY <1>2, <1>3, <4>1 DEF Raw, Slot, DelayedSlots
      <4>3. mic_delay > 0 \/ mic_delay < 0
        BY <1>7, BuildFacts
      <4>. QED BY <1>3, <4>1, <4>2, <4>3, BuildFacts DEF BeforeAec, Slot, DelayedSlots, Source
    <3>. QED BY <3>1, <3>6, <3>7
  <2>3. CASE ~ GivesFrame(Len(buf))
    <3>1. delay_buf' = buf /\ queue' = [queue EXCEPT !["aec"] = Append(@, f)]
      BY <1>1, <1>7, <2>3 DEF StageDelay, buf
    <3>2. q = captured /\ Behind(n) = n
      BY <1>7, <2>1, <2>3, NotYet
    <3>3. (q + 1) * FrameAdvance <= Abs(mic_delay)
      BY <1>2, <2>1, <2>3, BuildFacts DEF GivesFrame
    <3>4. BufferInv'
      <4>1. Len(delay_buf') = captured'
        BY <1>1, <2>1, <3>1, <3>2
      <4>2. Len(delay_buf') * FrameAdvance <= Abs(mic_delay)'
        BY <1>1, <2>1, <3>1, <3>3 DEF Abs
      <4>3. \A i \in 1 .. Len(delay_buf') :
                delay_buf'[i] = Source(captured' - Len(delay_buf') + i)
        BY <1>1, <2>1, <3>1
      <4>4. Len(delay_buf') <= captured'
        BY <1>1, <1>2, <4>1
      <4>. QED BY <1>1, <1>7, <4>1, <4>2, <4>3, <4>4 DEF BufferInv, Source
    <3>5. BeforeAec(f)
      BY <1>2, <1>3, <3>2 DEF BeforeAec, Raw, Slot
    <3>. QED BY <1>3, <3>1, <3>4, <3>5
  <2>. QED BY <2>2, <2>3
<1>. QED BY <1>6, <1>7

LEMMA StepBuffer == AudioPathTypeOK /\ BufferInv /\ [Next]_vars => BufferInv'
<1>. SUFFICES ASSUME AudioPathTypeOK, BufferInv, [Next]_vars PROVE BufferInv'
  OBVIOUS
<1>1. CASE DelayTask
  BY <1>1, DelayTaskKeeps
<1>2. CASE Stage1Task
  <2>1. /\ UNCHANGED <<pipeline, mic_delay, delay_buf>> /\ captured' = captured + 1
        /\ mic_delay = 0 /\ delay_buf = <<>>
    BY <1>2 DEF Stage1Task, buildVars, BufferInv
  <2>2. Len(delay_buf) = 0 /\ captured \in Nat
    BY <2>1 DEF AudioPathTypeOK
  <2>. QED BY <2>1, <2>2, BuildFacts DEF BufferInv, Abs
<1>3. ASSUME UNCHANGED <<buildVars, captured, delay_buf>> PROVE BufferInv'
  BY <1>3 DEF BufferInv, Abs, Source, buildVars
<1>4. CASE AecTask \/ IcTask \/ NsTask
  BY <1>3, <1>4 DEF AecTask, IcTask, NsTask, Pass
<1>5. CASE Output
  BY <1>3, <1>5 DEF Output, AgcTask, CopySample, Send
<1>6. CASE \E c \in Ch, value \in StageValues : WriteStage(c, value)
  BY <1>3, <1>6 DEF WriteStage
<1>7. CASE I2s
  BY <1>3, <1>7 DEF I2s
<1>8. CASE UNCHANGED vars
  BY <1>3, <1>8 DEF vars
<1>. QED BY <1>1, <1>2, <1>4, <1>5, <1>6, <1>7, <1>8 DEF Next

(* The stream buffer never refuses a frame, however the delay and the      *)
(* frame divide.                                                           *)
THEOREM BufferRoomSafe == Spec => []BufferHasRoom
<1>1. AudioPathTypeOK /\ BufferInv => BufferHasRoom
  <2>. SUFFICES ASSUME AudioPathTypeOK, BufferInv PROVE BufferHasRoom
    OBVIOUS
  <2>1. Len(delay_buf) \in Nat
    BY DEF AudioPathTypeOK
  <2>2. Len(delay_buf) * FrameAdvance <= Abs(mic_delay)
    BY DEF BufferInv
  <2>. QED BY <2>1, <2>2, BuildFacts DEF BufferHasRoom
<1>. QED BY <1>1, InitBuffer, StepBuffer, AudioPathTypeCorrect, PTL DEF Spec
-----------------------------------------------------------------------------
(* The queues.                                                             *)
LEMMA LinkStages ==
    ASSUME NEW f
    PROVE  /\ Before("aec", f) <=> BeforeAec(f)
           /\ Before("ic", f)  <=> BeforeIc(f)
           /\ Before("ns", f)  <=> BeforeNs(f)
           /\ Before("agc", f) <=> BeforeAgc(f)
BY DEF Before

LEMMA AppendBefore ==
    ASSUME NEW l, NEW s \in Seq(Frame), NEW g \in Frame, Before(l, g),
           \A i \in 1 .. Len(s) : Before(l, s[i])
    PROVE  \A i \in 1 .. Len(Append(s, g)) : Before(l, Append(s, g)[i])
<1>1. /\ Len(Append(s, g)) = Len(s) + 1 /\ Len(s) \in Nat
      /\ Append(s, g)[Len(s) + 1] = g
      /\ \A i \in 1 .. Len(s) : Append(s, g)[i] = s[i]
  OBVIOUS
<1>2. \A i \in 1 .. Len(Append(s, g)) : i \in 1 .. Len(s) \/ i = Len(s) + 1
  BY <1>1
<1>. QED BY <1>1, <1>2

LEMMA TailBefore ==
    ASSUME NEW l, NEW s \in Seq(Frame), s # <<>>,
           \A i \in 1 .. Len(s) : Before(l, s[i])
    PROVE  /\ Before(l, Head(s))
           /\ \A i \in 1 .. Len(Tail(s)) : Before(l, Tail(s)[i])
<1>1. Len(s) \in Nat \ {0} /\ Len(Tail(s)) = Len(s) - 1 /\ Head(s) = s[1]
  OBVIOUS
<1>2. \A i \in 1 .. Len(Tail(s)) : Tail(s)[i] = s[i + 1]
  OBVIOUS
<1>3. \A i \in 1 .. Len(Tail(s)) : i + 1 \in 1 .. Len(s)
  BY <1>1
<1>4. 1 \in 1 .. Len(s)
  BY <1>1
<1>. QED BY <1>1, <1>2, <1>3, <1>4

(* What a frame should hold depends on the build only.                     *)
LEMMA SameExpected ==
    ASSUME UNCHANGED buildVars
    PROVE  /\ pipeline' = pipeline /\ mic_delay' = mic_delay /\ Delivered' = Delivered
           /\ \A n : Behind(n)' = Behind(n)
           /\ \A n, stage : Expected(n, stage)' = Expected(n, stage)
<1>1. pipeline' = pipeline /\ mic_delay' = mic_delay
  BY DEF buildVars
<1>2. \A n : Behind(n)' = Behind(n)
  BY <1>1 DEF Behind, Lag, Abs
<1>. QED BY <1>1, <1>2 DEF Delivered, Expected

LEMMA Requeued ==
    ASSUME UNCHANGED buildVars,
           \A l \in Link : \A i \in 1 .. Len(queue'[l]) : Before(l, queue'[l][i])
    PROVE  QueueInv'
<1>. SUFFICES ASSUME NEW l \in Link, NEW i \in 1 .. Len(queue'[l])
              PROVE  Before(l, queue[l][i])'
  BY DEF QueueInv
<1>1. Before(l, queue'[l][i])
  OBVIOUS
<1>. QED BY <1>1, SameExpected DEF Before, BeforeAec, BeforeIc, BeforeNs, BeforeAgc, Raw

(* A frame comes into a queue from outside.                                *)
LEMMA Enqueued ==
    ASSUME AudioPathTypeOK, QueueInv, UNCHANGED buildVars,
           NEW to \in Link, NEW g \in Frame, Before(to, g),
           queue' = [queue EXCEPT ![to] = Append(@, g)]
    PROVE  QueueInv'
<1>1. ASSUME NEW l \in Link
      PROVE  \A i \in 1 .. Len(queue'[l]) : Before(l, queue'[l][i])
  <2>1. queue[l] \in Seq(Frame) /\ \A i \in 1 .. Len(queue[l]) : Before(l, queue[l][i])
    BY DEF AudioPathTypeOK, QueueInv
  <2>2. queue'[l] = IF l = to THEN Append(queue[l], g) ELSE queue[l]
    BY DEF AudioPathTypeOK
  <2>3. CASE l = to
    BY <2>1, <2>2, <2>3, AppendBefore
  <2>4. CASE l # to
    BY <2>1, <2>2, <2>4
  <2>. QED BY <2>3, <2>4
<1>. QED BY <1>1, Requeued

(* A stage passes a frame on.                                              *)
LEMMA Passed ==
    ASSUME AudioPathTypeOK, QueueInv, NEW from \in Link, NEW to \in Link, from # to,
           queue[from] # <<>>, NEW g \in Frame, Pass(from, to, g),
           Before(from, Head(queue[from])) => Before(to, g)
    PROVE  QueueInv'
<1>1. ASSUME NEW l \in Link
      PROVE  \A i \in 1 .. Len(queue'[l]) : Before(l, queue'[l][i])
  <2>1. /\ queue[l] \in Seq(Frame) /\ queue[from] \in Seq(Frame)
        /\ \A i \in 1 .. Len(queue[l]) : Before(l, queue[l][i])
        /\ \A i \in 1 .. Len(queue[from]) : Before(from, queue[from][i])
    BY DEF AudioPathTypeOK, QueueInv
  <2>2. queue'[l] = IF l = to THEN Append(queue[l], g)
                    ELSE IF l = from THEN Tail(queue[l]) ELSE queue[l]
    BY DEF Pass, AudioPathTypeOK
  <2>3. CASE l = to
    <3>1. Before(to, g)
      BY <2>1, TailBefore
    <3>. QED BY <2>1, <2>2, <2>3, <3>1, AppendBefore
  <2>4. CASE l = from
    <3>1. queue'[l] = Tail(queue[l])
      BY <2>2, <2>4
    <3>. QED BY <2>1, <2>4, <3>1, TailBefore
  <2>5. CASE l # to /\ l # from
    BY <2>1, <2>2, <2>5
  <2>. QED BY <2>3, <2>4, <2>5
<1>2. UNCHANGED buildVars
  BY DEF Pass
<1>. QED BY <1>1, <1>2, Requeued

LEMMA StepQueue ==
    AudioPathTypeOK /\ BufferInv /\ QueueInv /\ [Next]_vars => QueueInv'
<1>. SUFFICES ASSUME AudioPathTypeOK, BufferInv, QueueInv, [Next]_vars PROVE QueueInv'
  OBVIOUS
<1>1. \A l \in Link : queue[l] # <<>> => Head(queue[l]) \in Frame
  BY DEF AudioPathTypeOK
<1>2. "aec" \in Link /\ "ic" \in Link /\ "ns" \in Link /\ "agc" \in Link
  BY DEF Link
<1>3. CASE DelayTask
  <2>1. PICK g \in Frame : BeforeAec(g) /\ queue' = [queue EXCEPT !["aec"] = Append(@, g)]
    BY <1>3, DelayTaskKeeps
  <2>2. UNCHANGED buildVars
    BY <1>3 DEF DelayTask
  <2>. QED BY <1>2, <2>1, <2>2, LinkStages, Enqueued
<1>4. CASE Stage1Task
  <2>. DEFINE n == captured + 1
  <2>1. n \in Nat /\ n # 0 /\ mic_delay = 0
    BY <1>4 DEF Stage1Task, AudioPathTypeOK, BufferInv
  <2>2. /\ Captured(n) \in Frame /\ Captured(n).n = n
        /\ \A s \in Slot : Captured(n).slot[s] = IF s \in {2, 3} THEN Ref(n) ELSE Mic(n)
    BY <2>1, CapturedFrame
  <2>3. BeforeAec(Captured(n))
    BY <2>1, <2>2 DEF BeforeAec, Raw, Slot
  <2>4. StageAec(Captured(n)) \in Frame /\ BeforeIc(StageAec(Captured(n)))
    BY <2>2, <2>3, AecMakes, StageFrames
  <2>5. /\ UNCHANGED buildVars
        /\ queue' = [queue EXCEPT !["ic"] = Append(@, StageAec(Captured(n)))]
    BY <1>4 DEF Stage1Task
  <2>. QED BY <1>2, <2>4, <2>5, LinkStages, Enqueued
<1>5. CASE AecTask
  <2>1. /\ queue["aec"] # <<>> /\ Head(queue["aec"]) \in Frame
        /\ Pass("aec", "ic", StageAec(Head(queue["aec"])))
    BY <1>1, <1>2, <1>5 DEF AecTask
  <2>2. /\ StageAec(Head(queue["aec"])) \in Frame
        /\ Before("aec", Head(queue["aec"])) => Before("ic", StageAec(Head(queue["aec"])))
    BY <2>1, StageFrames, AecMakes, LinkStages
  <2>. QED BY <1>2, <2>1, <2>2, Passed
<1>6. CASE IcTask
  <2>1. /\ queue["ic"] # <<>> /\ Head(queue["ic"]) \in Frame
        /\ Pass("ic", "ns", StageIc(Head(queue["ic"])))
    BY <1>1, <1>2, <1>6 DEF IcTask
  <2>2. /\ StageIc(Head(queue["ic"])) \in Frame
        /\ Before("ic", Head(queue["ic"])) => Before("ns", StageIc(Head(queue["ic"])))
    BY <2>1, StageFrames, IcMakes, LinkStages
  <2>. QED BY <1>2, <2>1, <2>2, Passed
<1>7. CASE NsTask
  <2>1. /\ queue["ns"] # <<>> /\ Head(queue["ns"]) \in Frame
        /\ Pass("ns", "agc", StageNs(Head(queue["ns"])))
    BY <1>1, <1>2, <1>7 DEF NsTask
  <2>2. /\ StageNs(Head(queue["ns"])) \in Frame
        /\ Before("ns", Head(queue["ns"])) => Before("agc", StageNs(Head(queue["ns"])))
    BY <2>1, StageFrames, NsMakes, LinkStages
  <2>. QED BY <1>2, <2>1, <2>2, Passed
<1>8. CASE AgcTask
  <2>1. UNCHANGED buildVars /\ queue["agc"] # <<>> /\ queue' = [queue EXCEPT !["agc"] = Tail(@)]
    BY <1>8 DEF AgcTask
  <2>2. ASSUME NEW l \in Link
        PROVE  \A i \in 1 .. Len(queue'[l]) : Before(l, queue'[l][i])
    <3>1. queue[l] \in Seq(Frame) /\ \A i \in 1 .. Len(queue[l]) : Before(l, queue[l][i])
      BY DEF AudioPathTypeOK, QueueInv
    <3>2. queue'[l] = IF l = "agc" THEN Tail(queue[l]) ELSE queue[l]
      BY <2>1 DEF AudioPathTypeOK
    <3>. QED BY <2>1, <3>1, <3>2, TailBefore
  <2>. QED BY <2>1, <2>2, Requeued
<1>9. ASSUME UNCHANGED <<buildVars, queue>> PROVE QueueInv'
  BY <1>9, Requeued DEF QueueInv
<1>10. CASE CopySample \/ Send \/ I2s
  BY <1>9, <1>10 DEF CopySample, Send, I2s
<1>11. CASE \E c \in Ch, value \in StageValues : WriteStage(c, value)
  BY <1>9, <1>11 DEF WriteStage
<1>12. CASE UNCHANGED vars
  BY <1>9, <1>12 DEF vars
<1>. QED BY <1>3, <1>4, <1>5, <1>6, <1>7, <1>8, <1>10, <1>11, <1>12 DEF Next, Output
-----------------------------------------------------------------------------
(* The output: sample p goes to channel p % 2, at p \div 2.                *)
LEMMA Places ==
    /\ \A p \in 0 .. 2 * FrameCount - 1 :
           (p % 2) \in Ch /\ (p \div 2) \in 0 .. FrameCount - 1
    /\ \A p, r \in Nat : (p % 2) = (r % 2) /\ (p \div 2) = (r \div 2) => p = r
<1>1. \A p \in 0 .. 2 * FrameCount - 1 :
          (p % 2) \in Ch /\ (p \div 2) \in 0 .. FrameCount - 1
  BY AudioPathAssumption DEF Ch
<1>2. \A p, r \in Nat : (p % 2) = (r % 2) /\ (p \div 2) = (r \div 2) => p = r
  OBVIOUS
<1>. QED BY <1>1, <1>2

(* A frame that went through all stages has each where it is looked for.   *)
LEMMA ProcessedSlot ==
    ASSUME NEW f, Processed(f), NEW c \in Ch, NEW stage \in PipelineStage \cap Delivered
    PROVE  f.slot[SourceSlot(c, stage)] = Expected(f.n, stage)
<1>1. CASE stage = PIPELINE_STAGE_NONE
  <2>1. SourceSlot(c, stage) = 4 + c
    BY <1>1 DEF SourceSlot, PIPELINE_STAGE_NONE, PIPELINE_STAGE_AEC, PIPELINE_STAGE_IC,
                PIPELINE_STAGE_NS, PIPELINE_STAGE_AGC
  <2>2. f.slot[4 + c] = Mic(f.n)
    BY DEF Processed, Raw, Ch
  <2>. QED BY <1>1, <2>1, <2>2 DEF Expected
<1>2. CASE stage = PIPELINE_STAGE_AEC
  <2>1. SourceSlot(c, stage) = 1
    BY <1>2 DEF SourceSlot, PIPELINE_STAGE_NONE, PIPELINE_STAGE_AEC, PIPELINE_STAGE_IC,
                PIPELINE_STAGE_NS, PIPELINE_STAGE_AGC
  <2>. QED BY <1>2, <2>1 DEF Processed
<1>3. CASE stage = PIPELINE_STAGE_IC
  <2>1. SourceSlot(c, stage) = 2
    BY <1>3 DEF SourceSlot, PIPELINE_STAGE_NONE, PIPELINE_STAGE_AEC, PIPELINE_STAGE_IC,
                PIPELINE_STAGE_NS, PIPELINE_STAGE_AGC
  <2>2. pipeline = "fixed_delay"
    BY <1>3 DEF Delivered
  <2>. QED BY <1>3, <2>1, <2>2 DEF Processed
<1>4. CASE stage = PIPELINE_STAGE_NS
  <2>1. SourceSlot(c, stage) = 3
    BY <1>4 DEF SourceSlot, PIPELINE_STAGE_NONE, PIPELINE_STAGE_AEC, PIPELINE_STAGE_IC,
                PIPELINE_STAGE_NS, PIPELINE_STAGE_AGC
  <2>2. pipeline = "fixed_delay"
    BY <1>4 DEF Delivered
  <2>. QED BY <1>4, <2>1, <2>2 DEF Processed
<1>5. CASE stage = PIPELINE_STAGE_AGC
  <2>1. SourceSlot(c, stage) = 0
    BY <1>5 DEF SourceSlot, PIPELINE_STAGE_NONE, PIPELINE_STAGE_AEC, PIPELINE_STAGE_IC,
                PIPELINE_STAGE_NS, PIPELINE_STAGE_AGC
  <2>. QED BY <1>5, <2>1 DEF Processed
<1>. QED BY <1>1, <1>2, <1>3, <1>4, <1>5 DEF PipelineStage, PIPELINE_STAGE_NONE,
            PIPELINE_STAGE_AEC, PIPELINE_STAGE_IC, PIPELINE_STAGE_NS, PIPELINE_STAGE_AGC

SentInv == AudioPathTypeOK /\ OutputInv /\ StageAsConfigured

LEMMA TakeFrame ==
    ASSUME SentInv, QueueInv, AgcTask PROVE (OutputInv /\ StageAsConfigured)'
<1>1. /\ queue["agc"] \in Seq(Frame) /\ queue["agc"] # <<>>
      /\ \A i \in 1 .. Len(queue["agc"]) : Before("agc", queue["agc"][i])
  BY DEF SentInv, AudioPathTypeOK, QueueInv, AgcTask, Link
<1>2. Head(queue["agc"]) \in Frame /\ BeforeAgc(Head(queue["agc"]))
  BY <1>1, TailBefore, LinkStages
<1>3. Processed(current') /\ pos' = 0 /\ UNCHANGED buildVars
  BY <1>2, AgcMakes DEF AgcTask
<1>4. Processed(current)'
  BY <1>3 DEF buildVars, Processed, Raw, Expected, Behind, Lag, Abs
<1>5. \A c \in Ch : channel_stage'[c] \in held'[c]
  BY DEF AgcTask
<1>6. ASSUME NEW p \in 0 .. 2 * FrameCount - 1 PROVE tmp'[p % 2][p \div 2] = Garbage
  <2>1. (p % 2) \in Ch /\ (p \div 2) \in 0 .. FrameCount - 1
    BY Places
  <2>. QED BY <2>1 DEF AgcTask, Uninitialised
<1>7. OutputInv'
  BY <1>3, <1>4, <1>5, <1>6 DEF OutputInv, SampleOf
<1>8. StageAsConfigured'
  BY <1>3 DEF StageAsConfigured
<1>. QED BY <1>7, <1>8

LEMMA CopyOne ==
    ASSUME SentInv, CopySample PROVE (OutputInv /\ StageAsConfigured)'
<1>. DEFINE c     == pos % 2
            stage == channel_stage[c]
            j     == pos \div 2
<1>1. /\ current # NoFrame /\ pos' = pos + 1
      /\ UNCHANGED <<pipeline, mic_delay, channel_stage, current, held>>
      /\ tmp' = IF stage \in PipelineStage
                THEN [tmp EXCEPT ![c][j] = current.slot[SourceSlot(c, stage)]]
                ELSE tmp
  BY DEF CopySample, buildVars
<1>2. pos \in 0 .. 2 * FrameCount - 1
  BY AudioPathAssumption DEF CopySample, MoreToCopy, SentInv, AudioPathTypeOK
<1>3. c \in Ch /\ j \in 0 .. FrameCount - 1
  BY <1>2, Places
<1>4. tmp \in [Ch -> [0 .. FrameCount - 1 -> Audio \cup {Garbage}]] /\ stage \in AnyStage
  BY <1>3 DEF SentInv, AudioPathTypeOK
<1>5. /\ Processed(current) /\ stage \in held[c] /\ SampleOf(pos) = Garbage
      /\ \A p \in pos .. 2 * FrameCount - 1 : SampleOf(p) = Garbage
  BY <1>1, <1>2, <1>3 DEF SentInv, OutputInv
<1>6. \A p \in 0 .. 2 * FrameCount - 1 : p # pos => tmp'[p % 2][p \div 2] = SampleOf(p)
  <2>1. SUFFICES ASSUME NEW p \in 0 .. 2 * FrameCount - 1, p # pos
                 PROVE  tmp'[p % 2][p \div 2] = SampleOf(p)
    OBVIOUS
  <2>2. (p % 2) \in Ch /\ (p \div 2) \in 0 .. FrameCount - 1
    BY Places
  <2>3. (p % 2) # c \/ (p \div 2) # j
    BY <1>2, <2>1, Places
  <2>. HIDE DEF c, j
  <2>. QED BY <1>1, <1>3, <1>4, <2>2, <2>3 DEF SampleOf
<1>7. held[c] \subseteq Delivered => tmp'[c][j] = Expected(current.n, stage)
  <2>1. CASE stage \in PipelineStage
    <3>. HIDE DEF c, j
    <3>1. tmp'[c][j] = current.slot[SourceSlot(c, stage)]
      BY <1>1, <1>3, <1>4, <2>1
    <3>. QED BY <1>3, <1>5, <2>1, <3>1, ProcessedSlot
  <2>2. CASE stage \notin PipelineStage
    <3>1. tmp'[c][j] = Garbage
      BY <1>1, <1>5, <2>2 DEF SampleOf
    <3>2. Expected(current.n, stage) = Garbage
      BY <2>2, Stages DEF Expected
    <3>. QED BY <3>1, <3>2
  <2>. QED BY <2>1, <2>2
<1>8. UNCHANGED buildVars
  BY <1>1 DEF buildVars
<1>9. OutputInv'
  <2>1. Processed(current)'
    BY <1>1, <1>5, <1>8 DEF buildVars, Processed, Raw, Expected, Behind, Lag, Abs
  <2>2. \A p \in pos' .. 2 * FrameCount - 1 : tmp'[p % 2][p \div 2] = Garbage
    BY <1>1, <1>2, <1>5, <1>6
  <2>3. \A d \in Ch : channel_stage'[d] \in held'[d]
    BY <1>1 DEF SentInv, OutputInv
  <2>. QED BY <2>1, <2>2, <2>3 DEF OutputInv, SampleOf
<1>10. StageAsConfigured'
  <2>. SUFFICES ASSUME NEW p \in 0 .. pos' - 1, held'[p % 2] \subseteq Delivered'
                PROVE  \E s \in held'[p % 2] : tmp'[p % 2][p \div 2] = Expected(current.n, s)'
    BY DEF StageAsConfigured, CopiedAs, SampleOf
  <2>1. held[p % 2] \subseteq Delivered
    BY <1>1, <1>8, SameExpected
  <2>2. \A s : Expected(current.n, s)' = Expected(current.n, s)
    BY <1>1 DEF Expected, Behind, Lag, Abs
  <2>3. CASE p = pos
    BY <1>1, <1>5, <1>7, <2>1, <2>2, <2>3
  <2>4. CASE p # pos
    <3>1. p \in 0 .. pos - 1 /\ p \in 0 .. 2 * FrameCount - 1
      <4>1. pos' = pos + 1 /\ pos \in Nat /\ pos <= 2 * FrameCount - 1 /\ FrameCount \in Nat
        BY <1>1, <1>2, AudioPathAssumption
      <4>2. p \in Int /\ 0 <= p /\ p <= pos
        BY <4>1
      <4>. QED BY <2>4, <4>1, <4>2
    <3>2. \E s \in held[p % 2] : SampleOf(p) = Expected(current.n, s)
      BY <1>1, <2>1, <3>1 DEF SentInv, StageAsConfigured, CopiedAs
    <3>3. tmp'[p % 2][p \div 2] = SampleOf(p)
      BY <1>6, <2>4, <3>1
    <3>. QED BY <1>1, <2>2, <3>2, <3>3
  <2>. QED BY <2>3, <2>4
<1>. QED BY <1>9, <1>10

(* A stage written while a frame goes out only adds to what is held.       *)
LEMMA StageWritten ==
    ASSUME SentInv, NEW c \in Ch, NEW value \in StageValues, WriteStage(c, value)
    PROVE  (OutputInv /\ StageAsConfigured)'
<1>1. UNCHANGED <<pipeline, mic_delay, current, pos, tmp>> /\ UNCHANGED buildVars
  BY DEF WriteStage, buildVars
<1>. SUFFICES ASSUME current # NoFrame PROVE (OutputInv /\ StageAsConfigured)'
  BY <1>1 DEF OutputInv, StageAsConfigured, NoFrame, Captured, Mic, Ref
<1>2. /\ channel_stage' = [channel_stage EXCEPT ![c] = value]
      /\ held' = [held EXCEPT ![c] = @ \cup {value}]
  BY DEF WriteStage
<1>3. /\ channel_stage \in [Ch -> AnyStage] /\ held \in [Ch -> SUBSET AnyStage]
      /\ \A d \in Ch : channel_stage[d] \in held[d]
      /\ Processed(current)
      /\ \A p \in pos .. 2 * FrameCount - 1 : SampleOf(p) = Garbage
  BY DEF SentInv, OutputInv, AudioPathTypeOK
<1>4. OutputInv'
  <2>1. Processed(current)'
    BY <1>1, <1>3 DEF buildVars, Processed, Raw, Expected, Behind, Lag, Abs
  <2>2. \A d \in Ch : channel_stage'[d] \in held'[d]
    BY <1>2, <1>3
  <2>. QED BY <1>1, <1>3, <2>1, <2>2 DEF OutputInv, SampleOf
<1>5. StageAsConfigured'
  <2>. SUFFICES ASSUME NEW p \in 0 .. pos - 1, held'[p % 2] \subseteq Delivered'
                PROVE  \E s \in held'[p % 2] : SampleOf(p) = Expected(current.n, s)'
    BY <1>1 DEF StageAsConfigured, CopiedAs, SampleOf
  <2>1. \A s : Expected(current.n, s)' = Expected(current.n, s)
    BY <1>1 DEF Expected, Behind, Lag, Abs
  <2>2. (p % 2) \in Ch
    <3>1. p \in 0 .. 2 * FrameCount - 1
      BY AudioPathAssumption DEF SentInv, AudioPathTypeOK
    <3>. QED BY <3>1, Places
  <2>3. held[p % 2] \subseteq held'[p % 2]
    BY <1>2, <1>3, <2>2
  <2>4. held[p % 2] \subseteq Delivered
    BY <1>1, <2>3, SameExpected
  <2>5. \E s \in held[p % 2] : SampleOf(p) = Expected(current.n, s)
    BY <2>4 DEF SentInv, StageAsConfigured, CopiedAs
  <2>. QED BY <2>1, <2>3, <2>5
<1>. QED BY <1>4, <1>5

LEMMA InitPath == Init => PathInv /\ StageAsConfigured
<1>. SUFFICES ASSUME Init PROVE PathInv /\ StageAsConfigured
  OBVIOUS
<1>1. current = NoFrame /\ \A l \in Link : queue[l] = <<>>
  BY DEF Init
<1>2. \A l \in Link : Len(queue[l]) = 0
  BY <1>1
<1>. QED BY <1>1, <1>2, InitBuffer DEF PathInv, QueueInv, OutputInv, StageAsConfigured

LEMMA StepOutput ==
    SentInv /\ QueueInv /\ [Next]_vars => (OutputInv /\ StageAsConfigured)'
<1>. SUFFICES ASSUME SentInv, QueueInv, [Next]_vars PROVE (OutputInv /\ StageAsConfigured)'
  OBVIOUS
<1>1. ASSUME UNCHANGED <<buildVars, channel_stage, outVars>>
      PROVE  (OutputInv /\ StageAsConfigured)'
  <2>1. /\ current' = current /\ pos' = pos /\ tmp' = tmp /\ held' = held
        /\ channel_stage' = channel_stage
    BY <1>1 DEF outVars
  <2>2. OutputInv'
    BY <1>1, <2>1, SameExpected DEF SentInv, OutputInv, Processed, Raw, SampleOf
  <2>3. StageAsConfigured'
    BY <1>1, <2>1, SameExpected DEF SentInv, StageAsConfigured, CopiedAs, SampleOf
  <2>. QED BY <2>2, <2>3
<1>2. CASE DelayTask \/ Stage1Task \/ I2s
  BY <1>1, <1>2 DEF DelayTask, Stage1Task, I2s
<1>3. CASE AecTask \/ IcTask \/ NsTask
  BY <1>1, <1>3 DEF AecTask, IcTask, NsTask, Pass
<1>4. CASE AgcTask
  BY <1>4, TakeFrame
<1>5. CASE CopySample
  BY <1>5, CopyOne
<1>6. CASE Send
  BY <1>6 DEF Send, OutputInv, StageAsConfigured, NoFrame, Captured, Mic, Ref
<1>7. CASE \E c \in Ch, value \in StageValues : WriteStage(c, value)
  BY <1>7, StageWritten
<1>8. CASE UNCHANGED vars
  BY <1>1, <1>8 DEF vars
<1>. QED BY <1>2, <1>3, <1>4, <1>5, <1>6, <1>7, <1>8 DEF Next, Output

(* Every channel sends the audio of its stage, with any delay, any frame   *)
(* size, any depth of the queues and any values that hosts write.          *)
THEOREM StageAsConfiguredSafe == Spec => []StageAsConfigured
<1>. DEFINE Inv == AudioPathTypeOK /\ PathInv /\ StageAsConfigured
<1>1. Init => Inv
  BY InitType, InitPath
<1>2. Inv /\ [Next]_vars => Inv'
  BY StepType, StepBuffer, StepQueue, StepOutput DEF PathInv, SentInv
<1>. QED BY <1>1, <1>2, PTL DEF Spec
=============================================================================
