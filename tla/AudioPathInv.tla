---------------------------- MODULE AudioPathInv ----------------------------
(***************************************************************************)
(* The inductive strengthening of StageAsConfigured: what the delay buffer *)
(* and every waiting frame hold.                                           *)
(***************************************************************************)
EXTENDS AudioPathProps

(* The delayed audio of frame n.                                           *)
Source(n) == IF mic_delay > 0 THEN Mic(n) ELSE Ref(n)

(* The buffer holds the last frames captured, and as many as fit the delay *)
(* once that many have come in.                                            *)
BufferInv ==
    /\ pipeline # "fixed_delay" => mic_delay = 0
    /\ mic_delay = 0 => delay_buf = <<>>
    /\ Len(delay_buf) <= captured
    /\ Len(delay_buf) * FrameAdvance <= Abs(mic_delay)
    /\ mic_delay # 0 =>
          \/ Len(delay_buf) = captured
          \/ (Len(delay_buf) + 1) * FrameAdvance > Abs(mic_delay)
    /\ \A i \in 1 .. Len(delay_buf) :
          delay_buf[i] = Source(captured - Len(delay_buf) + i)

(* A frame whose channels are the microphones and the reference as far     *)
(* apart as they should be, except where a stage has been.                 *)
Raw(f) == f.n # 0 /\ f.slot[4] = Mic(f.n) /\ f.slot[5] = Mic(f.n)

BeforeAec(f) ==
    /\ Raw(f)
    /\ \A s \in {0, 1} : f.slot[s] = Mic(IF mic_delay > 0 THEN Behind(f.n) ELSE f.n)
    /\ \A s \in {2, 3} : f.slot[s] = Ref(IF mic_delay < 0 THEN Behind(f.n) ELSE f.n)

BeforeIc(f) ==
    Raw(f) /\ \A s \in {0, 1} : f.slot[s] = Expected(f.n, PIPELINE_STAGE_AEC)

BeforeNs(f) ==
    /\ Raw(f)
    /\ f.slot[0] = Expected(f.n, PIPELINE_STAGE_IC)
    /\ f.slot[1] = Expected(f.n, PIPELINE_STAGE_AEC)
    /\ pipeline = "fixed_delay" => f.slot[2] = Expected(f.n, PIPELINE_STAGE_IC)

BeforeAgc(f) ==
    /\ Raw(f)
    /\ f.slot[0] = Expected(f.n, PIPELINE_STAGE_NS)
    /\ f.slot[1] = Expected(f.n, PIPELINE_STAGE_AEC)
    /\ pipeline = "fixed_delay" =>
          /\ f.slot[2] = Expected(f.n, PIPELINE_STAGE_IC)
          /\ f.slot[3] = Expected(f.n, PIPELINE_STAGE_NS)

Processed(f) ==
    /\ Raw(f)
    /\ f.slot[0] = Expected(f.n, PIPELINE_STAGE_AGC)
    /\ f.slot[1] = Expected(f.n, PIPELINE_STAGE_AEC)
    /\ pipeline = "fixed_delay" =>
          /\ f.slot[2] = Expected(f.n, PIPELINE_STAGE_IC)
          /\ f.slot[3] = Expected(f.n, PIPELINE_STAGE_NS)

Before(l, f) ==
    /\ l = "aec" => BeforeAec(f)
    /\ l = "ic"  => BeforeIc(f)
    /\ l = "ns"  => BeforeNs(f)
    /\ l = "agc" => BeforeAgc(f)

QueueInv == \A l \in Link : \A i \in 1 .. Len(queue[l]) : Before(l, queue[l][i])

(* The samples not copied yet are still uninitialised.                     *)
OutputInv ==
    current # NoFrame =>
        /\ Processed(current)
        /\ \A c \in Ch : channel_stage[c] \in held[c]
        /\ \A p \in pos .. 2 * FrameCount - 1 : SampleOf(p) = Garbage

PathInv == BufferInv /\ QueueInv /\ OutputInv
=============================================================================
