---------------------------- MODULE Stage1Props -----------------------------
(***************************************************************************)
(* What makes stage 1 correct: the signals the echo canceller gets are     *)
(* apart by the delay in force and nothing else, and the decision of one   *)
(* tile and its effect on the other agree on every frame.                  *)
(***************************************************************************)
EXTENDS Stage1

(* Every variable has its type.                                            *)
Stage1TypeOK ==
    /\ delay_buffer \in [Channel -> [Index -> Sample]]
    /\ curr_idx \in [Channel -> Index]
    /\ delay_samples \in Delays \cup {0}
    /\ y \in [Channel -> Sample] /\ x \in [Channel -> Sample]
    /\ now \in Clock /\ since \in 0 .. MaxDelay
    /\ alt_arch \in BOOLEAN /\ taken \in 0 .. FrameAdvance
    /\ num_y_channels \in {1, YChannels}
    /\ bypass \in BOOLEAN /\ hold_aec_count \in 0 .. HoldLimit + 1
    /\ delay_estimator_enabled \in BOOLEAN /\ force_de_cycle_trigger \in BOOLEAN
    /\ link \in Seq(Frame) /\ Len(link) <= LinkLength
    /\ ic_bypass \in BOOLEAN /\ out \in Frame
    /\ absent \in 0 .. HoldLimit + 1 /\ cycles \in 0 .. 2

(* The time n samples before t.                                            *)
Ago(t, n) == IF t >= n THEN t - n ELSE t - n + Period

(* The AEC gets on every channel the delayed signal exactly as many        *)
(* samples old as the delay in force says and the other one as it came in, *)
(* from the first sample after a change: until the delayed signal has      *)
(* filled the delay it is silence, never a sample stored before the        *)
(* change, of the same signal or of the other.                             *)
DelayedExactly ==
    since > 0 =>
        \A ch \in Channel :
            LET d     == Abs(delay_samples)
                Old(s) == IF since > d THEN [signal |-> s, at |-> Ago(now, d)] ELSE Zero
            IN  IF delay_samples >= 0
                THEN y[ch] = Old("mic") /\ x[ch] = Ref(now)
                ELSE x[ch] = Old("ref") /\ y[ch] = Mic(now)

(* Every channel that leaves stage 1 has been written, also in the frames  *)
(* before and after the switch to the one channel of the DE and back.      *)
OutputDefined ==
    \A i \in 1 .. Len(link) : \A ch \in Channel : link[i].samples[ch] # "junk"

(* Exactly one canceller works on a frame ("when AEC is enabled, IC is     *)
(* disabled and vice versa"), although the two are decided on different    *)
(* tiles and the AEC is initialised anew between frames.  The IC is only   *)
(* ever given both microphones, never a copied AEC output, and a frame     *)
(* with reference goes on cancelled unless the delay is being estimated.   *)
OneCanceller ==
    alt_arch =>
        /\ out.cancelled = ic_bypass
        /\ ~ ic_bypass => out.samples = Filled("mic")
        /\ out.present /\ ~ out.estimating => out.samples = Filled("aec")

(* The AEC is bypassed only when the reference has been absent for longer  *)
(* than the hold ("bypass AEC only when reference has been absent for      *)
(* atleast 3 seconds"), across configuration switches and interruptions.   *)
HoldRespected == bypass => absent > HoldLimit

(* "Force a delay correction cycle, so that delay correction happens once  *)
(* after initialisation": there is no second cycle, and after the first    *)
(* the delay stays as it is for good.                                      *)
DelayCorrectedOnce ==
    [][/\ cycles' <= 1
       /\ cycles = 1 /\ ~ delay_estimator_enabled => delay_samples' = delay_samples]_vars

(* When the reference stays away for good, the IC takes over for good, in  *)
(* whatever frames the delay estimation starts and ends, or if it never    *)
(* does: also when it starts with the AEC bypassed already.                *)
IcTakesOver == <>[](absent > 0) => <>[](~ ic_bypass)
=============================================================================
