------------------------------- MODULE Stage1 -------------------------------
(***************************************************************************)
(* Stage 1 of the two adec pipelines, and the stage of tile 0 that obeys   *)
(* the flag its frames carry.  Tile 1 delays one of the signals, runs the  *)
(* echo canceller (AEC), and goes through one delay-estimation (DE) cycle  *)
(* after start-up, which initialises the AEC anew on the way in and on the *)
(* way out.  In the alternating architecture stage 1 also decides, frame   *)
(* by frame, whether the AEC is bypassed, and the interference canceller   *)
(* (IC) of tile 0 takes its place when it is.                              *)
(***************************************************************************)
EXTENDS DelayBuffer, Sequences

CONSTANTS HoldLimit,     \* hold_aec_limit, in frames
          FrameAdvance,  \* samples of a frame
          LinkLength     \* frames under way between the tiles

ASSUME Stage1Assumption ==
    /\ HoldLimit \in Nat /\ FrameAdvance \in Nat \ {0} /\ LinkLength \in Nat \ {0}
    /\ YChannels > 1

VARIABLES
    alt_arch,                 \* which of the two pipelines was built
    taken,                    \* samples of the frame that are through the ring
    num_y_channels,           \* of the AEC
    bypass,                   \* aec_core_conf.bypass, of the AEC
    hold_aec_count,
    delay_estimator_enabled,
    force_de_cycle_trigger,   \* of adec_state.adec_config
    link,                     \* frames sent and not yet taken by tile 0
    ic_bypass,                \* ic_stage_state.state.config_params.bypass
    out,                      \* the frame that the IC stage handled last
    absent,                   \* history: frames without reference in a row
    cycles                    \* history: estimations begun, two meaning many

aecVars    == <<num_y_channels, bypass, hold_aec_count,
                delay_estimator_enabled, force_de_cycle_trigger>>
tile0Vars  == <<ic_bypass, out>>
vars       == <<delayVars, alt_arch, taken, aecVars, link, tile0Vars, absent, cycles>>

(* What an output channel holds: the output of the AEC, a microphone, or   *)
(* what was on the stack.                                                  *)
Content == {"aec", "mic", "junk"}

(* A frame: its sample channels, the flag it carries, and for the          *)
(* properties whether the reference was active, the AEC ran and the DE     *)
(* was on.                                                                 *)
Frame == [samples : [Channel -> Content], ref_active_flag : BOOLEAN,
          present : BOOLEAN, cancelled : BOOLEAN, estimating : BOOLEAN]

Filled(content) == [ch \in Channel |-> content]

Silence == [samples |-> Filled("mic"), ref_active_flag |-> FALSE,
            present |-> FALSE, cancelled |-> FALSE, estimating |-> FALSE]

(* initialize_pipeline_stages: the channels of the AEC in normal operation *)
(* and while estimating; one DE cycle is forced at start-up.               *)
NormalChannels == IF alt_arch THEN 1 ELSE YChannels
DeChannels     == 1
ForcedCycle    == TRUE

(* stage_1_init with that configuration.                                   *)
Init ==
    /\ alt_arch \in BOOLEAN
    /\ DelayInit /\ taken = 0
    /\ num_y_channels = NormalChannels
    /\ bypass = FALSE /\ hold_aec_count = 0
    /\ delay_estimator_enabled = FALSE
    /\ force_de_cycle_trigger = ForcedCycle
    /\ link = <<>> /\ ic_bypass = FALSE /\ out = Silence
    /\ absent = 0 /\ cycles = 0
-----------------------------------------------------------------------------
(* Stage 1 of one frame.                                                   *)
TakeSample ==
    /\ taken < FrameAdvance
    /\ taken' = taken + 1
    /\ GetDelayedSamples
    /\ UNCHANGED <<alt_arch, aecVars, link, tile0Vars, absent, cycles>>

(* The AEC stays on while the reference is absent and the hold not over.   *)
Holding == ~ bypass /\ hold_aec_count <= HoldLimit

(* The values alt_arch_controller leaves.  (Mutants: a count that is not   *)
(* reset, not advanced, or advanced for ever; the raw flag passed on.)     *)
NextBypass(present) == alt_arch /\ ~ present /\ ~ Holding
NextCountKept(present) ==
    IF alt_arch /\ ~ present /\ Holding THEN hold_aec_count + 1 ELSE hold_aec_count
NextCountStuck(present)   == IF present THEN 0 ELSE hold_aec_count
NextCountEndless(present) == IF present THEN 0 ELSE hold_aec_count + 1
NextCount(present)  ==
    IF ~ alt_arch THEN hold_aec_count
    ELSE IF present THEN 0
    ELSE IF Holding THEN hold_aec_count + 1 ELSE hold_aec_count
NextFlagRaw(present) == present
NextFlag(present)   == present \/ (alt_arch /\ Holding)

(* Without the controller two channels may be processed, and the           *)
(* correlation factor of the second, two words, is stored behind the only  *)
(* one the frame has: its first word on the flag, the last field of the    *)
(* frame, and its second past the end of the frame.  What lies there is    *)
(* not modelled.                                                           *)
FlagsLeft(present) ==
    IF num_y_channels > 1 THEN BOOLEAN ELSE {NextFlag(present)}

(* What the AEC writes, of the channels it is configured for.              *)
Processed == [ch \in Channel |-> IF ch < num_y_channels THEN "aec" ELSE "junk"]

(* alt_arch_rewrite_output.                                                *)
Rewritten(bypassed) ==
    IF ~ alt_arch \/ num_y_channels = YChannels THEN Processed
    ELSE Filled(IF bypassed THEN "mic" ELSE "aec")

(* The microphones again while estimating.  (Mutant: by the new state.)    *)
OutputByNewState(de, bypassed) ==
    IF de THEN Filled("mic") ELSE Rewritten(bypassed)
Output(de, bypassed) ==
    IF delay_estimator_enabled THEN Filled("mic") ELSE Rewritten(bypassed)

(* ADEC with automatic correction bypassed: it estimates only in a cycle   *)
(* that was forced.  In which frame it begins, and in which it has an      *)
(* estimate and ends, is the library's.                                    *)
AdecEnables(de) == de => delay_estimator_enabled \/ force_de_cycle_trigger

(* It asks for delays from the frame that begins the estimation to the one *)
(* that ends it.                                                           *)
DelayChange(de) ==
    \/ UNCHANGED delayVars
    \/ /\ delay_estimator_enabled \/ de
       /\ \E d \in Delays : UpdateDelay(d)

(* The switch at the end of the frame: aec_init clears the bypass.         *)
(* (Mutant: the forced cycle stays armed.)                                 *)
SwitchKeepsTrigger(de, bypassed) ==
    /\ delay_estimator_enabled' = de
    /\ bypass' = (bypassed /\ de = delay_estimator_enabled)
    /\ num_y_channels' = IF de THEN DeChannels ELSE NormalChannels
    /\ UNCHANGED force_de_cycle_trigger

SwitchConfiguration(de, bypassed) ==
    /\ delay_estimator_enabled' = de
    /\ bypass' = (bypassed /\ de = delay_estimator_enabled)
    /\ num_y_channels' = IF de THEN DeChannels ELSE NormalChannels
    /\ force_de_cycle_trigger' =
           (force_de_cycle_trigger /\ (delay_estimator_enabled \/ ~ de))

(* Everything after get_delayed_frame, and the transfer to tile 0.         *)
ProcessFrame(present, de, flag) ==
    /\ taken = FrameAdvance /\ Len(link) < LinkLength
    /\ taken' = 0
    /\ AdecEnables(de)
    /\ LET bypassed == NextBypass(present) IN
       /\ link' = Append(link, [samples         |-> Output(de, bypassed),
                                ref_active_flag |-> flag,
                                present         |-> present,
                                cancelled       |-> ~ bypassed,
                                estimating      |-> delay_estimator_enabled])
       /\ SwitchConfiguration(de, bypassed)
    /\ hold_aec_count' = NextCount(present)
    /\ DelayChange(de)
    /\ absent' = IF present THEN 0
                 ELSE IF absent > HoldLimit THEN absent ELSE absent + 1
    /\ cycles' = IF de /\ ~ delay_estimator_enabled /\ cycles < 2 THEN cycles + 1
                 ELSE cycles
    /\ UNCHANGED <<alt_arch, tile0Vars>>
-----------------------------------------------------------------------------
(* Tile 0: the IC stage takes the frame and, in the alternating            *)
(* architecture, obeys its flag.                                           *)
StageVnrAndIc ==
    /\ link # <<>>
    /\ out' = Head(link)
    /\ link' = Tail(link)
    /\ ic_bypass' = (alt_arch /\ Head(link).ref_active_flag)
    /\ UNCHANGED <<delayVars, alt_arch, taken, aecVars, absent, cycles>>

Tile1 ==
    \/ TakeSample
    \/ \E present \in BOOLEAN, de \in BOOLEAN :
           \E flag \in FlagsLeft(present) : ProcessFrame(present, de, flag)

Next == Tile1 \/ StageVnrAndIc

Spec == Init /\ [][Next]_vars

(* Microphones and tasks never stop.                                       *)
FairSpec == Spec /\ WF_vars(Tile1) /\ WF_vars(StageVnrAndIc)
=============================================================================
