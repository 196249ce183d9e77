----------------------------- MODULE DelayBuffer ----------------------------
(***************************************************************************)
(* The ring that delays the microphones, or with a negative delay the      *)
(* reference, in stage 1 of the adec pipelines.  One ring serves both      *)
(* signals: it holds whichever was the delayed one when a slot was         *)
(* written, so a change of delay has to clear what is read before it is    *)
(* written anew.                                                           *)
(***************************************************************************)
EXTENDS Integers

CONSTANTS MaxDelay,    \* DELAY_BUF_MAX_DELAY_SAMPLES
          Delays,      \* mic delays that ADEC may request, in samples
          YChannels,   \* AP_MAX_Y_CHANNELS, of the microphones
          XChannels,   \* AP_MAX_X_CHANNELS, of the reference
          Period       \* bound: the sample clock of the history

Channel == 0 .. YChannels - 1
Abs(d)  == IF d < 0 THEN - d ELSE d

(* At a delay of the whole ring a sample would come back undelayed.  The   *)
(* clock tells apart every age that a slot can have.                       *)
ASSUME DelayBufferAssumption ==
    /\ MaxDelay \in Nat \ {0}
    /\ Delays \subseteq Int /\ \A d \in Delays : Abs(d) < MaxDelay
    /\ YChannels \in Nat \ {0} /\ XChannels = YChannels
    /\ Period \in Nat /\ Period >= 2 * MaxDelay

VARIABLES
    delay_buffer,   \* the slots of each channel
    curr_idx,       \* where each channel writes next
    delay_samples,
    y, x,           \* the samples of each channel as the AEC gets them
    now,            \* history: the clock of the sample taken last
    since           \* history: samples taken since the delay was set

delayVars == <<delay_buffer, curr_idx, delay_samples, y, x, now, since>>

(* A sample is its signal and the time it came in; Zero is silence.        *)
Index  == 0 .. MaxDelay - 1
Clock  == 0 .. Period - 1
Mic(t) == [signal |-> "mic", at |-> t]
Ref(t) == [signal |-> "ref", at |-> t]
Zero   == [signal |-> "none", at |-> 0]
Sample == [signal : {"mic", "ref", "none"}, at : Clock]

Tick == IF now + 1 = Period THEN 0 ELSE now + 1

(* delay_buffer_init.                                                      *)
DelayInit ==
    /\ delay_buffer = [ch \in Channel |-> [i \in Index |-> Zero]]
    /\ curr_idx = [ch \in Channel |-> 0]
    /\ delay_samples = 0
    /\ y = [ch \in Channel |-> Zero] /\ x = [ch \in Channel |-> Zero]
    /\ now = 0 /\ since = 0
-----------------------------------------------------------------------------
(* The slot n samples before the one that a channel writes next.           *)
Before(ch, n) == (MaxDelay + curr_idx[ch] - n) % MaxDelay

(* The slot that get_delayed_sample reads.                                 *)
DelayIndex(ch) == Before(ch, Abs(delay_samples))

(* get_delayed_sample, of each channel below n.                            *)
Stored(n, new) ==
    [ch \in Channel |-> IF ch < n THEN [delay_buffer[ch] EXCEPT ![curr_idx[ch]] = new]
                                  ELSE delay_buffer[ch]]
Delayed(n, new) ==
    [ch \in Channel |-> IF ch < n THEN Stored(n, new)[ch][DelayIndex(ch)] ELSE new]

Advanced(ch) == (curr_idx[ch] + 1) % MaxDelay

(* How many channels go through the ring.                                  *)
NumChannels == IF delay_samples > 0 THEN YChannels ELSE XChannels

(* The next sample of every channel of both signals in get_delayed_frame.  *)
GetDelayedSamples ==
    /\ now' = Tick
    /\ delay_buffer' = Stored(NumChannels, IF delay_samples >= 0 THEN Mic(Tick) ELSE Ref(Tick))
    /\ y' = IF delay_samples >= 0 THEN Delayed(NumChannels, Mic(Tick))
            ELSE [ch \in Channel |-> Mic(Tick)]
    /\ x' = IF delay_samples >= 0 THEN [ch \in Channel |-> Ref(Tick)]
            ELSE Delayed(NumChannels, Ref(Tick))
    /\ curr_idx' = [ch \in Channel |-> IF ch < NumChannels THEN Advanced(ch)
                                       ELSE curr_idx[ch]]
    /\ since' = IF since = MaxDelay THEN since ELSE since + 1
    /\ UNCHANGED delay_samples
-----------------------------------------------------------------------------
(* The two spans that reset_partial_delay_buffer clears: n slots before    *)
(* the index, without or with a wrap.  (Mutant: the end of the ring is     *)
(* forgotten.)                                                             *)
ClearedNoWrap(ch, n) ==
    IF Before(ch, n) < curr_idx[ch]
    THEN Before(ch, n) .. Before(ch, n) + n - 1
    ELSE 0 .. curr_idx[ch] - 1
Cleared(ch, n) ==
    IF Before(ch, n) < curr_idx[ch]
    THEN Before(ch, n) .. Before(ch, n) + n - 1
    ELSE (0 .. curr_idx[ch] - 1)
         \cup (MaxDelay - (n - curr_idx[ch]) .. MaxDelay - 1)

(* update_delay_samples, and reset_partial_delay_buffer of every channel.  *)
UpdateDelay(d) ==
    /\ delay_samples' = d
    /\ delay_buffer' =
           [ch \in Channel |-> [i \in Index |->
               IF d # 0 /\ i \in Cleared(ch, Abs(d)) THEN Zero
               ELSE delay_buffer[ch][i]]]
    /\ since' = 0
    /\ UNCHANGED <<curr_idx, y, x, now>>
=============================================================================
